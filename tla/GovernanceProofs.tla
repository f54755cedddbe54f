-------------------------- MODULE GovernanceProofs --------------------------
(***************************************************************************)
(* Proofs about Governance, for every set of identities, names, proposal   *)
(* identifiers and policies, and without a bound on time.                  *)
(***************************************************************************)
EXTENDS Governance, FiniteSetTheorems, TLAPS

(***************************************************************************)
(* Types.                                                                  *)
(***************************************************************************)

\* Whatever a start of the server loads is a policy, the default one included.
LEMMA LoadableIsPolicy == \A p \in Loadable : IsPolicy(p)
<1>1. IsPolicy(DefaultPolicy)
  BY DEF IsPolicy, DefaultPolicy
<1>2. QED
  BY <1>1, PoliciesAssumption DEF Loadable

\* A governed mutation has a number of approvals and a timelock.
LEMMA RuleTyped ==
    ASSUME NEW p \in Loadable, NEW m \in DOMAIN p.mutations
    PROVE  p.mutations[m] \in MutationPolicy
BY LoadableIsPolicy DEF IsPolicy

\* A proposal is well typed when it is made.
LEMMA NewProposalTyped ==
    ASSUME TypeOK, NEW who \in Identity, NEW m \in MutationName,
           m \in DOMAIN policy.mutations
    PROVE  NewProposal(m, who) \in MutationProposal
<1>1. policy.mutations[m] \in MutationPolicy
  BY RuleTyped DEF TypeOK
<1>2. /\ policy.mutations[m].approvals \in Nat
      /\ policy.mutations[m].timelock \in Nat
  BY <1>1 DEF MutationPolicy
<1>3. InitialStatus(policy.mutations[m]) \in ProposalStatus
  BY DEF InitialStatus, ProposalStatus
<1>4. <<who>> \in Seq(Identity)
  OBVIOUS
<1>5. QED
  BY <1>2, <1>3, <1>4 DEF NewProposal, MutationProposal, TypeOK

\* An approval keeps a proposal well typed.
LEMMA WithApprovalTyped ==
    ASSUME NEW p \in MutationProposal, NEW who \in Identity
    PROVE  WithApproval(p, who) \in MutationProposal
<1>1. Append(p.approvals, who) \in Seq(Identity)
  BY DEF MutationProposal
<1>2. QED
  BY <1>1 DEF WithApproval, MutationProposal, ProposalStatus

\* The approvers of a proposal are identities.
LEMMA ApproversTyped ==
    ASSUME NEW p \in MutationProposal
    PROVE  Approvers(p) \subseteq Identity
BY DEF Approvers, MutationProposal

\* The enforcer starts well typed.
LEMMA TypeInit == Init => TypeOK
BY DEF Init, TypeOK, Live, NoProposals, Execution

\* Every call, restart and step of the clocks keeps the types.
LEMMA TypeStep == TypeOK /\ [Next]_vars => TypeOK'
<1> SUFFICES ASSUME TypeOK, [Next]_vars PROVE TypeOK'
  OBVIOUS
<1>1. ASSUME NEW who \in Identity, NEW m \in MutationName, NEW id \in ProposalId,
             ProposeMutation(who, m, id)
      PROVE  TypeOK'
  <2>1. NewProposal(m, who) \in MutationProposal
    BY <1>1, NewProposalTyped DEF ProposeMutation
  <2>2. Live' = Live \cup {id}
    BY <1>1 DEF ProposeMutation, Live
  <2>3. proposals' \in [Live' -> MutationProposal]
    BY <1>1, <2>1, <2>2 DEF ProposeMutation, TypeOK
  <2>4. /\ DOMAIN bornAt' \subseteq ProposalId
        /\ bornAt' \in [DOMAIN bornAt' -> Moment]
    BY <1>1 DEF ProposeMutation, TypeOK, Moment, Now
  <2>5. QED
    BY <1>1, <2>2, <2>3, <2>4 DEF ProposeMutation, TypeOK
<1>2. ASSUME NEW who \in Identity, NEW id \in ProposalId, ApproveProposal(who, id)
      PROVE  TypeOK'
  <2>1. WithApproval(proposals[id], who) \in MutationProposal
    BY <1>2, WithApprovalTyped DEF ApproveProposal, TypeOK
  <2>2. Live' = Live /\ proposals' \in [Live' -> MutationProposal]
    BY <1>2, <2>1 DEF ApproveProposal, TypeOK, Live
  <2>3. QED
    BY <1>2, <2>2 DEF ApproveProposal, TypeOK
<1>3. ASSUME NEW id \in ProposalId, ExecuteProposal(id)
      PROVE  TypeOK'
  <2>1. proposals[id] \in MutationProposal
    BY <1>3 DEF ExecuteProposal, TypeOK
  <2>2. Live' = Live /\ proposals' \in [Live' -> MutationProposal]
    BY <1>3, <2>1 DEF ExecuteProposal, TypeOK, Live, MutationProposal, ProposalStatus
  <2>3. [id |-> id, at |-> Now, under |-> policy,
         mutation |-> proposals[id].mutation,
         approvers |-> Approvers(proposals[id])] \in Execution
    BY <2>1, ApproversTyped DEF Execution, TypeOK, MutationProposal, Moment, Now
  <2>4. executions' \in Seq(Execution)
    BY <1>3, <2>3 DEF ExecuteProposal, TypeOK
  <2>5. QED
    BY <1>3, <2>2, <2>4 DEF ExecuteProposal, TypeOK
<1>4. CASE Restart
  BY <1>4 DEF Restart, TypeOK, Live, NoProposals
<1>5. CASE Tick
  BY <1>5 DEF Tick, TypeOK, Live
<1>6. CASE SetClockBack
  BY <1>6 DEF SetClockBack, TypeOK, Live
<1>7. CASE SetClockForward
  <2>1. /\ wallClock' \in Nat /\ leaps' \in Nat
        /\ UNCHANGED <<policy, proposals, uptime, bornAt, executions>>
    BY <1>7, ClockAssumption DEF SetClockForward, TypeOK
  <2>2. QED
    BY <2>1 DEF TypeOK, Live
<1>8. CASE UNCHANGED vars
  BY <1>8 DEF vars, TypeOK, Live
<1>9. QED
  BY <1>1, <1>2, <1>3, <1>4, <1>5, <1>6, <1>7, <1>8 DEF Next

\* The enforcer's fields keep their types in every behaviour.
THEOREM TypeCorrect == Spec => []TypeOK
BY TypeInit, TypeStep, PTL DEF Spec

(***************************************************************************)
(* Safety.                                                                 *)
(***************************************************************************)

\* A list without repetitions has as many members as entries.
LEMMA DistinctApprovers ==
    ASSUME NEW p \in MutationProposal,
           \A i, j \in 1..Len(p.approvals) :
              p.approvals[i] = p.approvals[j] => i = j
    PROVE  Cardinality(Approvers(p)) = Len(p.approvals)
<1> DEFINE n == Len(p.approvals)
           f == [i \in 1..n |-> p.approvals[i]]
<1>1. n \in Nat
  BY DEF MutationProposal
<1>2. f \in Bijection(1..n, Approvers(p))
  BY DEF Bijection, Injection, Surjection, IsInjective, Approvers
<1>3. QED
  BY <1>1, <1>2, FS_CountingElements DEF ExistsBijection

\* The electorate of a policy is what has_privilege accepts under it.
LEMMA PrivilegeIsElectorate ==
    \A who \in Identity : \A m : HasPrivilege(who, m) <=> who \in Electorate(policy, m)
BY DEF HasPrivilege, Electorate

\* The moments of the history count in natural numbers.
LEMMA MomentTyped ==
    ASSUME TypeOK
    PROVE  /\ Elapsed(Now) \in Nat
           /\ \A id \in DOMAIN bornAt :
                 bornAt[id] \in Moment /\ Elapsed(bornAt[id]) \in Nat
BY DEF TypeOK, Elapsed, Now, Moment

\* A delay is made up of real time and of what the clock was set forward by.
LEMMA ElapsedSplit ==
    ASSUME NEW from \in Moment, NEW to \in Moment, NEW delay \in Nat,
           Elapsed(to) >= Elapsed(from) + delay
    PROVE  to.uptime - from.uptime >= delay - (to.leaps - from.leaps)
<1>1. /\ from.uptime \in Nat /\ from.leaps \in Nat
      /\ to.uptime \in Nat /\ to.leaps \in Nat
  BY DEF Moment
<1>2. QED
  BY <1>1 DEF Elapsed

\* What can be executed has its quorum and has waited long enough.
LEMMA ExecutableIsDue ==
    ASSUME InductiveInv, NEW id \in Live, CanExecute(proposals[id])
    PROVE  LET p == proposals[id]
               rule == policy.mutations[p.mutation]
           IN  /\ p.mutation \in DOMAIN policy.mutations
               /\ Approvers(p) \subseteq Electorate(policy, p.mutation)
               /\ Cardinality(Approvers(p)) >= rule.approvals
               /\ Elapsed(Now) >= Elapsed(bornAt[id]) + rule.timelock
<1> DEFINE p == proposals[id]
           rule == policy.mutations[p.mutation]
<1>1. p \in MutationProposal
  BY DEF InductiveInv, TypeOK
<1>2. /\ p.mutation \in DOMAIN policy.mutations
      /\ p.requiredApprovals = rule.approvals
      /\ Approvers(p) \subseteq Electorate(policy, p.mutation)
  BY DEF InductiveInv, PolicyMinimumKept
<1>3. rule.approvals \in Nat /\ rule.timelock \in Nat
  BY <1>2, RuleTyped DEF InductiveInv, TypeOK, MutationPolicy
<1>4. ProposalInOrder(id)
  BY DEF InductiveInv
<1>5. Cardinality(Approvers(p)) = Len(p.approvals)
  BY <1>1, <1>4, DistinctApprovers DEF ProposalInOrder
<1>6. Elapsed(Now) >= Elapsed(bornAt[id]) + rule.timelock
  <2>1. /\ wallClock \in Nat /\ Elapsed(Now) \in Nat /\ Elapsed(bornAt[id]) \in Nat
        /\ p.proposedAt \in Nat
    BY <1>1, <1>4, MomentTyped DEF InductiveInv, TypeOK, ProposalInOrder, MutationProposal
  <2>2. wallClock >= p.proposedAt + rule.timelock
    BY <1>4 DEF CanExecute, ProposalInOrder
  <2>3. wallClock + Elapsed(bornAt[id]) <= Elapsed(Now) + p.proposedAt
    BY <1>4 DEF ProposalInOrder
  <2>4. QED
    BY <1>3, <2>1, <2>2, <2>3
<1>7. QED
  BY <1>2, <1>5, <1>6 DEF CanExecute

\* The history alone is kept by every step that executes nothing and forgets
\* the birth of no proposal.
LEMMA HistoryKept ==
    ASSUME InductiveInv, executions' = executions,
           DOMAIN bornAt \subseteq DOMAIN bornAt',
           \A id \in DOMAIN bornAt : bornAt'[id] = bornAt[id]
    PROVE  QuorumAtExecution' /\ TimelockServed' /\ ExecutedOnce'
<1>1. QuorumAtExecution' /\ ExecutedOnce'
  BY DEF InductiveInv, QuorumAtExecution, ExecutedOnce
<1>2. TimelockServed'
  BY DEF InductiveInv, TimelockServed, HistoryInOrder
<1>3. QED
  BY <1>1, <1>2

\* Nothing has happened when the server starts for the first time.
LEMMA InductiveInit == Init => InductiveInv
<1> SUFFICES ASSUME Init PROVE InductiveInv
  OBVIOUS
<1>1. Live = {} /\ Len(executions) = 0
  BY DEF Init, NoProposals, Live
<1>2. QED
  BY <1>1, TypeInit DEF InductiveInv, PolicyMinimumKept, HistoryInOrder,
     QuorumAtExecution, TimelockServed, ExecutedOnce

\* A new proposal is in order, and the others are as before.
LEMMA ProposePreserves ==
    ASSUME InductiveInv, TypeOK',
           NEW who \in Identity, NEW m \in MutationName, NEW id \in ProposalId,
           ProposeMutation(who, m, id)
    PROVE  InductiveInv'
<1> DEFINE new == NewProposal(m, who)
<1> USE DEF ProposeMutation
<1>1. /\ Live' = Live \cup {id}
      /\ id \notin Live
      /\ proposals'[id] = new
      /\ \A i \in Live : proposals'[i] = proposals[i]
  BY DEF Live, InductiveInv, ProposalInOrder
<1>2. /\ DOMAIN bornAt' = DOMAIN bornAt \cup {id}
      /\ bornAt'[id] = Now
      /\ \A i \in DOMAIN bornAt : bornAt'[i] = bornAt[i]
  OBVIOUS
<1>3. policy' = policy /\ wallClock' = wallClock /\ Now' = Now
  BY DEF Now
<1>4. /\ new.mutation = m
      /\ new.requiredApprovals = policy.mutations[m].approvals
      /\ new.timelockUntil = new.proposedAt + policy.mutations[m].timelock
      /\ new.proposedAt = wallClock
      /\ new.approvals = <<who>>
  BY DEF NewProposal
<1>5. Approvers(new) = {who}
  BY <1>4 DEF Approvers
<1>6. PolicyMinimumKept'
  <2>1. {who} \subseteq Electorate(policy, m)
    BY PrivilegeIsElectorate
  <2>2. ASSUME NEW i \in Live'
        PROVE  /\ proposals'[i].mutation \in DOMAIN policy.mutations
               /\ proposals'[i].requiredApprovals
                     = policy.mutations[proposals'[i].mutation].approvals
               /\ Approvers(proposals'[i])
                     \subseteq Electorate(policy, proposals'[i].mutation)
    <3>1. CASE i = id
      BY <3>1, <1>1, <1>4, <1>5, <2>1
    <3>2. CASE i \in Live
      BY <3>2, <1>1 DEF InductiveInv, PolicyMinimumKept
    <3>3. QED
      BY <3>1, <3>2, <1>1
  <2>3. QED
    BY <2>2, <1>3 DEF PolicyMinimumKept, Electorate, Approvers
<1>7. ASSUME NEW i \in Live' PROVE ProposalInOrder(i)'
  <2>1. CASE i = id
    <3>1. wallClock' + Elapsed(bornAt'[id]) <= Elapsed(Now') + new.proposedAt
      <4>1. Elapsed(Now) \in Nat /\ wallClock \in Nat
        BY MomentTyped DEF InductiveInv, TypeOK
      <4>2. QED
        BY <4>1, <1>2, <1>3, <1>4
    <3>2. QED
      BY <2>1, <3>1, <1>1, <1>2, <1>3, <1>4 DEF ProposalInOrder
  <2>2. CASE i \in Live
    <3>1. ProposalInOrder(i)
      BY <2>2 DEF InductiveInv
    <3>2. QED
      BY <2>2, <3>1, <1>1, <1>2, <1>3 DEF ProposalInOrder
  <2>3. QED
    BY <2>1, <2>2, <1>1
<1>8. HistoryInOrder'
  BY <1>1, <1>2 DEF InductiveInv, HistoryInOrder
<1>9. QuorumAtExecution' /\ TimelockServed' /\ ExecutedOnce'
  BY <1>2, HistoryKept
<1>10. QED
  BY <1>6, <1>7, <1>8, <1>9 DEF InductiveInv

\* A list without repetition stays so when something new is appended.
LEMMA AppendDistinct ==
    ASSUME NEW S, NEW s \in Seq(S), NEW x \in S,
           \A a, b \in 1..Len(s) : s[a] = s[b] => a = b,
           \A a \in 1..Len(s) : s[a] # x
    PROVE  \A a, b \in 1..Len(Append(s, x)) :
              Append(s, x)[a] = Append(s, x)[b] => a = b
  OBVIOUS

\* An approval comes from the electorate and is not a repetition.
LEMMA ApprovePreserves ==
    ASSUME InductiveInv, TypeOK',
           NEW who \in Identity, NEW id \in ProposalId, ApproveProposal(who, id)
    PROVE  InductiveInv'
<1> DEFINE p == proposals[id]
           q == WithApproval(p, who)
<1> USE DEF ApproveProposal
<1>1. p \in MutationProposal /\ id \in Live /\ who \notin Approvers(p)
  BY DEF InductiveInv, TypeOK
<1>2. /\ Live' = Live
      /\ proposals'[id] = q
      /\ \A i \in Live : i # id => proposals'[i] = proposals[i]
  BY DEF Live, InductiveInv, TypeOK
<1>3. /\ policy' = policy /\ wallClock' = wallClock /\ Now' = Now
      /\ bornAt' = bornAt /\ executions' = executions
  BY DEF Now
<1>4. /\ q.approvals = Append(p.approvals, who)
      /\ q.mutation = p.mutation
      /\ q.requiredApprovals = p.requiredApprovals
      /\ q.proposedAt = p.proposedAt
      /\ q.timelockUntil = p.timelockUntil
      /\ p.status = "Executed" => q.status = "Executed"
  BY <1>1 DEF WithApproval, MutationProposal
<1>5. p.approvals \in Seq(Identity)
  BY <1>1 DEF MutationProposal
<1>6. Approvers(q) = Approvers(p) \cup {who}
  <2>1. /\ Len(q.approvals) = Len(p.approvals) + 1
        /\ q.approvals[Len(p.approvals) + 1] = who
        /\ \A i \in 1..Len(p.approvals) : q.approvals[i] = p.approvals[i]
    BY <1>4, <1>5
  <2>2. 1..Len(q.approvals) = 1..Len(p.approvals) \cup {Len(p.approvals) + 1}
    BY <2>1, <1>5
  <2> HIDE DEF ApproveProposal
  <2>3. QED
    BY <2>1, <2>2 DEF Approvers
<1>7. PolicyMinimumKept'
  <2>1. who \in Electorate(policy, p.mutation)
    BY PrivilegeIsElectorate
  <2>2. ASSUME NEW i \in Live'
        PROVE  /\ proposals'[i].mutation \in DOMAIN policy.mutations
               /\ proposals'[i].requiredApprovals
                     = policy.mutations[proposals'[i].mutation].approvals
               /\ Approvers(proposals'[i])
                     \subseteq Electorate(policy, proposals'[i].mutation)
    <3>1. CASE i = id
      BY <3>1, <1>1, <1>2, <1>4, <1>6, <2>1 DEF InductiveInv, PolicyMinimumKept
    <3>2. CASE i # id
      BY <3>2, <1>2 DEF InductiveInv, PolicyMinimumKept
    <3>3. QED
      BY <3>1, <3>2
  <2>3. QED
    BY <2>2, <1>3 DEF PolicyMinimumKept, Electorate, Approvers
<1>8. ASSUME NEW i \in Live' PROVE ProposalInOrder(i)'
  <2>1. ProposalInOrder(i)
    BY <1>2 DEF InductiveInv
  <2>2. CASE i = id
    <3> HIDE DEF q, ApproveProposal
    <3>1. proposals'[i] = q
      BY <2>2, <1>2
    <3>2. /\ i \in DOMAIN bornAt
          /\ \A a, b \in 1..Len(p.approvals) :
                p.approvals[a] = p.approvals[b] => a = b
          /\ p.timelockUntil
               = p.proposedAt + policy.mutations[p.mutation].timelock
          /\ wallClock + Elapsed(bornAt[i]) <= Elapsed(Now) + p.proposedAt
      BY <2>1, <2>2 DEF ProposalInOrder
    <3>3. \A a, b \in 1..Len(q.approvals) :
             q.approvals[a] = q.approvals[b] => a = b
      <4>1. \A a \in 1..Len(p.approvals) : p.approvals[a] # who
        BY <1>1 DEF Approvers
      <4>2. QED
        BY <3>2, <4>1, <1>4, <1>5, AppendDistinct
    <3>4. i \in DOMAIN bornAt'
      BY <3>2, <1>3
    <3>5. q.timelockUntil
            = q.proposedAt + policy'.mutations[q.mutation].timelock
      BY <3>2, <1>3, <1>4
    <3>6. wallClock' + Elapsed(bornAt'[i]) <= Elapsed(Now') + q.proposedAt
      BY <3>2, <1>3, <1>4
    <3>7. QED
      BY <3>1, <3>3, <3>4, <3>5, <3>6, Zenon DEF ProposalInOrder
  <2>3. CASE i # id
    <3>1. proposals'[i] = proposals[i]
      BY <2>3, <1>2
    <3>2. QED
      BY <2>1, <3>1, <1>3 DEF ProposalInOrder
  <2>4. QED
    BY <2>2, <2>3
<1>9. HistoryInOrder'
  BY <1>2, <1>3, <1>4 DEF InductiveInv, HistoryInOrder
<1>10. QuorumAtExecution' /\ TimelockServed' /\ ExecutedOnce'
  BY <1>3, HistoryKept
<1>11. QED
  BY <1>7, <1>8, <1>9, <1>10 DEF InductiveInv

\* An execution is due, is the first of its proposal, and is recorded last.
LEMMA ExecutePreserves ==
    ASSUME InductiveInv, TypeOK', NEW id \in ProposalId, ExecuteProposal(id)
    PROVE  InductiveInv'
<1> DEFINE p == proposals[id]
           e == [id |-> id, at |-> Now, under |-> policy,
                 mutation |-> p.mutation, approvers |-> Approvers(p)]
           last == Len(executions) + 1
<1> USE DEF ExecuteProposal
<1>1. p \in MutationProposal /\ id \in Live
  BY DEF InductiveInv, TypeOK
<1>2. /\ Live' = Live
      /\ proposals'[id] = [p EXCEPT !.status = "Executed"]
      /\ \A i \in Live : i # id => proposals'[i] = proposals[i]
  BY DEF Live, InductiveInv, TypeOK
<1>3. \A i \in Live :
         /\ proposals'[i].approvals = proposals[i].approvals
         /\ proposals'[i].mutation = proposals[i].mutation
         /\ proposals'[i].requiredApprovals = proposals[i].requiredApprovals
         /\ proposals'[i].proposedAt = proposals[i].proposedAt
         /\ proposals'[i].timelockUntil = proposals[i].timelockUntil
  BY <1>1, <1>2 DEF MutationProposal
<1>4. /\ policy' = policy /\ wallClock' = wallClock /\ Now' = Now
      /\ bornAt' = bornAt
  BY DEF Now
<1>5. /\ executions \in Seq(Execution)
      /\ e \in Execution
  BY <1>1, ApproversTyped
  DEF InductiveInv, TypeOK, Execution, MutationProposal, Moment, Now
<1>6. executions' = Append(executions, e)
  OBVIOUS
<1>7. /\ Len(executions') = last /\ last \in Nat
      /\ executions'[last] = e
      /\ \A n \in 1..Len(executions) : executions'[n] = executions[n]
      /\ 1..last = 1..Len(executions) \cup {last}
  <2> HIDE DEF e
  <2>1. QED
    BY <1>5, <1>6
<1>8. PolicyMinimumKept'
  <2>1. \A i \in Live : Approvers(proposals'[i]) = Approvers(proposals[i])
    BY <1>3 DEF Approvers
  <2>2. ASSUME NEW i \in Live'
        PROVE  /\ proposals'[i].mutation \in DOMAIN policy.mutations
               /\ proposals'[i].requiredApprovals
                     = policy.mutations[proposals'[i].mutation].approvals
               /\ Approvers(proposals'[i])
                     \subseteq Electorate(policy, proposals'[i].mutation)
    <3> HIDE DEF ExecuteProposal
    <3>1. /\ proposals[i].mutation \in DOMAIN policy.mutations
          /\ proposals[i].requiredApprovals
                = policy.mutations[proposals[i].mutation].approvals
          /\ Approvers(proposals[i])
                \subseteq Electorate(policy, proposals[i].mutation)
      BY <1>2 DEF InductiveInv, PolicyMinimumKept
    <3>2. /\ proposals'[i].mutation = proposals[i].mutation
          /\ proposals'[i].requiredApprovals = proposals[i].requiredApprovals
          /\ Approvers(proposals'[i]) = Approvers(proposals[i])
      BY <2>1, <1>2, <1>3
    <3>3. QED
      BY <3>1, <3>2
  <2>3. QED
    BY <2>2, <1>4 DEF PolicyMinimumKept, Electorate, Approvers
<1>9. ASSUME NEW i \in Live' PROVE ProposalInOrder(i)'
  <2> HIDE DEF ExecuteProposal
  <2> DEFINE old == proposals[i]
             new == proposals'[i]
  <2>1. /\ i \in DOMAIN bornAt
        /\ \A a, b \in 1..Len(old.approvals) :
              old.approvals[a] = old.approvals[b] => a = b
        /\ old.timelockUntil
             = old.proposedAt + policy.mutations[old.mutation].timelock
        /\ wallClock + Elapsed(bornAt[i]) <= Elapsed(Now) + old.proposedAt
    BY <1>2 DEF InductiveInv, ProposalInOrder
  <2>2. /\ new.approvals = old.approvals
        /\ new.mutation = old.mutation
        /\ new.proposedAt = old.proposedAt
        /\ new.timelockUntil = old.timelockUntil
    BY <1>2, <1>3
  <2> HIDE DEF old, new
  <2>3. /\ i \in DOMAIN bornAt'
        /\ \A a, b \in 1..Len(new.approvals) :
              new.approvals[a] = new.approvals[b] => a = b
        /\ new.timelockUntil
             = new.proposedAt + policy'.mutations[new.mutation].timelock
        /\ wallClock' + Elapsed(bornAt'[i]) <= Elapsed(Now') + new.proposedAt
    BY <2>1, <2>2, <1>4
  <2>4. QED
    BY <2>3, Zenon DEF new, ProposalInOrder
<1>10. \A n \in 1..Len(executions) : executions[n].id # id
  BY <1>1 DEF InductiveInv, HistoryInOrder, CanExecute
<1>11. HistoryInOrder'
  <2>1. id \in DOMAIN bornAt /\ proposals'[id].status = "Executed"
    BY <1>1, <1>2 DEF InductiveInv, ProposalInOrder, MutationProposal
  <2>2. ASSUME NEW n \in 1..Len(executions')
        PROVE  /\ executions'[n].id \in DOMAIN bornAt
               /\ executions'[n].id \in Live
                     => proposals'[executions'[n].id].status = "Executed"
    <3>1. CASE n = last
      BY <3>1, <2>1, <1>7
    <3>2. CASE n \in 1..Len(executions)
      BY <3>2, <1>2, <1>7, <1>10 DEF InductiveInv, HistoryInOrder
    <3>3. QED
      BY <3>1, <3>2, <1>7
  <2>3. QED
    BY <2>2, <1>2, <1>4 DEF HistoryInOrder
<1>12. /\ p.mutation \in DOMAIN policy.mutations
       /\ Approvers(p) \subseteq Electorate(policy, p.mutation)
       /\ Cardinality(Approvers(p)) >= policy.mutations[p.mutation].approvals
       /\ Elapsed(Now) >= Elapsed(bornAt[id]) + policy.mutations[p.mutation].timelock
  BY <1>1, ExecutableIsDue
<1>13. QuorumAtExecution'
  <2>1. ASSUME NEW n \in 1..Len(executions')
        PROVE  LET x == executions'[n]
               IN  /\ x.mutation \in DOMAIN x.under.mutations
                   /\ x.approvers \subseteq Electorate(x.under, x.mutation)
                   /\ Cardinality(x.approvers)
                         >= x.under.mutations[x.mutation].approvals
    <3>1. CASE n = last
      BY <3>1, <1>7, <1>12
    <3>2. CASE n \in 1..Len(executions)
      BY <3>2, <1>7 DEF InductiveInv, QuorumAtExecution
    <3>3. QED
      BY <3>1, <3>2, <1>7
  <2>2. QED
    BY <2>1 DEF QuorumAtExecution, Electorate
<1>14. TimelockServed'
  <2>1. ASSUME NEW n \in 1..Len(executions')
        PROVE  LET x == executions'[n]
                   born == bornAt[x.id]
                   timelock == x.under.mutations[x.mutation].timelock
               IN  x.at.uptime - born.uptime >= timelock - (x.at.leaps - born.leaps)
    <3>1. CASE n = last
      <4>1. /\ Now \in Moment /\ bornAt[id] \in Moment
            /\ policy.mutations[p.mutation].timelock \in Nat
        BY <1>1, <1>12, MomentTyped, RuleTyped
        DEF InductiveInv, TypeOK, ProposalInOrder, Moment, Now, MutationPolicy
      <4>2. Now.uptime - bornAt[id].uptime
              >= policy.mutations[p.mutation].timelock - (Now.leaps - bornAt[id].leaps)
        BY <4>1, <1>12, ElapsedSplit
      <4>3. QED
        BY <3>1, <4>2, <1>7
    <3>2. CASE n \in 1..Len(executions)
      BY <3>2, <1>7 DEF InductiveInv, TimelockServed
    <3>3. QED
      BY <3>1, <3>2, <1>7
  <2>2. QED
    BY <2>1, <1>4 DEF TimelockServed
<1>15. ExecutedOnce'
  <2>1. ASSUME NEW i \in 1..Len(executions'), NEW j \in 1..Len(executions'),
               executions'[i].id = executions'[j].id
        PROVE  i = j
    <3>1. CASE i = last /\ j \in 1..Len(executions)
      BY <3>1, <2>1, <1>7, <1>10
    <3>2. CASE j = last /\ i \in 1..Len(executions)
      BY <3>2, <2>1, <1>7, <1>10
    <3>3. CASE i \in 1..Len(executions) /\ j \in 1..Len(executions)
      BY <3>3, <2>1, <1>7 DEF InductiveInv, ExecutedOnce
    <3>4. QED
      BY <3>1, <3>2, <3>3, <1>7
  <2>2. QED
    BY <2>1 DEF ExecutedOnce
<1>16. QED
  BY <1>8, <1>9, <1>11, <1>13, <1>14, <1>15 DEF InductiveInv

\* Restarts, the clocks and stuttering disturb nothing.
LEMMA OthersPreserve ==
    ASSUME InductiveInv, TypeOK',
           Restart \/ Tick \/ SetClockBack \/ SetClockForward \/ UNCHANGED vars
    PROVE  InductiveInv'
<1>1. executions' = executions /\ bornAt' = bornAt
  BY DEF Restart, Tick, SetClockBack, SetClockForward, vars
<1>2. QuorumAtExecution' /\ TimelockServed' /\ ExecutedOnce'
  BY <1>1, HistoryKept
<1>3. CASE Restart
  <2>1. Live' = {}
    BY <1>3 DEF Restart, NoProposals, Live
  <2>2. HistoryInOrder'
    BY <2>1, <1>1 DEF InductiveInv, HistoryInOrder
  <2>3. QED
    BY <2>1, <2>2, <1>2 DEF InductiveInv, PolicyMinimumKept
<1>4. CASE proposals' = proposals /\ policy' = policy
  <2>1. Live' = Live
    BY <1>4 DEF Live
  <2>2. PolicyMinimumKept' /\ HistoryInOrder'
    <3>1. PolicyMinimumKept'
      <4>1. ASSUME NEW id \in Live'
            PROVE  /\ proposals'[id].mutation \in DOMAIN policy.mutations
                   /\ proposals'[id].requiredApprovals
                        = policy.mutations[proposals'[id].mutation].approvals
                   /\ Approvers(proposals'[id])
                        \subseteq Electorate(policy, proposals'[id].mutation)
        BY <1>4, <2>1 DEF InductiveInv, PolicyMinimumKept
      <4>2. QED
        BY <4>1, <1>4 DEF PolicyMinimumKept, Electorate, Approvers
    <3>2. HistoryInOrder'
      BY <1>1, <1>4, <2>1 DEF InductiveInv, HistoryInOrder
    <3>3. QED
      BY <3>1, <3>2
  <2>3. \A id \in Live : wallClock' + Elapsed(bornAt[id]) <= Elapsed(Now') + proposals[id].proposedAt
    <3>1. ASSUME NEW id \in Live
          PROVE  /\ wallClock + Elapsed(bornAt[id]) <= Elapsed(Now) + proposals[id].proposedAt
                 /\ Elapsed(bornAt[id]) \in Nat /\ proposals[id].proposedAt \in Nat
      BY MomentTyped DEF InductiveInv, ProposalInOrder, TypeOK, MutationProposal
    <3>2. wallClock \in Nat /\ uptime \in Nat /\ leaps \in Nat
      BY DEF InductiveInv, TypeOK
    <3>3. Elapsed(Now) = uptime + leaps /\ Elapsed(Now') = uptime' + leaps'
      BY DEF Elapsed, Now
    <3>4. CASE Tick
      BY <3>1, <3>2, <3>3, <3>4 DEF Tick
    <3>5. CASE SetClockBack
      BY <3>1, <3>2, <3>3, <3>5 DEF SetClockBack
    <3>6. CASE SetClockForward
      <4>1. PICK step \in 1 .. MaxLeaps - leaps :
               wallClock' = wallClock + step /\ leaps' = leaps + step
        BY <3>6 DEF SetClockForward
      <4>2. step \in Nat /\ uptime' = uptime
        BY <3>2, <3>6, ClockAssumption DEF SetClockForward
      <4>3. QED
        BY <3>1, <3>2, <3>3, <4>1, <4>2
    <3>7. CASE Restart \/ UNCHANGED vars
      BY <3>1, <3>3, <3>7 DEF Restart, vars
    <3>8. QED
      BY <3>4, <3>5, <3>6, <3>7
  <2>4. \A id \in Live' : ProposalInOrder(id)'
    BY <1>1, <1>4, <2>1, <2>3 DEF InductiveInv, ProposalInOrder
  <2>5. QED
    BY <2>2, <2>4, <1>2 DEF InductiveInv
<1>5. QED
  BY <1>3, <1>4 DEF Tick, SetClockBack, SetClockForward, vars

\* The inductive invariant holds in every behaviour.
THEOREM InductiveCorrect == Spec => []InductiveInv
<1>1. InductiveInv /\ [Next]_vars => InductiveInv'
  <2> SUFFICES ASSUME InductiveInv, [Next]_vars PROVE InductiveInv'
    OBVIOUS
  <2>1. TypeOK'
    BY TypeStep DEF InductiveInv
  <2>2. ASSUME NEW who \in Identity, NEW m \in MutationName, NEW id \in ProposalId,
               ProposeMutation(who, m, id)
        PROVE  InductiveInv'
    BY <2>1, <2>2, ProposePreserves
  <2>3. ASSUME NEW who \in Identity, NEW id \in ProposalId, ApproveProposal(who, id)
        PROVE  InductiveInv'
    BY <2>1, <2>3, ApprovePreserves
  <2>4. ASSUME NEW id \in ProposalId, ExecuteProposal(id)
        PROVE  InductiveInv'
    BY <2>1, <2>4, ExecutePreserves
  <2>5. CASE Restart \/ Tick \/ SetClockBack \/ SetClockForward \/ UNCHANGED vars
    BY <2>1, <2>5, OthersPreserve
  <2>6. QED
    BY <2>2, <2>3, <2>4, <2>5 DEF Next
<1>2. QED
  BY <1>1, InductiveInit, PTL DEF Spec

\* Nothing is executed without as many different privileged approvers as the
\* policy asks for.
THEOREM QuorumCorrect == Spec => []QuorumAtExecution
<1>1. InductiveInv => QuorumAtExecution
  BY DEF InductiveInv
<1>2. QED
  BY <1>1, InductiveCorrect, PTL

\* Nothing is executed before its timelock has passed in real time, but for the
\* time by which the wall clock was set forward since the proposal, however often
\* it is set back and forward.
THEOREM TimelockCorrect == Spec => []TimelockServed
<1>1. InductiveInv => TimelockServed
  BY DEF InductiveInv
<1>2. QED
  BY <1>1, InductiveCorrect, PTL

\* Nothing is executed twice.
THEOREM ExecutedOnceCorrect == Spec => []ExecutedOnce
<1>1. InductiveInv => ExecutedOnce
  BY DEF InductiveInv
<1>2. QED
  BY <1>1, InductiveCorrect, PTL

\* A live proposal is always held to the policy that is loaded.
THEOREM PolicyMinimumCorrect == Spec => []PolicyMinimumKept
<1>1. InductiveInv => PolicyMinimumKept
  BY DEF InductiveInv
<1>2. QED
  BY <1>1, InductiveCorrect, PTL

(***************************************************************************)
(* What each call does to the proposals.                                   *)
(***************************************************************************)

\* A new proposal has one approval and is never executed.
LEMMA ProposeEffect ==
    ASSUME TypeOK, Live \subseteq DOMAIN bornAt,
           NEW who \in Identity, NEW m \in MutationName, NEW id \in ProposalId,
           ProposeMutation(who, m, id)
    PROVE  /\ Live' = Live \cup {id} /\ id \notin Live
           /\ proposals'[id] = NewProposal(m, who)
           /\ proposals'[id].mutation = m /\ proposals'[id].proposedAt = wallClock
           /\ proposals'[id].timelockUntil = wallClock + policy.mutations[m].timelock
           /\ proposals'[id].approvals = <<who>>
           /\ proposals'[id].requiredApprovals = policy.mutations[m].approvals
           /\ proposals'[id].status = InitialStatus(policy.mutations[m])
           /\ \A i \in Live : proposals'[i] = proposals[i]
<1>1. /\ Live' = Live \cup {id} /\ id \notin Live
      /\ proposals'[id] = NewProposal(m, who)
      /\ \A i \in Live : proposals'[i] = proposals[i]
  BY DEF ProposeMutation, Live
<1>2. QED
  BY <1>1 DEF NewProposal

\* An approval adds to the list and may make a Pending proposal Approved.
LEMMA ApproveEffect ==
    ASSUME TypeOK, NEW who \in Identity, NEW id \in ProposalId, ApproveProposal(who, id)
    PROVE  LET p == proposals[id]
               q == proposals'[id]
           IN  /\ id \in Live /\ Live' = Live /\ p \in MutationProposal
               /\ q.approvals = Append(p.approvals, who)
               /\ Len(q.approvals) = Len(p.approvals) + 1
               /\ Approvers(q) = Approvers(p) \cup {who}
               /\ q.mutation = p.mutation /\ q.proposedAt = p.proposedAt
               /\ q.timelockUntil = p.timelockUntil
               /\ q.requiredApprovals = p.requiredApprovals
               /\ q.status = IF /\ Len(q.approvals) >= p.requiredApprovals
                                /\ p.status = "Pending"
                             THEN "Approved" ELSE p.status
               /\ \A i \in Live \ {id} : proposals'[i] = proposals[i]
<1> DEFINE p == proposals[id]
           q == WithApproval(p, who)
<1>1. p \in MutationProposal /\ id \in Live
  BY DEF TypeOK, ApproveProposal
<1>2. /\ Live' = Live /\ proposals'[id] = q
      /\ \A i \in Live \ {id} : proposals'[i] = proposals[i]
  BY DEF TypeOK, ApproveProposal, Live
<1>3. p.approvals \in Seq(Identity)
  BY <1>1 DEF MutationProposal
<1>4. /\ q.approvals = Append(p.approvals, who)
      /\ q.mutation = p.mutation /\ q.proposedAt = p.proposedAt
      /\ q.timelockUntil = p.timelockUntil
      /\ q.requiredApprovals = p.requiredApprovals
      /\ q.status = IF /\ Len(q.approvals) >= p.requiredApprovals
                       /\ p.status = "Pending"
                    THEN "Approved" ELSE p.status
  BY <1>1 DEF WithApproval, MutationProposal
<1>5. /\ Len(q.approvals) = Len(p.approvals) + 1
      /\ q.approvals[Len(p.approvals) + 1] = who
      /\ \A i \in 1..Len(p.approvals) : q.approvals[i] = p.approvals[i]
      /\ 1..Len(q.approvals) = 1..Len(p.approvals) \cup {Len(p.approvals) + 1}
  BY <1>3, <1>4
<1>6. Approvers(q) = Approvers(p) \cup {who}
  BY <1>5 DEF Approvers
<1> HIDE DEF q
<1>7. QED
  BY <1>1, <1>2, <1>4, <1>5, <1>6

\* An execution changes the status of one proposal, and is recorded last.
LEMMA ExecuteEffect ==
    ASSUME TypeOK, NEW id \in ProposalId, ExecuteProposal(id)
    PROVE  LET p == proposals[id]
               q == proposals'[id]
               last == Len(executions) + 1
           IN  /\ id \in Live /\ Live' = Live /\ p \in MutationProposal
               /\ q.status = "Executed" /\ q.approvals = p.approvals
               /\ q.mutation = p.mutation /\ q.proposedAt = p.proposedAt
               /\ q.timelockUntil = p.timelockUntil
               /\ q.requiredApprovals = p.requiredApprovals
               /\ Len(executions') = last /\ last \in Nat
               /\ executions'[last].id = id
               /\ executions'[last].approvers = Approvers(p)
               /\ \A n \in 1..Len(executions) : executions'[n] = executions[n]
               /\ \A i \in Live \ {id} : proposals'[i] = proposals[i]
<1> DEFINE p == proposals[id]
           q == [p EXCEPT !.status = "Executed"]
           e == [id |-> id, at |-> Now, under |-> policy,
                 mutation |-> p.mutation, approvers |-> Approvers(p)]
<1>1. p \in MutationProposal /\ id \in Live
  BY DEF TypeOK, ExecuteProposal
<1>2. /\ Live' = Live /\ proposals'[id] = q
      /\ \A i \in Live \ {id} : proposals'[i] = proposals[i]
  BY DEF TypeOK, ExecuteProposal, Live
<1>3. /\ q.status = "Executed" /\ q.approvals = p.approvals
      /\ q.mutation = p.mutation /\ q.proposedAt = p.proposedAt
      /\ q.timelockUntil = p.timelockUntil
      /\ q.requiredApprovals = p.requiredApprovals
  BY <1>1 DEF MutationProposal
<1>4. executions \in Seq(Execution) /\ e \in Execution
  BY <1>1, ApproversTyped DEF TypeOK, Execution, MutationProposal, Moment, Now
<1>5. executions' = Append(executions, e)
  BY DEF ExecuteProposal
<1>6. e.id = id /\ e.approvers = Approvers(p)
  OBVIOUS
<1> HIDE DEF e, q
<1>7. /\ Len(executions') = Len(executions) + 1 /\ Len(executions) + 1 \in Nat
      /\ executions'[Len(executions) + 1] = e
      /\ \A n \in 1..Len(executions) : executions'[n] = executions[n]
  BY <1>4, <1>5
<1>8. QED
  BY <1>1, <1>2, <1>3, <1>6, <1>7

\* Whether it is executed or not, a proposal is Pending only while it has too few
\* approvals, and Approved or Executed only when it has enough.
THEOREM StatusCorrect == Spec => []StatusFollowsApprovals
<1> DEFINE Follows(p) ==
             /\ p.status = "Pending" => Len(p.approvals) < p.requiredApprovals
             /\ p.status \in {"Approved", "Executed"}
                   => Len(p.approvals) >= p.requiredApprovals
<1>1. Init => StatusFollowsApprovals
  BY DEF Init, NoProposals, Live, StatusFollowsApprovals
<1>2. InductiveInv /\ StatusFollowsApprovals /\ [Next]_vars => StatusFollowsApprovals'
  <2> SUFFICES ASSUME InductiveInv, StatusFollowsApprovals, [Next]_vars
               PROVE  StatusFollowsApprovals'
    OBVIOUS
  <2>1. TypeOK /\ Live \subseteq DOMAIN bornAt
    BY DEF InductiveInv, ProposalInOrder
  <2>2. \A i \in Live : Follows(proposals[i])
    BY DEF StatusFollowsApprovals
  <2>3. ASSUME NEW who \in Identity, NEW m \in MutationName, NEW id \in ProposalId,
               ProposeMutation(who, m, id)
        PROVE  \A i \in Live' : Follows(proposals'[i])
    <3>1. policy.mutations[m] \in MutationPolicy
      BY <2>1, <2>3, RuleTyped DEF ProposeMutation, TypeOK
    <3>2. Follows(proposals'[id])
      <4>1. /\ Len(proposals'[id].approvals) = 1
            /\ proposals'[id].requiredApprovals = policy.mutations[m].approvals
            /\ proposals'[id].status = InitialStatus(policy.mutations[m])
        <5>1. proposals'[id].approvals = <<who>>
          BY <2>1, <2>3, ProposeEffect
        <5>2. Len(<<who>>) = 1
          OBVIOUS
        <5>3. QED
          BY <2>1, <2>3, <5>1, <5>2, ProposeEffect
      <4>2. QED
        BY <3>1, <4>1 DEF InitialStatus, MutationPolicy
    <3>3. QED
      BY <2>1, <2>2, <2>3, <3>2, ProposeEffect
  <2>4. ASSUME NEW who \in Identity, NEW id \in ProposalId, ApproveProposal(who, id)
        PROVE  \A i \in Live' : Follows(proposals'[i])
    <3>1. Follows(proposals'[id])
      <4>1. proposals[id].requiredApprovals \in Nat /\ Len(proposals[id].approvals) \in Nat
        BY <2>1, <2>4, ApproveEffect DEF MutationProposal
      <4>2. QED
        BY <2>1, <2>2, <2>4, <4>1, ApproveEffect
    <3>2. QED
      BY <2>1, <2>2, <2>4, <3>1, ApproveEffect
  <2>5. ASSUME NEW id \in ProposalId, ExecuteProposal(id)
        PROVE  \A i \in Live' : Follows(proposals'[i])
    <3>1. Follows(proposals'[id])
      <4>1. Len(proposals[id].approvals) >= proposals[id].requiredApprovals
        BY <2>5 DEF ExecuteProposal, CanExecute
      <4>2. QED
        BY <2>1, <2>5, <4>1, ExecuteEffect
    <3>2. QED
      BY <2>1, <2>2, <2>5, <3>1, ExecuteEffect
  <2>6. CASE Restart
    BY <2>6 DEF Restart, NoProposals, Live, StatusFollowsApprovals
  <2>7. CASE Tick \/ SetClockBack \/ SetClockForward \/ UNCHANGED vars
    BY <2>2, <2>7 DEF Tick, SetClockBack, SetClockForward, vars, Live, StatusFollowsApprovals
  <2>8. CASE \A i \in Live' : Follows(proposals'[i])
    BY <2>8 DEF StatusFollowsApprovals
  <2>9. QED
    BY <2>3, <2>4, <2>5, <2>6, <2>7, <2>8 DEF Next
<1>3. QED
  BY <1>1, <1>2, InductiveCorrect, PTL DEF Spec

(***************************************************************************)
(* What a step may do to a proposal that lives on.                         *)
(***************************************************************************)
\* q is what may become of p: it has p's approvals first and p's terms, and is
\* executed if p is.
Advances(p, q) ==
    /\ SubSeq(q.approvals, 1, Len(p.approvals)) = p.approvals
    /\ [q EXCEPT !.approvals = <<>>, !.status = "Pending"]
          = [p EXCEPT !.approvals = <<>>, !.status = "Pending"]
    /\ p.status = "Executed" => q.status = "Executed"

\* A proposal that is left alone advances.
LEMMA AdvancesItself == ASSUME NEW p \in MutationProposal PROVE Advances(p, p)
<1>1. p.approvals \in Seq(Identity)
  BY DEF MutationProposal
<1>2. SubSeq(p.approvals, 1, Len(p.approvals)) = p.approvals
  BY <1>1
<1>3. QED
  BY <1>2 DEF Advances

\* One that gets an approval does.
LEMMA AdvancesWithApproval ==
    ASSUME NEW p \in MutationProposal, NEW who \in Identity
    PROVE  Advances(p, WithApproval(p, who))
<1> DEFINE q == WithApproval(p, who)
<1>1. p.approvals \in Seq(Identity)
  BY DEF MutationProposal
<1>2. /\ q.approvals = Append(p.approvals, who)
      /\ p.status = "Executed" => q.status = "Executed"
      /\ [q EXCEPT !.approvals = <<>>, !.status = "Pending"]
            = [p EXCEPT !.approvals = <<>>, !.status = "Pending"]
  BY DEF WithApproval, MutationProposal
<1>3. SubSeq(Append(p.approvals, who), 1, Len(p.approvals)) = p.approvals
  BY <1>1
<1> HIDE DEF q
<1>4. QED
  BY <1>2, <1>3 DEF Advances, q

\* One that is executed does.
LEMMA AdvancesWhenExecuted ==
    ASSUME NEW p \in MutationProposal
    PROVE  Advances(p, [p EXCEPT !.status = "Executed"])
<1> DEFINE q == [p EXCEPT !.status = "Executed"]
<1>1. p.approvals \in Seq(Identity)
  BY DEF MutationProposal
<1>2. /\ q.approvals = p.approvals /\ q.status = "Executed"
      /\ [q EXCEPT !.approvals = <<>>, !.status = "Pending"]
            = [p EXCEPT !.approvals = <<>>, !.status = "Pending"]
  BY DEF MutationProposal
<1>3. SubSeq(p.approvals, 1, Len(p.approvals)) = p.approvals
  BY <1>1
<1> HIDE DEF q
<1>4. QED
  BY <1>2, <1>3 DEF Advances, q

\* While a proposal lives its approvals are only added to, its terms stay, and
\* Executed is final, for any number of proposals, approvals and executions.
THEOREM AdvanceCorrect == Spec => ProposalsOnlyAdvance
<1>1. InductiveInv /\ [Next]_vars =>
        [\A id \in Live \cap Live' : Advances(proposals[id], proposals'[id])]_vars
  <2> SUFFICES ASSUME InductiveInv, Next, NEW id \in Live \cap Live'
               PROVE  Advances(proposals[id], proposals'[id])
    OBVIOUS
  <2>1. TypeOK /\ proposals[id] \in MutationProposal /\ Live \subseteq DOMAIN bornAt
    BY DEF InductiveInv, TypeOK, ProposalInOrder
  <2>2. ASSUME NEW who \in Identity, NEW m \in MutationName, NEW new \in ProposalId,
               ProposeMutation(who, m, new)
        PROVE  Advances(proposals[id], proposals'[id])
    BY <2>1, <2>2, ProposeEffect, AdvancesItself
  <2>3. ASSUME NEW who \in Identity, NEW changed \in ProposalId, ApproveProposal(who, changed)
        PROVE  Advances(proposals[id], proposals'[id])
    <3>1. proposals'[id] = IF id = changed THEN WithApproval(proposals[id], who)
                           ELSE proposals[id]
      BY <2>1, <2>3 DEF ApproveProposal, TypeOK
    <3>2. QED
      BY <2>1, <3>1, AdvancesItself, AdvancesWithApproval
  <2>4. ASSUME NEW changed \in ProposalId, ExecuteProposal(changed)
        PROVE  Advances(proposals[id], proposals'[id])
    <3>1. proposals'[id] = IF id = changed THEN [proposals[id] EXCEPT !.status = "Executed"]
                           ELSE proposals[id]
      BY <2>1, <2>4 DEF ExecuteProposal, TypeOK
    <3>2. QED
      BY <2>1, <3>1, AdvancesItself, AdvancesWhenExecuted
  <2>5. ~ Restart
    BY DEF Restart, NoProposals, Live
  <2>6. CASE Tick \/ SetClockBack \/ SetClockForward
    BY <2>1, <2>6, AdvancesItself DEF Tick, SetClockBack, SetClockForward
  <2>7. QED
    BY <2>2, <2>3, <2>4, <2>5, <2>6 DEF Next
<1>2. QED
  BY <1>1, InductiveCorrect, PTL DEF Spec, ProposalsOnlyAdvance, Advances

=============================================================================
