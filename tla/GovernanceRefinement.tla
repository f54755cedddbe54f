------------------------- MODULE GovernanceRefinement -------------------------
(***************************************************************************)
(* The enforcer implements TimelockedQuorum, for any identities, names,    *)
(* proposals and policies: statuses, lists of approvals and the wall clock *)
(* are one way to keep that promise.                                       *)
(***************************************************************************)
EXTENDS GovernanceProofs

-----------------------------------------------------------------------------
\* The refinement mapping: the items of the abstract specification.
Items ==
    [id \in DOMAIN bornAt |->
        IF id \in Live THEN ItemOf(id) ELSE [stage |-> "forgotten"]]

\* A live proposal that is executed is in the history, which has its approvers.
ExecutedIsRecorded ==
    \A id \in Live : proposals[id].status = "Executed" =>
        \E n \in 1..Len(executions) : executions[n].id = id

MappingInv == InductiveInv /\ ExecutedIsRecorded

LEMMA LiveIsBorn == MappingInv => TypeOK /\ Live \subseteq DOMAIN bornAt
BY DEF MappingInv, InductiveInv, ProposalInOrder

\* The endorsers of an executed proposal are those of its only execution.
LEMMA EndorsersAreRecorded ==
    ASSUME MappingInv, NEW n \in 1..Len(executions),
           executions[n].id \in Live
    PROVE  EndorsersOf(executions[n].id) = executions[n].approvers
<1> DEFINE id == executions[n].id
<1>1. proposals[id].status = "Executed"
  BY DEF MappingInv, InductiveInv, HistoryInOrder
<1>2. \A i \in 1..Len(executions) : executions[i].id = id => i = n
  BY DEF MappingInv, InductiveInv, ExecutedOnce
<1>3. (CHOOSE i \in 1..Len(executions) : executions[i].id = id) = n
  BY <1>2
<1>4. QED
  BY <1>1, <1>3 DEF EndorsersOf

\* The item of a proposal that a step leaves alone does not change.
LEMMA ItemStays ==
    ASSUME MappingInv, MappingInv', NEW id \in Live, id \in Live',
           proposals'[id] = proposals[id], policy' = policy, bornAt'[id] = bornAt[id],
           Len(executions) \in Nat, Len(executions') \in Nat, Len(executions') >= Len(executions),
           \A n \in 1..Len(executions) : executions'[n] = executions[n]
    PROVE  ItemOf(id)' = ItemOf(id)
<1>1. EndorsersOf(id)' = EndorsersOf(id)
  <2>1. CASE proposals[id].status = "Executed"
    <3>1. PICK n \in 1..Len(executions) : executions[n].id = id
      BY <2>1 DEF MappingInv, ExecutedIsRecorded
    <3>2. n \in 1..Len(executions') /\ executions'[n] = executions[n]
      BY <3>1
    <3>3. \A i \in 1..Len(executions') : executions'[i].id = id => i = n
      BY <3>1, <3>2 DEF MappingInv, InductiveInv, ExecutedOnce
    <3>4. (CHOOSE i \in 1..Len(executions') : executions'[i].id = id) = n
      BY <3>1, <3>2, <3>3
    <3>5. EndorsersOf(id) = executions[n].approvers
      BY <3>1, EndorsersAreRecorded
    <3>6. EndorsersOf(id)' = executions'[n].approvers
      BY <2>1, <3>4 DEF EndorsersOf
    <3>7. QED
      BY <3>2, <3>5, <3>6
  <2>2. CASE proposals[id].status # "Executed"
    BY <2>2 DEF EndorsersOf, Approvers
  <2>3. QED
    BY <2>1, <2>2
<1>2. QED
  BY <1>1 DEF ItemOf, Electorate

-----------------------------------------------------------------------------
LEMMA MappingInit == Init => MappingInv
BY InductiveInit DEF Init, NoProposals, Live, MappingInv, ExecutedIsRecorded

LEMMA MappingStep ==
    ASSUME MappingInv, InductiveInv', [Next]_vars
    PROVE  MappingInv'
<1>1. TypeOK /\ Live \subseteq DOMAIN bornAt
  BY LiveIsBorn
<1>2. ASSUME NEW who \in Identity, NEW m \in MutationName, NEW id \in ProposalId,
             ProposeMutation(who, m, id)
      PROVE  ExecutedIsRecorded'
  <2>1. executions' = executions /\ proposals'[id].status # "Executed"
    BY <1>1, <1>2, ProposeEffect DEF ProposeMutation, InitialStatus
  <2>2. QED
    BY <1>1, <1>2, <2>1, ProposeEffect DEF MappingInv, ExecutedIsRecorded
<1>3. ASSUME NEW who \in Identity, NEW id \in ProposalId, ApproveProposal(who, id)
      PROVE  ExecutedIsRecorded'
  <2>1. /\ executions' = executions
        /\ proposals'[id].status = "Executed" => proposals[id].status = "Executed"
    <3>1. executions' = executions
      BY <1>3 DEF ApproveProposal
    <3>2. proposals'[id].status = "Executed" => proposals[id].status = "Executed"
      BY <1>1, <1>3, ApproveEffect
    <3>3. QED
      BY <3>1, <3>2
  <2>2. QED
    BY <1>1, <1>3, <2>1, ApproveEffect DEF MappingInv, ExecutedIsRecorded
<1>4. ASSUME NEW id \in ProposalId, ExecuteProposal(id)
      PROVE  ExecutedIsRecorded'
  <2>1. Len(executions) \in Nat
    BY <1>1 DEF TypeOK
  <2>2. ASSUME NEW i \in Live', proposals'[i].status = "Executed"
        PROVE  \E n \in 1..Len(executions') : executions'[n].id = i
    <3>1. CASE i = id
      <4>1. /\ Len(executions) + 1 \in 1..Len(executions')
            /\ executions'[Len(executions) + 1].id = id
        BY <1>1, <1>4, <2>1, ExecuteEffect
      <4>2. QED
        BY <3>1, <4>1
    <3>2. CASE i # id
      <4>1. i \in Live /\ proposals[i].status = "Executed"
        BY <1>1, <1>4, <2>2, <3>2, ExecuteEffect
      <4>2. PICK n \in 1..Len(executions) : executions[n].id = i
        BY <4>1 DEF MappingInv, ExecutedIsRecorded
      <4>3. n \in 1..Len(executions') /\ executions'[n] = executions[n]
        BY <1>1, <1>4, <2>1, <4>2, ExecuteEffect
      <4>4. QED
        BY <4>2, <4>3
    <3>3. QED
      BY <3>1, <3>2
  <2>3. QED
    BY <2>2 DEF ExecutedIsRecorded
<1>5. CASE Restart
  BY <1>5 DEF Restart, NoProposals, Live, MappingInv, ExecutedIsRecorded
<1>6. CASE Tick \/ SetClockBack \/ SetClockForward \/ UNCHANGED vars
  BY <1>6 DEF Tick, SetClockBack, SetClockForward, vars, Live, MappingInv, ExecutedIsRecorded
<1>7. QED
  BY <1>2, <1>3, <1>4, <1>5, <1>6 DEF Next, MappingInv

-----------------------------------------------------------------------------
(***************************************************************************)
(* Every step maps to a step of the abstract specification, or to none.    *)
(***************************************************************************)
\* propose_mutation opens an item.
LEMMA ProposeMaps ==
    ASSUME MappingInv, MappingInv',
           NEW who \in Identity, NEW m \in MutationName, NEW id \in ProposalId,
           ProposeMutation(who, m, id)
    PROVE  Abstract!Open(id)
<1>1. TypeOK /\ Live \subseteq DOMAIN bornAt
  BY LiveIsBorn
<1>2. /\ id \notin DOMAIN bornAt /\ HasPrivilege(who, m) /\ m \in DOMAIN policy.mutations
      /\ DOMAIN bornAt' = DOMAIN bornAt \cup {id} /\ bornAt'[id] = Now
      /\ \A i \in DOMAIN bornAt : bornAt'[i] = bornAt[i]
      /\ UNCHANGED <<policy, wallClock, Now, executions>>
  BY DEF ProposeMutation, Now
<1>3. policy.mutations[m] \in MutationPolicy
  BY <1>1, <1>2, RuleTyped DEF TypeOK
<1>4. /\ Live' = Live \cup {id}
      /\ \A i \in Live : proposals'[i] = proposals[i]
  BY <1>1, ProposeEffect
<1>5. \A i \in DOMAIN Items : Items'[i] = Items[i]
  <2>1. Len(executions) \in Nat
    BY <1>1 DEF TypeOK
  <2>2. \A i \in Live : ItemOf(i)' = ItemOf(i)
    BY <1>1, <1>2, <1>4, <2>1, ItemStays
  <2>3. QED
    BY <1>2, <1>4, <2>2 DEF Items
<1>6. /\ ItemOf(id)'.stage = "open" /\ ItemOf(id)'.opened = Elapsed(Now)
      /\ ItemOf(id)'.quorum \in Nat /\ ItemOf(id)'.delay \in Nat
      /\ ItemOf(id)'.electorate = Electorate(policy, m)
      /\ ItemOf(id)'.endorsers = {who}
      /\ ItemOf(id)' = [stage |-> ItemOf(id)'.stage, opened |-> ItemOf(id)'.opened,
                        quorum |-> ItemOf(id)'.quorum, delay |-> ItemOf(id)'.delay,
                        electorate |-> ItemOf(id)'.electorate,
                        endorsers |-> ItemOf(id)'.endorsers]
  <2> DEFINE q == proposals'[id]
             rule == policy.mutations[m]
  <2>1. /\ q.mutation = m /\ q.proposedAt = wallClock
        /\ q.timelockUntil = wallClock + rule.timelock
        /\ q.approvals = <<who>> /\ q.requiredApprovals = rule.approvals
    BY <1>1, ProposeEffect
  <2>2. q.status # "Executed"
    BY <1>1, ProposeEffect DEF InitialStatus
  <2>3. rule.approvals \in Nat /\ rule.timelock \in Nat /\ wallClock \in Nat
    BY <1>1, <1>3 DEF MutationPolicy, TypeOK
  <2>4. q.timelockUntil - q.proposedAt = rule.timelock
    BY <2>1, <2>3
  <2>5. Approvers(q) = {who}
    BY <2>1 DEF Approvers
  <2>6. EndorsersOf(id)' = {who}
    BY <2>2, <2>5 DEF EndorsersOf, Approvers
  <2>7. Electorate(policy, proposals[id].mutation)' = Electorate(policy, m)
    BY <1>2, <2>1 DEF Electorate
  <2> HIDE DEF q
  <2>8. QED
    BY <1>2, <2>1, <2>2, <2>3, <2>4, <2>6, <2>7 DEF ItemOf, q
<1>7. Items'[id] = ItemOf(id)'
  BY <1>2, <1>4 DEF Items
<1>8. Items'[id] \in Abstract!OpenedNow /\ Items'[id].endorsers \subseteq Items'[id].electorate
  <2>1. who \in Electorate(policy, m) /\ Electorate(policy, m) \subseteq Identity
    BY <1>2, PrivilegeIsElectorate DEF Electorate
  <2>2. QED
    BY <1>1, <1>6, <1>7, <2>1, MomentTyped DEF Abstract!OpenedNow
<1>9. id \notin DOMAIN Items /\ DOMAIN Items' = DOMAIN Items \cup {id}
  BY <1>2 DEF Items
<1>10. QED
  BY <1>1, <1>2, <1>5, <1>8, <1>9, MomentTyped DEF Items, Abstract!Open

\* An approval endorses an item that is open, and no longer one that is done.
LEMMA ApproveMaps ==
    ASSUME MappingInv, MappingInv',
           NEW who \in Identity, NEW id \in ProposalId, ApproveProposal(who, id)
    PROVE  Abstract!Endorse(id, who) \/ UNCHANGED <<Elapsed(Now), Items>>
<1> DEFINE p == proposals[id]
           q == proposals'[id]
<1>1. TypeOK /\ Live \subseteq DOMAIN bornAt
  BY LiveIsBorn
<1>2. /\ UNCHANGED <<policy, wallClock, Now, bornAt, executions>>
      /\ HasPrivilege(who, p.mutation) /\ who \notin Approvers(p)
  BY DEF ApproveProposal, Now
<1>3. /\ id \in Live /\ Live' = Live
      /\ q.mutation = p.mutation /\ q.proposedAt = p.proposedAt
      /\ q.timelockUntil = p.timelockUntil /\ q.requiredApprovals = p.requiredApprovals
      /\ Approvers(q) = Approvers(p) \cup {who}
      /\ \A i \in Live \ {id} : proposals'[i] = proposals[i]
  BY <1>1, ApproveEffect
<1>4. q.status = "Executed" <=> p.status = "Executed"
  BY <1>1, ApproveEffect
<1>5. \A i \in Live \ {id} : ItemOf(i)' = ItemOf(i)
  <2>1. Len(executions) \in Nat
    BY <1>1 DEF TypeOK
  <2>2. QED
    BY <1>1, <1>2, <1>3, <2>1, ItemStays
<1>6. Electorate(policy, proposals[id].mutation)' = Electorate(policy, p.mutation)
  BY <1>2, <1>3 DEF Electorate
<1>7. CASE p.status = "Executed"
  <2>1. EndorsersOf(id)' = EndorsersOf(id)
    BY <1>2, <1>4, <1>7 DEF EndorsersOf
  <2>2. ItemOf(id)' = ItemOf(id)
    BY <1>2, <1>3, <1>4, <1>6, <2>1 DEF ItemOf
  <2>3. Items' = Items
    BY <1>2, <1>3, <1>5, <2>2 DEF Items
  <2>4. QED
    BY <1>2, <2>3
<1>8. CASE p.status # "Executed"
  <2> DEFINE item == ItemOf(id)
  <2>1. EndorsersOf(id) = Approvers(p)
    BY <1>8 DEF EndorsersOf
  <2>2. EndorsersOf(id)' = Approvers(p) \cup {who}
    BY <1>3, <1>4, <1>8 DEF EndorsersOf, Approvers
  <2>3. item.stage = "open" /\ item.electorate = Electorate(policy, p.mutation)
        /\ item.endorsers = Approvers(p)
    BY <1>8, <2>1 DEF ItemOf
  <2>4. ItemOf(id)' = [item EXCEPT !.endorsers = @ \cup {who}]
    BY <1>2, <1>3, <1>4, <1>6, <1>8, <2>1, <2>2 DEF ItemOf
  <2> HIDE DEF item
  <2>5. Items[id] = item /\ id \in DOMAIN Items
    BY <1>1, <1>3 DEF Items, item
  <2>6. Items' = [Items EXCEPT ![id] = [item EXCEPT !.endorsers = @ \cup {who}]]
    <3>1. DOMAIN Items' = DOMAIN Items /\ Items'[id] = ItemOf(id)'
      BY <1>1, <1>2, <1>3 DEF Items
    <3>2. \A i \in DOMAIN Items \ {id} : Items'[i] = Items[i]
      BY <1>2, <1>3, <1>5 DEF Items
    <3>3. Items = [i \in DOMAIN Items |-> Items[i]] /\ Items' = [i \in DOMAIN Items' |-> Items'[i]]
      BY DEF Items
    <3>4. QED
      BY <2>4, <3>1, <3>2, <3>3
  <2>7. Items' = [Items EXCEPT ![id].endorsers = @ \cup {who}]
    BY <2>5, <2>6, Zenon
  <2>8. who \in Items[id].electorate \ Items[id].endorsers
    BY <1>2, <2>3, <2>5, PrivilegeIsElectorate
  <2>9. QED
    BY <1>2, <2>3, <2>5, <2>7, <2>8 DEF Items, Abstract!Endorse
<1>9. QED
  BY <1>7, <1>8

\* An execution carries out an open item that is due.
LEMMA ExecuteMaps ==
    ASSUME MappingInv, MappingInv', NEW id \in ProposalId, ExecuteProposal(id)
    PROVE  Abstract!CarryOut(id)
<1> DEFINE p == proposals[id]
           q == proposals'[id]
           item == ItemOf(id)
           last == Len(executions) + 1
<1>1. TypeOK /\ Live \subseteq DOMAIN bornAt /\ Len(executions) \in Nat
  BY LiveIsBorn DEF TypeOK
<1>2. UNCHANGED <<policy, wallClock, Now, bornAt>> /\ CanExecute(p)
  BY DEF ExecuteProposal, Now
<1>3. /\ id \in Live /\ Live' = Live /\ p \in MutationProposal
      /\ q.status = "Executed"
      /\ q.mutation = p.mutation /\ q.proposedAt = p.proposedAt
      /\ q.timelockUntil = p.timelockUntil /\ q.requiredApprovals = p.requiredApprovals
      /\ Len(executions') = last /\ executions'[last].id = id
      /\ executions'[last].approvers = Approvers(p)
      /\ \A n \in 1..Len(executions) : executions'[n] = executions[n]
      /\ \A i \in Live \ {id} : proposals'[i] = proposals[i]
  BY <1>1, ExecuteEffect
<1>4. \A i \in Live \ {id} : ItemOf(i)' = ItemOf(i)
  BY <1>1, <1>2, <1>3, ItemStays
<1>5. EndorsersOf(id) = Approvers(p) /\ p.status # "Executed"
  BY <1>2 DEF EndorsersOf, CanExecute
<1>6. EndorsersOf(id)' = Approvers(p)
  <2>1. last \in 1..Len(executions')
    BY <1>1, <1>3
  <2>2. \A n \in 1..Len(executions') : executions'[n].id = id => n = last
    BY <1>3, <2>1 DEF MappingInv, InductiveInv, ExecutedOnce
  <2>3. (CHOOSE n \in 1..Len(executions') : executions'[n].id = id) = last
    BY <1>3, <2>1, <2>2
  <2>4. QED
    BY <1>3, <2>3 DEF EndorsersOf
<1>7. Electorate(policy, proposals[id].mutation)' = Electorate(policy, p.mutation)
  BY <1>2, <1>3 DEF Electorate
<1>8. ItemOf(id)' = [item EXCEPT !.stage = "done"]
  BY <1>2, <1>3, <1>5, <1>6, <1>7 DEF ItemOf
<1>9. /\ item.stage = "open" /\ item.opened = Elapsed(bornAt[id]) /\ item.endorsers = Approvers(p)
      /\ item.quorum = p.requiredApprovals /\ item.delay = p.timelockUntil - p.proposedAt
  BY <1>5 DEF ItemOf
<1>10. Cardinality(item.endorsers) >= item.quorum /\ Elapsed(Now) >= item.opened + item.delay
  <2>1. ProposalInOrder(id)
    BY <1>3 DEF MappingInv, InductiveInv
  <2>2. Cardinality(Approvers(p)) >= p.requiredApprovals
    BY <1>2, <1>3, <2>1, DistinctApprovers DEF CanExecute, ProposalInOrder
  <2>3. /\ wallClock >= p.timelockUntil
        /\ wallClock + Elapsed(bornAt[id]) <= Elapsed(Now) + p.proposedAt
    BY <1>2, <2>1 DEF CanExecute, ProposalInOrder
  <2>4. /\ wallClock \in Nat /\ Elapsed(Now) \in Nat /\ Elapsed(bornAt[id]) \in Nat
        /\ p.timelockUntil \in Nat /\ p.proposedAt \in Nat
    BY <1>1, <1>3, MomentTyped DEF TypeOK, MutationProposal
  <2>5. Elapsed(Now) >= Elapsed(bornAt[id]) + (p.timelockUntil - p.proposedAt)
    BY <2>3, <2>4
  <2>6. QED
    BY <1>9, <2>2, <2>5
<1> HIDE DEF item
<1>11. Items[id] = item /\ id \in DOMAIN Items
  BY <1>1, <1>3 DEF Items, item
<1>12. Items' = [Items EXCEPT ![id] = [item EXCEPT !.stage = "done"]]
  <2>1. DOMAIN Items' = DOMAIN Items /\ Items'[id] = ItemOf(id)'
    BY <1>1, <1>2, <1>3 DEF Items
  <2>2. \A i \in DOMAIN Items \ {id} : Items'[i] = Items[i]
    BY <1>2, <1>3, <1>4 DEF Items
  <2>3. Items = [i \in DOMAIN Items |-> Items[i]] /\ Items' = [i \in DOMAIN Items' |-> Items'[i]]
    BY DEF Items
  <2>4. QED
    BY <1>8, <2>1, <2>2, <2>3
<1>13. Items' = [Items EXCEPT ![id].stage = "done"]
  BY <1>11, <1>12, Zenon
<1>14. /\ id \in DOMAIN Items /\ Items[id].stage = "open"
       /\ Cardinality(Items[id].endorsers) >= Items[id].quorum
       /\ Elapsed(Now) >= Items[id].opened + Items[id].delay
       /\ Items' = [Items EXCEPT ![id].stage = "done"] /\ Now' = Now
  BY <1>2, <1>9, <1>10, <1>11, <1>13
<1>15. QED
  <2>1. Abstract!Cardinality(Items[id].endorsers) = Cardinality(Items[id].endorsers)
    BY Zenon DEF Abstract!Cardinality, Cardinality
  <2>2. Abstract!Cardinality(Items[id].endorsers) >= Items[id].quorum
    BY <1>14, <2>1
  <2>3. QED
    BY <1>14, <2>2, Zenon DEF Items, Abstract!CarryOut

\* A restart forgets every item, also those that were open.
LEMMA RestartMaps == ASSUME Restart PROVE Abstract!ForgetAll
<1>1. Live' = {} /\ bornAt' = bornAt /\ Now' = Now
  BY DEF Restart, NoProposals, Live, Now
<1>2. Items' = [i \in DOMAIN Items |-> Abstract!Forgotten]
  BY <1>1 DEF Items, Abstract!Forgotten
<1>3. QED
  BY <1>1, <1>2 DEF Items, Abstract!ForgetAll

\* Only real time and the forward steps of the wall clock show in the abstract
\* specification, as time that passes.
LEMMA ClocksMap ==
    ASSUME TypeOK, Tick \/ SetClockBack \/ SetClockForward \/ UNCHANGED vars
    PROVE  Abstract!Pass \/ UNCHANGED <<Elapsed(Now), Items>>
<1>1. UNCHANGED <<policy, proposals, bornAt, executions>>
  BY DEF Tick, SetClockBack, SetClockForward, vars
<1>2. Live' = Live /\ \A i \in Live : ItemOf(i)' = ItemOf(i)
  BY <1>1 DEF Live, ItemOf, EndorsersOf, Electorate, Approvers
<1>3. Items' = Items
  BY <1>1, <1>2 DEF Items
<1>4. \/ Elapsed(Now') = Elapsed(Now)
      \/ Elapsed(Now') \in Nat /\ Elapsed(Now') > Elapsed(Now)
  <2>1. uptime \in Nat /\ leaps \in Nat
    BY DEF TypeOK
  <2>2. Elapsed(Now) = uptime + leaps /\ Elapsed(Now') = uptime' + leaps'
    BY DEF Elapsed, Now
  <2>3. CASE SetClockForward
    <3>1. PICK step \in 1 .. MaxLeaps - leaps : leaps' = leaps + step
      BY <2>3 DEF SetClockForward
    <3>2. QED
      BY <2>1, <2>2, <2>3, <3>1, ClockAssumption DEF SetClockForward
  <2>4. CASE Tick
    BY <2>1, <2>2, <2>4 DEF Tick
  <2>5. CASE SetClockBack \/ UNCHANGED vars
    BY <2>2, <2>5 DEF SetClockBack, vars
  <2>6. QED
    BY <2>3, <2>4, <2>5
<1>5. QED
  BY <1>3, <1>4 DEF Items, Abstract!Pass

\* What the resolvers do is what a timelocked quorum may do.
THEOREM Refinement == Spec => ImplementsTimelockedQuorum
<1>1. Init => Abstract!QInit
  BY DEF Init, Abstract!QInit, Live, NoProposals, Elapsed, Now
<1>2. MappingInv /\ MappingInv' /\ [Next]_vars => [Abstract!QNext]_(Abstract!qvars)
  <2> SUFFICES ASSUME MappingInv, MappingInv', [Next]_vars
               PROVE  Abstract!QNext \/ UNCHANGED <<Elapsed(Now), Items>>
    BY DEF Abstract!qvars, Items
  <2>1. ASSUME NEW who \in Identity, NEW m \in MutationName, NEW id \in ProposalId,
               ProposeMutation(who, m, id)
        PROVE  Abstract!QNext
    BY <2>1, ProposeMaps DEF Abstract!QNext
  <2>2. ASSUME NEW who \in Identity, NEW id \in ProposalId, ApproveProposal(who, id)
        PROVE  Abstract!QNext \/ UNCHANGED <<Elapsed(Now), Items>>
    BY <2>2, ApproveMaps DEF Abstract!QNext
  <2>3. ASSUME NEW id \in ProposalId, ExecuteProposal(id)
        PROVE  Abstract!QNext
    BY <2>3, ExecuteMaps DEF Abstract!QNext
  <2>4. CASE Restart
    BY <2>4, RestartMaps DEF Abstract!QNext
  <2>5. CASE Tick \/ SetClockBack \/ SetClockForward \/ UNCHANGED vars
    BY <2>5, LiveIsBorn, ClocksMap DEF Abstract!QNext
  <2>6. QED
    BY <2>1, <2>2, <2>3, <2>4, <2>5 DEF Next
<1>3. MappingInv /\ InductiveInv' /\ [Next]_vars => MappingInv'
  BY MappingStep
<1>4. Spec => []MappingInv
  BY <1>3, MappingInit, InductiveCorrect, PTL DEF Spec
<1>5. QED
  BY <1>1, <1>2, <1>4, PTL DEF Spec, ImplementsTimelockedQuorum, Abstract!QSpec

=============================================================================
