\* The enforcer with two policies, restarts and a clock that is set back and forward.
CONSTANTS
    Identity <- MCIdentity
    MutationName <- MCMutationName
    ProposalId = {p1, p2}
    Policies <- MCPolicies
    MaxUptime = 2
    MaxLeaps = 1
SPECIFICATION FairSpec
INVARIANTS
    TypeOK
    QuorumAtExecution
    TimelockServed
    ExecutedOnce
    StatusFollowsApprovals
    PolicyMinimumKept
PROPERTIES
    ImplementsTimelockedQuorum
    ProposalsOnlyAdvance
    EnoughApprovalsLeadToExecution
