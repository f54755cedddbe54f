---------------------------- MODULE MCGovernance ----------------------------
(***************************************************************************)
(* Instances of Governance.  The policy has the shape of policy.ncl, with  *)
(* one tick for an hour of timelock: rotate_keys asks for two approvals    *)
(* and a timelock, mutate_dns for one approval and a shorter timelock.     *)
(* note_only stands for a mutation without a timelock.  Two roles overlap, *)
(* and bob has a privilege for a mutation that the stricter policy does    *)
(* not govern.                                                             *)
(***************************************************************************)
EXTENDS Governance

MCIdentity == {"alice", "jonathan", "bob"}

MCMutationName == {"rotate_keys", "mutate_dns", "note_only"}

Maintainer ==
    [members |-> {"alice", "jonathan"},
     privileges |-> {"rotate_keys", "mutate_dns", "note_only"}]

Contributor(members) == [members |-> members, privileges |-> {"mutate_dns"}]

\* The policy in force and a later, more lenient revision of it.
StrictPolicy ==
    [mutations |-> [rotate_keys |-> [approvals |-> 2, timelock |-> 2],
                    note_only |-> [approvals |-> 2, timelock |-> 0]],
     roles |-> {Maintainer, Contributor({"alice", "bob"})}]

LenientPolicy ==
    [mutations |-> [rotate_keys |-> [approvals |-> 1, timelock |-> 1],
                    mutate_dns |-> [approvals |-> 1, timelock |-> 0]],
     roles |-> {Maintainer}]

MCPolicies == {StrictPolicy, LenientPolicy}

=============================================================================
