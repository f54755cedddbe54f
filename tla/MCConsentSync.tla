--------------------------- MODULE MCConsentSync ---------------------------
(***************************************************************************)
(* Instances of ConsentSync.                                               *)
(***************************************************************************)
EXTENDS ConsentSync, TLC

Interchangeable ==
    Permutations(RecordId) \cup Permutations(Call) \cup Permutations(Session)
        \cup Permutations(User)

=============================================================================
