---------------------------- MODULE MCConsentApi ----------------------------
(***************************************************************************)
(* Instances of ConsentApi.                                                *)
(***************************************************************************)
EXTENDS ConsentApi, TLC

Interchangeable == Permutations(RecordId) \cup Permutations(Call)

=============================================================================
