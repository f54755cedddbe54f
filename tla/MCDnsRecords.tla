---------------------------- MODULE MCDnsRecords ----------------------------
(***************************************************************************)
(* Instances of DnsRecords.  Contents x and y are valid, z is not.         *)
(***************************************************************************)
EXTENDS DnsRecords, TLC

MCContent == {"x", "y", "z"}
MCValid == {"x", "y"}

CallSymmetry == Permutations(Call)

=============================================================================
