------------------------------ MODULE Selection ------------------------------
(***************************************************************************)
(* Keeping some elements of a sequence, in their order: Vec::retain, and   *)
(* the WHERE of a query.                                                   *)
(***************************************************************************)
EXTENDS Naturals, Sequences

\* The elements of s that are in S.
Select(s, S) ==
    LET kept[n \in 0..Len(s)] ==
          IF n = 0 THEN <<>>
          ELSE IF s[n] \in S THEN Append(kept[n - 1], s[n])
          ELSE kept[n - 1]
    IN  kept[Len(s)]

=============================================================================
