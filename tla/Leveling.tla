------------------------------ MODULE Leveling ------------------------------
(***************************************************************************)
(* The levels of CivicConnect users: the pure functions of                 *)
(* backend/ada-core/src/civicconnect-leveling.adb and the tables of its    *)
(* .ads.                                                                   *)
(***************************************************************************)
EXTENDS Naturals

LevelNumber == 0..5

Thresholds ==
    [L \in LevelNumber |->
        CASE L = 0 -> 0 [] L = 1 -> 100 [] L = 2 -> 500
          [] L = 3 -> 1500 [] L = 4 -> 4000 [] L = 5 -> 10000]

Activity == [attended : Nat, organized : Nat, endorsements : Nat, mentees : Nat]

Requirement(attended, organized, endorsements, mentees) ==
    [attended |-> attended, organized |-> organized,
     endorsements |-> endorsements, mentees |-> mentees]

\* Variant: the mentees of levels 4 and 5 are exchanged.
Requirements_Exchanged ==
    [L \in LevelNumber |->
        CASE L = 0 -> Requirement(0, 0, 0, 0)
          [] L = 1 -> Requirement(1, 0, 0, 0)
          [] L = 2 -> Requirement(3, 0, 1, 0)
          [] L = 3 -> Requirement(5, 2, 3, 0)
          [] L = 4 -> Requirement(10, 5, 5, 5)
          [] L = 5 -> Requirement(20, 10, 10, 3)]

Requirements ==
    [L \in LevelNumber |->
        CASE L = 0 -> Requirement(0, 0, 0, 0)
          [] L = 1 -> Requirement(1, 0, 0, 0)
          [] L = 2 -> Requirement(3, 0, 1, 0)
          [] L = 3 -> Requirement(5, 2, 3, 0)
          [] L = 4 -> Requirement(10, 5, 5, 3)
          [] L = 5 -> Requirement(20, 10, 10, 5)]

AtLeast(a, b) ==
    /\ a.attended >= b.attended /\ a.organized >= b.organized
    /\ a.endorsements >= b.endorsements /\ a.mentees >= b.mentees

MeetsRequirements(L, a) == AtLeast(a, Requirements[L])

Highest(levels) == CHOOSE L \in levels : \A k \in levels : k <= L

\* Calculate_Level: down from the highest level that the points reach to the
\* first whose requirements are met, or to 0.
CalculateLevel(xp, a) ==
    LET potential == Highest({L \in LevelNumber : xp >= Thresholds[L]})
    IN  Highest({0} \cup {L \in 1..potential : MeetsRequirements(L, a)})

\* Get_Features: what the requirements of the levels depend on.
CanCreateEvents(L) == L >= 2
CanMentor(L) == L >= 3

=============================================================================
