--------------------------- MODULE SelectionProofs ---------------------------
(***************************************************************************)
(* What Select returns, for sequences of any length.  The proofs are by    *)
(* induction; a property that holds for some numbers or sequences is       *)
(* written as the set of those for which it holds.                         *)
(***************************************************************************)
EXTENDS Selection, SequenceTheorems, WellFoundedInduction, TLAPS

-----------------------------------------------------------------------------
(***************************************************************************)
(* Induction.                                                              *)
(***************************************************************************)
\* A set of numbers has a least one.
LEMMA LeastNumber ==
    ASSUME NEW T \in SUBSET Nat, T # {}
    PROVE  \E n \in T : \A m \in T : n <= m
  <1>1. \E n \in T : \A m \in T : ~ (<<m, n>> \in OpToRel(<, Nat))
    BY NatLessThanWellFounded, WFMin, Zenon
  <1>2. PICK n \in T : \A m \in T : ~ (<<m, n>> \in OpToRel(<, Nat))
    BY <1>1, Zenon
  <1>3. ASSUME NEW m \in T PROVE ~ (m < n)
    <2>1. <<m, n>> \in Nat \X Nat
      OBVIOUS
    <2>2. <<m, n>>[1] = m /\ <<m, n>>[2] = n
      OBVIOUS
    <2>. QED BY <1>2, <2>1, <2>2, Zenon DEF OpToRel
  <1>. QED BY <1>3

\* A set with zero and the successors of its members has all numbers.
LEMMA NumbersByInduction ==
    ASSUME NEW T, 0 \in T, \A n \in Nat : n \in T => n + 1 \in T
    PROVE  Nat \subseteq T
  <1>. SUFFICES ASSUME Nat \ T # {} PROVE FALSE
    OBVIOUS
  <1>1. PICK n \in Nat \ T : \A m \in Nat \ T : n <= m
    BY LeastNumber
  <1>2. n # 0 /\ n - 1 \in Nat /\ n - 1 \notin Nat \ T
    BY <1>1
  <1>. QED BY <1>1, <1>2

\* A set with the empty sequence and what is appended to its members has all
\* sequences.
LEMMA SequencesByInduction ==
    ASSUME NEW T, NEW U, <<>> \in U,
           \A s \in Seq(T), x \in T : s \in U => Append(s, x) \in U
    PROVE  Seq(T) \subseteq U
  <1>. DEFINE Lengths == {n \in Nat : \A s \in Seq(T) : Len(s) = n => s \in U}
  <1>1. 0 \in Lengths
    <2>1. \A s \in Seq(T) : Len(s) = 0 => s = <<>>
      OBVIOUS
    <2>. QED BY <2>1
  <1>2. ASSUME NEW n \in Nat, n \in Lengths PROVE n + 1 \in Lengths
    <2>1. ASSUME NEW s \in Seq(T), Len(s) = n + 1 PROVE s \in U
      <3>. DEFINE front == SubSeq(s, 1, n)
      <3>1. front \in Seq(T) /\ Len(front) = n /\ s[n + 1] \in T
        BY <2>1
      <3>2. s = Append(front, s[n + 1])
        BY <2>1
      <3>3. front \in U
        BY <1>2, <3>1
      <3>. HIDE DEF front
      <3>. QED BY <3>1, <3>2, <3>3
    <2>. QED BY <2>1
  <1>. HIDE DEF Lengths
  <1>3. Nat \subseteq Lengths
    BY <1>1, <1>2, NumbersByInduction
  <1>. QED BY <1>3 DEF Lengths

\* A sequence of some elements is one of more.
LEMMA WiderSequence ==
    ASSUME NEW S, NEW T, S \subseteq T, NEW s \in Seq(S)
    PROVE  s \in Seq(T)
  OBVIOUS

-----------------------------------------------------------------------------
(***************************************************************************)
(* Select is what its recursive definition says.                           *)
(***************************************************************************)
\* f is what is kept of the first elements of s, up to the m-th.
Kept(f, s, S, m) ==
    f = [n \in 0..m |->
           IF n = 0 THEN <<>>
           ELSE IF s[n] \in S THEN Append(f[n - 1], s[n])
           ELSE f[n - 1]]

\* The recursive definition defines a function.
LEMMA KeptExists ==
    ASSUME NEW s, NEW S, NEW m \in Nat
    PROVE  \E f : Kept(f, s, S, m)
  <1>. DEFINE T == {n \in Nat : \E f : Kept(f, s, S, n)}
  <1>1. 0 \in T
    <2>. DEFINE f == [n \in 0..0 |-> <<>>]
    <2>1. Kept(f, s, S, 0)
      BY DEF Kept
    <2>. QED BY <2>1
  <1>2. ASSUME NEW n \in Nat, n \in T PROVE n + 1 \in T
    <2>1. PICK f : Kept(f, s, S, n)
      BY <1>2
    <2>. DEFINE x == IF s[n + 1] \in S THEN Append(f[n], s[n + 1]) ELSE f[n]
                g == [i \in 0..n + 1 |-> IF i <= n THEN f[i] ELSE x]
    <2>2. \A i \in 0..n : g[i] = f[i]
      OBVIOUS
    <2>3. g[n + 1] = x
      OBVIOUS
    <2>4. \A i \in 0..n : f[i] = IF i = 0 THEN <<>>
                                 ELSE IF s[i] \in S THEN Append(f[i - 1], s[i])
                                 ELSE f[i - 1]
      BY <2>1 DEF Kept
    <2>5. \A i \in 0..n + 1 : g[i] = IF i = 0 THEN <<>>
                                     ELSE IF s[i] \in S THEN Append(g[i - 1], s[i])
                                     ELSE g[i - 1]
      <3>. SUFFICES ASSUME NEW i \in 0..n + 1
                    PROVE  g[i] = IF i = 0 THEN <<>>
                                  ELSE IF s[i] \in S THEN Append(g[i - 1], s[i])
                                  ELSE g[i - 1]
        OBVIOUS
      <3>1. CASE i = n + 1
        <4>1. i # 0 /\ i - 1 = n /\ n \in 0..n
          BY <3>1
        <4>2. g[n] = f[n]
          BY <2>2, <4>1
        <4>. HIDE DEF g
        <4>. QED BY <2>3, <3>1, <4>1, <4>2
      <3>2. CASE i # n + 1
        <4>1. i \in 0..n /\ (i # 0 => i - 1 \in 0..n)
          BY <3>2
        <4>. HIDE DEF g
        <4>. QED BY <2>2, <2>4, <4>1
      <3>. QED BY <3>1, <3>2
    <2>6. g = [i \in 0..n + 1 |-> g[i]]
      OBVIOUS
    <2>7. Kept(g, s, S, n + 1)
      <3>. HIDE DEF g
      <3>. QED BY <2>5, <2>6 DEF Kept
    <2>. QED BY <2>7
  <1>. HIDE DEF T
  <1>3. Nat \subseteq T
    BY <1>1, <1>2, NumbersByInduction
  <1>. QED BY <1>3 DEF T

\* Select takes what is kept of the whole sequence.
LEMMA SelectKept ==
    ASSUME NEW T, NEW s \in Seq(T), NEW S
    PROVE  \E f : Kept(f, s, S, Len(s)) /\ Select(s, S) = f[Len(s)]
  <1>0. Len(s) \in Nat
    OBVIOUS
  <1>1. \E f : Kept(f, s, S, Len(s))
    BY <1>0, KeptExists, Zenon
  <1>. DEFINE f == CHOOSE f : Kept(f, s, S, Len(s))
  <1>2. Kept(f, s, S, Len(s))
    BY <1>1, Zenon
  <1>3. Select(s, S) = f[Len(s)]
    BY Zenon DEF Select, Kept
  <1>. QED BY <1>2, <1>3

\* What is kept of the first elements depends on them alone.
LEMMA KeptAgree ==
    ASSUME NEW s, NEW t, NEW S, NEW m \in Nat, NEW n \in Nat, NEW f, NEW g,
           Kept(f, s, S, m), Kept(g, t, S, n), m <= n,
           \A i \in 1..m : s[i] = t[i]
    PROVE  f[m] = g[m]
  <1>. DEFINE T == {i \in Nat : i <= m => f[i] = g[i]}
  <1>1. 0 \in T
    BY DEF Kept
  <1>2. ASSUME NEW i \in Nat, i \in T PROVE i + 1 \in T
    <2>. SUFFICES ASSUME i + 1 <= m PROVE f[i + 1] = g[i + 1]
      OBVIOUS
    <2>1. i + 1 \in 0..m /\ i + 1 \in 0..n /\ i + 1 # 0 /\ (i + 1) - 1 = i /\ i + 1 \in 1..m
      OBVIOUS
    <2>2. f[i] = g[i] /\ s[i + 1] = t[i + 1]
      BY <1>2, <2>1
    <2>3. f[i + 1] = IF s[i + 1] \in S THEN Append(f[i], s[i + 1]) ELSE f[i]
      BY <2>1 DEF Kept
    <2>4. g[i + 1] = IF t[i + 1] \in S THEN Append(g[i], t[i + 1]) ELSE g[i]
      BY <2>1 DEF Kept
    <2>. QED BY <2>2, <2>3, <2>4
  <1>. HIDE DEF T
  <1>3. Nat \subseteq T
    BY <1>1, <1>2, NumbersByInduction
  <1>. QED BY <1>3 DEF T

\* Nothing is kept of nothing.
LEMMA SelectEmpty == ASSUME NEW S PROVE Select(<<>>, S) = <<>>
  <1>1. <<>> \in Seq({}) /\ Len(<<>>) = 0
    OBVIOUS
  <1>2. PICK f : Kept(f, <<>>, S, 0) /\ Select(<<>>, S) = f[0]
    BY <1>1, SelectKept
  <1>. QED BY <1>2 DEF Kept

\* One element more is kept, or is not.
LEMMA SelectAppend ==
    ASSUME NEW T, NEW s \in Seq(T), NEW x \in T, NEW S
    PROVE  Select(Append(s, x), S)
             = IF x \in S THEN Append(Select(s, S), x) ELSE Select(s, S)
  <1>. DEFINE t == Append(s, x)
              m == Len(s)
  <1>1. t \in Seq(T) /\ Len(t) = m + 1 /\ m \in Nat /\ t[m + 1] = x
        /\ \A i \in 1..m : s[i] = t[i]
    OBVIOUS
  <1>. HIDE DEF t, m
  <1>2. PICK f : Kept(f, s, S, m) /\ Select(s, S) = f[m]
    BY SelectKept DEF m
  <1>3. PICK g : Kept(g, t, S, m + 1) /\ Select(t, S) = g[m + 1]
    BY <1>1, SelectKept
  <1>4. f[m] = g[m]
    BY <1>1, <1>2, <1>3, KeptAgree
  <1>5. m + 1 \in 0..m + 1 /\ m + 1 # 0 /\ (m + 1) - 1 = m
    BY <1>1
  <1>6. g[m + 1] = IF t[m + 1] \in S THEN Append(g[m], t[m + 1]) ELSE g[m]
    BY <1>3, <1>5 DEF Kept
  <1>7. Select(t, S) = IF x \in S THEN Append(Select(s, S), x) ELSE Select(s, S)
    BY <1>1, <1>2, <1>3, <1>4, <1>6
  <1>. QED BY <1>7 DEF t

-----------------------------------------------------------------------------
(***************************************************************************)
(* What a selection has to do with its sequence.                           *)
(***************************************************************************)
\* What is selected are elements of both.
LEMMA SelectType ==
    ASSUME NEW T, NEW S
    PROVE  \A s \in Seq(T) : Select(s, S) \in Seq(T \cap S) /\ Select(s, S) \in Seq(T)
  <1>. DEFINE U == {s \in Seq(T) : Select(s, S) \in Seq(T \cap S)}
  <1>1. <<>> \in U
    <2>1. <<>> \in Seq(T) /\ <<>> \in Seq(T \cap S)
      OBVIOUS
    <2>. QED BY <2>1, SelectEmpty
  <1>2. ASSUME NEW s \in Seq(T), NEW x \in T, s \in U PROVE Append(s, x) \in U
    <2>1. Select(Append(s, x), S)
            = IF x \in S THEN Append(Select(s, S), x) ELSE Select(s, S)
      BY SelectAppend
    <2>2. Append(s, x) \in Seq(T)
      OBVIOUS
    <2>. QED BY <1>2, <2>1, <2>2
  <1>. HIDE DEF U
  <1>3. Seq(T) \subseteq U
    BY <1>1, <1>2, SequencesByInduction
  <1>4. \A s \in Seq(T \cap S) : s \in Seq(T)
    OBVIOUS
  <1>. QED BY <1>3, <1>4 DEF U

\* The whole sequence, when all its elements are asked for.
LEMMA SelectAll ==
    ASSUME NEW T, NEW S, T \subseteq S
    PROVE  \A s \in Seq(T) : Select(s, S) = s
  <1>. DEFINE U == {s \in Seq(T) : Select(s, S) = s}
  <1>1. <<>> \in U
    BY SelectEmpty
  <1>2. ASSUME NEW s \in Seq(T), NEW x \in T, s \in U PROVE Append(s, x) \in U
    <2>1. Select(Append(s, x), S)
            = IF x \in S THEN Append(Select(s, S), x) ELSE Select(s, S)
      BY SelectAppend
    <2>2. Append(s, x) \in Seq(T)
      OBVIOUS
    <2>. QED BY <1>2, <2>1, <2>2
  <1>. HIDE DEF U
  <1>3. Seq(T) \subseteq U
    BY <1>1, <1>2, SequencesByInduction
  <1>. QED BY <1>3 DEF U

\* Nothing, when none of them is.
LEMMA SelectNone ==
    ASSUME NEW T, NEW S, T \cap S = {}
    PROVE  \A s \in Seq(T) : Select(s, S) = <<>>
  <1>1. \A s \in Seq(T) : Select(s, S) \in Seq({})
    BY SelectType
  <1>2. \A s \in Seq({}) : s = <<>>
    OBVIOUS
  <1>. QED BY <1>1, <1>2

\* A selection of a selection.
LEMMA SelectTwice ==
    ASSUME NEW T, NEW S, NEW R
    PROVE  \A s \in Seq(T) : Select(Select(s, S), R) = Select(s, S \cap R)
  <1>. DEFINE U == {s \in Seq(T) : Select(Select(s, S), R) = Select(s, S \cap R)}
  <1>1. <<>> \in U
    BY SelectEmpty
  <1>2. ASSUME NEW s \in Seq(T), NEW x \in T, s \in U PROVE Append(s, x) \in U
    <2>1. Select(Append(s, x), S)
            = IF x \in S THEN Append(Select(s, S), x) ELSE Select(s, S)
      BY SelectAppend
    <2>2. Select(Append(s, x), S \cap R)
            = IF x \in S \cap R THEN Append(Select(s, S \cap R), x) ELSE Select(s, S \cap R)
      BY SelectAppend
    <2>3. Select(s, S) \in Seq(T)
      BY SelectType
    <2>4. Select(Append(Select(s, S), x), R)
            = IF x \in R THEN Append(Select(Select(s, S), R), x) ELSE Select(Select(s, S), R)
      BY <2>3, SelectAppend
    <2>5. Append(s, x) \in Seq(T)
      OBVIOUS
    <2>6. Select(Select(s, S), R) = Select(s, S \cap R)
      BY <1>2
    <2>7. Select(Select(Append(s, x), S), R) = Select(Append(s, x), S \cap R)
      <3>1. CASE x \in S
        <4>1. x \in S \cap R <=> x \in R
          BY <3>1
        <4>. QED BY <2>1, <2>2, <2>4, <2>6, <3>1, <4>1, Zenon
      <3>2. CASE x \notin S
        BY <2>1, <2>2, <2>6, <3>2
      <3>. QED BY <3>1, <3>2
    <2>. QED BY <2>5, <2>7
  <1>. HIDE DEF U
  <1>3. Seq(T) \subseteq U
    BY <1>1, <1>2, SequencesByInduction
  <1>. QED BY <1>3 DEF U

\* What is no element makes no difference.
LEMMA SelectSame ==
    ASSUME NEW T, NEW S, NEW R, S \cap T = R \cap T
    PROVE  \A s \in Seq(T) : Select(s, S) = Select(s, R)
  <1>1. ASSUME NEW s \in Seq(T), NEW Q PROVE Select(s, Q \cap T) = Select(s, Q)
    <2>1. Select(s, T) = s
      BY SelectAll
    <2>2. Select(Select(s, T), Q) = Select(s, T \cap Q)
      BY SelectTwice
    <2>3. T \cap Q = Q \cap T
      OBVIOUS
    <2>. QED BY <2>1, <2>2, <2>3
  <1>. QED BY <1>1

\* Fewer elements make a shorter selection.
LEMMA SelectShorter ==
    ASSUME NEW T, NEW S, NEW R, S \subseteq R
    PROVE  \A s \in Seq(T) : Len(Select(s, S)) <= Len(Select(s, R))
  <1>. DEFINE U == {s \in Seq(T) : Len(Select(s, S)) <= Len(Select(s, R))}
  <1>1. <<>> \in U
    BY SelectEmpty
  <1>2. ASSUME NEW s \in Seq(T), NEW x \in T, s \in U PROVE Append(s, x) \in U
    <2>1. Select(Append(s, x), S)
            = IF x \in S THEN Append(Select(s, S), x) ELSE Select(s, S)
      BY SelectAppend
    <2>2. Select(Append(s, x), R)
            = IF x \in R THEN Append(Select(s, R), x) ELSE Select(s, R)
      BY SelectAppend
    <2>3. Select(s, S) \in Seq(T) /\ Select(s, R) \in Seq(T)
      BY SelectType
    <2>4. Append(s, x) \in Seq(T)
      OBVIOUS
    <2>5. Len(Select(s, S)) <= Len(Select(s, R))
      BY <1>2
    <2>6. Len(Select(Append(s, x), S)) <= Len(Select(Append(s, x), R))
      BY <2>1, <2>2, <2>3, <2>5
    <2>. QED BY <2>4, <2>6
  <1>. HIDE DEF U
  <1>3. Seq(T) \subseteq U
    BY <1>1, <1>2, SequencesByInduction
  <1>. QED BY <1>3 DEF U

=============================================================================
