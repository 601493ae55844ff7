---------------------------- MODULE AscendingProofs ----------------------------
(***************************************************************************)
(* Facts about Ascending, the reference order of KeyPermSet: a strictly     *)
(* ascending sequence whose elements form a down-closed part of a finite    *)
(* set S of integers is a prefix of Ascending(S), all of it when it covers  *)
(* S.  Both the iterator and the grant loop of check_grant_permission are   *)
(* checked against it.                                                     *)
(***************************************************************************)
EXTENDS KeyPermSet, FiniteSetTheorems, SequenceTheorems, TLAPS

(* Each element of s is larger than the ones before it. *)
StrictlyAscending(s) == \A i, j \in 1..Len(s) : i < j => s[i] < s[j]

(* The elements of S below x, and the first n elements of s. *)
Below(S, x) == {y \in S : y < x}
Firsts(s, n) == {s[j] : j \in 1..n}

(* The first n elements of a strictly ascending sequence are n values. *)
LEMMA CountPrefix ==
  ASSUME NEW s \in Seq(Int), StrictlyAscending(s), NEW n \in 0..Len(s)
  PROVE  /\ IsFiniteSet(Firsts(s, n))
         /\ Cardinality(Firsts(s, n)) = n
  <1> DEFINE f == [j \in 1..n |-> s[j]]
  <1>1. f \in Bijection(1..n, Firsts(s, n))
    BY DEF StrictlyAscending, Bijection, Injection, Surjection, IsInjective,
           Firsts
  <1>2. IsFiniteSet(1..n) /\ Cardinality(1..n) = n
    BY FS_Interval
  <1>3. QED
    BY <1>1, <1>2, FS_Bijection DEF ExistsBijection

(* A strictly ascending sequence over a down-closed part of S agrees with *)
(* Ascending(S) on its length, and has all of it when it covers S.       *)
LEMMA AscendingOfSorted ==
  ASSUME NEW S \in SUBSET Int, IsFiniteSet(S),
         NEW s \in Seq(Int), StrictlyAscending(s),
         Range(s) \subseteq S,
         \A x \in Range(s), y \in S : y < x => y \in Range(s)
  PROVE  /\ Len(s) <= Cardinality(S)
         /\ \A i \in 1..Len(s) : Ascending(S)[i] = s[i]
         /\ Range(s) = S => Len(s) = Cardinality(S)
  <1>1. Range(s) = Firsts(s, Len(s)) /\ Len(s) \in Nat
    BY LenProperties DEF Range, Firsts
  <1>2. Cardinality(Range(s)) = Len(s)
    BY <1>1, CountPrefix
  <1>3. Len(s) <= Cardinality(S)
    BY <1>2, FS_Subset
  <1>4. ASSUME NEW i \in 1..Len(s)
        PROVE  Cardinality(Below(S, s[i])) = i - 1
    <2>1. ASSUME NEW y \in Below(S, s[i]) PROVE \E j \in 1..(i - 1) : y = s[j]
      <3>1. y \in Range(s)
        BY <1>1 DEF Below, Firsts
      <3>2. PICK j \in 1..Len(s) : s[j] = y
        BY <3>1, <1>1 DEF Firsts
      <3>3. j < i
        BY <3>2 DEF StrictlyAscending, Below
      <3>4. QED
        BY <3>2, <3>3
    <2>2. ASSUME NEW j \in 1..(i - 1) PROVE s[j] \in Below(S, s[i])
      BY <1>1 DEF StrictlyAscending, Below, Firsts
    <2>3. Below(S, s[i]) = Firsts(s, i - 1)
      BY <2>1, <2>2 DEF Firsts
    <2>4. Cardinality(Firsts(s, i - 1)) = i - 1
      BY CountPrefix
    <2>5. QED
      BY <2>3, <2>4
  <1>5. ASSUME NEW x \in S, NEW i \in 1..Len(s),
               Cardinality(Below(S, x)) = i - 1
        PROVE  x = s[i]
    <2>1. CASE x \in Range(s)
      <3>1. PICK m \in 1..Len(s) : s[m] = x
        BY <2>1, <1>1 DEF Firsts
      <3>2. QED
        BY <3>1, <1>4, <1>5
    <2>2. CASE x \notin Range(s)
      <3>1. Range(s) \subseteq Below(S, x)
        <4> SUFFICES ASSUME NEW z \in Range(s) PROVE z < x
          BY DEF Below
        <4>1. z \in S /\ z # x
          BY <2>2
        <4>2. ~(x < z)
          BY <2>2
        <4>3. QED
          BY <4>1, <4>2
      <3>2. Len(s) <= Cardinality(Below(S, x))
        <4>1. IsFiniteSet(Below(S, x)) /\ Below(S, x) \subseteq S
          BY FS_Subset DEF Below
        <4>2. QED
          BY <3>1, <4>1, <1>2, FS_Subset
      <3>3. QED
        BY <3>2, <1>5
    <2>3. QED
      BY <2>1, <2>2
  <1>6. ASSUME NEW i \in 1..Len(s)
        PROVE  Ascending(S)[i] = s[i]
    <2>1. Ascending(S)[i] =
            CHOOSE x \in S : Cardinality({y \in S : y < x}) = i - 1
      <3>1. i \in 1..Cardinality(S)
        BY <1>1, <1>3, FS_CardinalityType
      <3>2. QED
        BY <3>1, Zenon DEF Ascending
    <2>2. \E x \in S : Cardinality({y \in S : y < x}) = i - 1
      BY <1>1, <1>4 DEF Firsts, Below
    <2>3. LET c == CHOOSE x \in S : Cardinality({y \in S : y < x}) = i - 1
          IN  c \in S /\ Cardinality(Below(S, c)) = i - 1
      BY <2>2 DEF Below
    <2>4. QED
      BY <2>1, <2>3, <1>5
  <1>7. QED
    BY <1>2, <1>3, <1>6

(* Ascending(S) is a sequence of Cardinality(S) elements. *)
LEMMA AscendingLen ==
  ASSUME NEW S, IsFiniteSet(S)
  PROVE  /\ Ascending(S) \in Seq(Range(Ascending(S)))
         /\ Len(Ascending(S)) = Cardinality(S)
  <1>1. Cardinality(S) \in Nat
    BY FS_CardinalityType
  <1>2. Ascending(S) \in [1..Cardinality(S) -> Range(Ascending(S))]
    BY DEF Ascending, Range
  <1>3. Ascending(S) \in Seq(Range(Ascending(S)))
    BY <1>1, <1>2, SeqDef
  <1>4. QED
    BY <1>1, <1>3, LenProperties DEF Ascending

(* Appending e adds e to the values of a sequence. *)
LEMMA RangeAppend ==
  ASSUME NEW S, NEW s \in Seq(S), NEW e \in S
  PROVE  Range(Append(s, e)) = Range(s) \cup {e}
  BY AppendProperties, LenProperties DEF Range
=============================================================================
