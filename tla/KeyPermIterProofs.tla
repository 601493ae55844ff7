-------------------------- MODULE KeyPermIterProofs --------------------------
(***************************************************************************)
(* Proofs about IntoIter: next() returns, for every list given to          *)
(* key_perm_set!, exactly the listed permissions in ascending order and    *)
(* then None.                                                              *)
(***************************************************************************)
EXTENDS KeyPermIter, AscendingProofs

-----------------------------------------------------------------------------
(* Arithmetic of the bits.  A KeyPerm code is 0 or one of 1 << 0 ..        *)
(* 1 << 10, so the bits a KeyPermSet built from KeyPerms can hold are 0..10 *)
(* and on them 1 << k grows with k.                                        *)

(* The values a KeyPerm can hold, as numbers. *)
LEMMA KeyPermsLiteral ==
  KeyPerms = {0, 1, 2, 4, 8, 16, 32, 64, 128, 256, 512, 1024}
  BY DEF KeyPerms, KeyPermCode, KeyPermNames

(* 1 << k for the bits of the defined KeyPerm codes. *)
LEMMA Shl1Table ==
  /\ Shl1(0) = 1   /\ Shl1(1) = 2   /\ Shl1(2) = 4    /\ Shl1(3) = 8
  /\ Shl1(4) = 16  /\ Shl1(5) = 32  /\ Shl1(6) = 64   /\ Shl1(7) = 128
  /\ Shl1(8) = 256 /\ Shl1(9) = 512 /\ Shl1(10) = 1024
  BY SMT DEF Shl1

(* Bits 11 to 31 stand for no KeyPerm. *)
LEMMA Shl1High ==
  ASSUME NEW k \in 11..31
  PROVE  Shl1(k) \notin KeyPerms
  <1>1. k \in {11, 12, 13, 14, 15, 16, 17, 18, 19, 20, 21,
               22, 23, 24, 25, 26, 27, 28, 29, 30, 31}
    OBVIOUS
  <1>2. CASE k = 11
    BY <1>2, KeyPermsLiteral, SMT DEF Shl1
  <1>3. CASE k = 12
    BY <1>3, KeyPermsLiteral, SMT DEF Shl1
  <1>4. CASE k = 13
    BY <1>4, KeyPermsLiteral, SMT DEF Shl1
  <1>5. CASE k = 14
    BY <1>5, KeyPermsLiteral, SMT DEF Shl1
  <1>6. CASE k = 15
    BY <1>6, KeyPermsLiteral, SMT DEF Shl1
  <1>7. CASE k = 16
    BY <1>7, KeyPermsLiteral, SMT DEF Shl1
  <1>8. CASE k = 17
    BY <1>8, KeyPermsLiteral, SMT DEF Shl1
  <1>9. CASE k = 18
    BY <1>9, KeyPermsLiteral, SMT DEF Shl1
  <1>10. CASE k = 19
    BY <1>10, KeyPermsLiteral, SMT DEF Shl1
  <1>11. CASE k = 20
    BY <1>11, KeyPermsLiteral, SMT DEF Shl1
  <1>12. CASE k = 21
    BY <1>12, KeyPermsLiteral, SMT DEF Shl1
  <1>13. CASE k = 22
    BY <1>13, KeyPermsLiteral, SMT DEF Shl1
  <1>14. CASE k = 23
    BY <1>14, KeyPermsLiteral, SMT DEF Shl1
  <1>15. CASE k = 24
    BY <1>15, KeyPermsLiteral, SMT DEF Shl1
  <1>16. CASE k = 25
    BY <1>16, KeyPermsLiteral, SMT DEF Shl1
  <1>17. CASE k = 26
    BY <1>17, KeyPermsLiteral, SMT DEF Shl1
  <1>18. CASE k = 27
    BY <1>18, KeyPermsLiteral, SMT DEF Shl1
  <1>19. CASE k = 28
    BY <1>19, KeyPermsLiteral, SMT DEF Shl1
  <1>20. CASE k = 29
    BY <1>20, KeyPermsLiteral, SMT DEF Shl1
  <1>21. CASE k = 30
    BY <1>21, KeyPermsLiteral, SMT DEF Shl1
  <1>22. CASE k = 31
    BY <1>22, KeyPermsLiteral, SMT DEF Shl1
  <1>23. QED
    BY <1>1, <1>2, <1>3, <1>4, <1>5, <1>6, <1>7, <1>8, <1>9, <1>10, <1>11,
       <1>12, <1>13, <1>14, <1>15, <1>16, <1>17, <1>18, <1>19, <1>20, <1>21,
       <1>22

(* On bits 0..10, 1 << k is strictly increasing. *)
LEMMA Shl1Mono ==
  ASSUME NEW k \in 0..10, NEW m \in 0..10
  PROVE  k < m <=> Shl1(k) < Shl1(m)
  <1>1. k \in {0, 1, 2, 3, 4, 5, 6, 7, 8, 9, 10}
        /\ m \in {0, 1, 2, 3, 4, 5, 6, 7, 8, 9, 10}
    OBVIOUS
  <1>2. QED
    BY <1>1, Shl1Table

(* KeyPerm::None is the code 0. *)
LEMMA NoneIsZero == KeyPermNone = 0
  BY DEF KeyPermNone, KeyPermCode

(* The bits of key_perm_set![ps...]: each stands for a listed permission   *)
(* other than none, and each listed permission other than none has one.    *)
LEMMA SetBits ==
  ASSUME NEW ps \in SUBSET KeyPerms
  PROVE  /\ KeyPermSetOf(ps) \subseteq 0..10
         /\ \A k \in KeyPermSetOf(ps) : Shl1(k) \in ps \ {KeyPermNone}
         /\ ps \ {KeyPermNone} = {Shl1(k) : k \in KeyPermSetOf(ps)}
  <1>1. ASSUME NEW k \in KeyPermSetOf(ps)
        PROVE  k \in 0..10 /\ Shl1(k) \in ps \ {KeyPermNone}
    <2>1. PICK p \in ps : k \in BitPos /\ Shl1(k) = p
      BY DEF KeyPermSetOf, CodeBits
    <2>2. k \in 0..10
      BY <2>1, Shl1High DEF BitPos
    <2>3. k \in {0, 1, 2, 3, 4, 5, 6, 7, 8, 9, 10}
      BY <2>2
    <2>4. Shl1(k) # 0
      BY <2>3, Shl1Table
    <2>5. QED
      BY <2>1, <2>2, <2>4, NoneIsZero
  <1>2. ASSUME NEW p \in ps \ {KeyPermNone}
        PROVE  \E k \in KeyPermSetOf(ps) : Shl1(k) = p
    <2>1. p \in {1, 2, 4, 8, 16, 32, 64, 128, 256, 512, 1024}
      BY KeyPermsLiteral, NoneIsZero
    <2>2. PICK k \in 0..10 : Shl1(k) = p
      BY <2>1, Shl1Table
    <2>3. QED
      BY <2>2 DEF KeyPermSetOf, CodeBits, BitPos
  <1>3. QED
    BY <1>1, <1>2

-----------------------------------------------------------------------------
(* The inductive invariant.  The iterator's vec is the set it was built    *)
(* from, and next() has so far returned, in strictly ascending order, the  *)
(* permissions of the bits of vec below pos; None only at pos = 32.        *)

IterInv ==
  /\ TypeOK
  /\ vec = KeyPermSetOf(perms)
  /\ StrictlyAscending(out)
  /\ Range(out) = {Shl1(k) : k \in vec \cap 0..(pos - 1)}
  /\ ended => pos = IterEnd

(* IntoIter::new over key_perm_set![...] starts in the invariant. *)
LEMMA InitIterInv == Init => IterInv
  <1> SUFFICES ASSUME Init PROVE IterInv
    OBVIOUS
  <1>1. perms \in SUBSET KeyPerms
    BY InputPermsAssumption DEF Init
  <1>2. vec \in KeyPermSets
    <2>1. KeyPermSetOf(perms) \subseteq 0..10
      BY <1>1, SetBits
    <2>2. QED
      BY <2>1 DEF Init, KeyPermSets, BitPos
  <1>3. Range(out) = {} /\ StrictlyAscending(out) /\ out \in Seq(KeyPerms)
    BY DEF Init, Range, StrictlyAscending
  <1>4. {Shl1(k) : k \in vec \cap 0..(pos - 1)} = {}
    BY DEF Init
  <1>5. TypeOK
    <2>1. perms \in InputPerms BY DEF Init
    <2>2. pos \in 0..IterEnd BY DEF Init, IterEnd
    <2>3. ended \in BOOLEAN BY DEF Init
    <2>4. QED BY <1>2, <1>3, <2>1, <2>2, <2>3 DEF TypeOK
  <1>6. Range(out) = {Shl1(k) : k \in vec \cap 0..(pos - 1)}
    BY <1>3, <1>4
  <1>7. QED
    BY <1>3, <1>5, <1>6 DEF Init, IterInv

(* Every step of next() and into_iter() keeps the invariant. *)
LEMMA StepIterInv == IterInv /\ [Next]_vars => IterInv'
  <1> SUFFICES ASSUME IterInv, [Next]_vars PROVE IterInv'
    OBVIOUS
  <1>0. /\ perms \in SUBSET KeyPerms
        /\ vec \subseteq 0..10
        /\ \A k \in vec : Shl1(k) \in perms \ {KeyPermNone}
        /\ out \in Seq(Int)
    <2>1. perms \in SUBSET KeyPerms
      BY InputPermsAssumption DEF IterInv, TypeOK
    <2>2. Seq(KeyPerms) \subseteq Seq(Int)
      BY KeyPermsLiteral, SeqMonotonic
    <2>3. QED
      BY <2>1, <2>2, SetBits DEF IterInv, TypeOK
  <1>1. CASE NextEnd
    BY <1>1 DEF NextEnd, IterInv, TypeOK, StrictlyAscending
  <1>2. CASE IntoIter
    <2>1. out' = <<>> /\ pos' = 0 /\ ended' = FALSE /\ UNCHANGED <<perms, vec>>
      BY <1>2 DEF IntoIter
    <2>2. Range(out') = {} /\ StrictlyAscending(out') /\ out' \in Seq(KeyPerms)
      BY <2>1 DEF Range, StrictlyAscending
    <2>3. {Shl1(k) : k \in vec' \cap 0..(pos' - 1)} = {}
      BY <2>1
    <2>4. TypeOK'
      <3>1. perms' \in InputPerms /\ vec' \in KeyPermSets
        BY <2>1 DEF IterInv, TypeOK
      <3>2. pos' \in 0..IterEnd
        BY <2>1 DEF IterEnd
      <3>3. ended' \in BOOLEAN
        BY <2>1
      <3>4. QED
        BY <2>2, <3>1, <3>2, <3>3 DEF TypeOK
    <2>5. QED
      BY <2>1, <2>2, <2>3, <2>4 DEF IterInv
  <1>3. CASE NextPass
    <2>1. /\ pos \in 0..31 /\ pos' = pos + 1 /\ ~ended
          /\ UNCHANGED <<perms, vec, ended>>
      BY <1>3 DEF NextPass, IterInv, TypeOK, IterEnd
    <2>2. CASE pos \in vec
      <3>1. pos \in 0..10 /\ Shl1(pos) \in KeyPerms \ {KeyPermNone}
        BY <2>2, <1>0
      <3>2. Yields(vec, pos) = Shl1(pos) /\ Probe(vec, pos) # 0
        BY <2>2, <3>1, NoneIsZero DEF Yields, Probe, KeyPermFrom, KeyPermCodes
      <3>3. out' = Append(out, Shl1(pos))
        BY <1>3, <3>2 DEF NextPass
      <3>4. /\ out' \in Seq(KeyPerms)
            /\ Len(out') = Len(out) + 1
            /\ \A i \in 1..Len(out) : out'[i] = out[i]
            /\ out'[Len(out) + 1] = Shl1(pos)
        BY <3>1, <3>3, AppendProperties DEF IterInv, TypeOK
      <3>5. Range(out') = Range(out) \cup {Shl1(pos)}
        BY <3>1, <3>3, RangeAppend DEF IterInv, TypeOK
      <3>6. \A i \in 1..Len(out) : out[i] < Shl1(pos)
        <4> SUFFICES ASSUME NEW i \in 1..Len(out) PROVE out[i] < Shl1(pos)
          OBVIOUS
        <4>1. out[i] \in Range(out)
          BY <1>0, LenProperties DEF Range
        <4>2. PICK k \in vec \cap 0..(pos - 1) : out[i] = Shl1(k)
          BY <4>1 DEF IterInv
        <4>3. k \in 0..10 /\ k < pos
          BY <4>2, <1>0, <2>1
        <4>4. QED
          BY <4>2, <4>3, <3>1, Shl1Mono
      <3>7. StrictlyAscending(out')
        <4> SUFFICES ASSUME NEW i \in 1..Len(out'), NEW j \in 1..Len(out'),
                            i < j
                     PROVE  out'[i] < out'[j]
          BY DEF StrictlyAscending
        <4>1. Len(out) \in Nat
          BY <1>0, LenProperties
        <4>2. CASE j = Len(out) + 1
          BY <4>1, <4>2, <3>4, <3>6
        <4>3. CASE j # Len(out) + 1
          <5>1. i \in 1..Len(out) /\ j \in 1..Len(out)
            BY <4>1, <4>3, <3>4
          <5>2. out[i] < out[j]
            BY <5>1 DEF IterInv, StrictlyAscending
          <5>3. QED
            BY <5>1, <5>2, <3>4
        <4>4. QED
          BY <4>2, <4>3
      <3>8. Range(out') = {Shl1(k) : k \in vec' \cap 0..(pos' - 1)}
        <4>1. vec \cap 0..pos = (vec \cap 0..(pos - 1)) \cup {pos}
          BY <2>1, <2>2
        <4>2. QED
          BY <2>1, <3>5, <4>1 DEF IterInv
      <3>9. QED
        BY <2>1, <3>4, <3>7, <3>8 DEF IterInv, TypeOK, IterEnd
    <2>3. CASE pos \notin vec
      <3>1. out' = out
        BY <1>3, <2>3 DEF NextPass, Probe
      <3>2. vec \cap 0..pos = vec \cap 0..(pos - 1)
        BY <2>1, <2>3
      <3>3. QED
        BY <2>1, <3>1, <3>2 DEF IterInv, TypeOK, IterEnd
    <2>4. QED
      BY <2>2, <2>3
  <1>4. CASE UNCHANGED vars
    BY <1>4 DEF vars, IterInv, TypeOK, StrictlyAscending
  <1>5. QED
    BY <1>1, <1>2, <1>3, <1>4 DEF Next

(* The permissions of a list other than none. *)
Listed(ps) == ps \ {KeyPermNone}

(* The invariant implies that what next() returned is a prefix of the     *)
(* listed permissions in ascending order, and all of them at None.        *)
LEMMA InvYieldsAscending == IterInv => IterYieldsAscending
  <1> SUFFICES ASSUME IterInv PROVE IterYieldsAscending
    OBVIOUS
  <1>1. perms \in SUBSET KeyPerms
    BY InputPermsAssumption DEF IterInv, TypeOK
  <1>2. /\ vec \subseteq 0..10
        /\ \A k \in vec : Shl1(k) \in Listed(perms)
        /\ Listed(perms) = {Shl1(k) : k \in vec}
    BY <1>1, SetBits DEF IterInv, Listed
  <1>3. Listed(perms) \in SUBSET Int /\ IsFiniteSet(Listed(perms))
    <2>1. perms \subseteq {0, 1, 2, 4, 8, 16, 32, 64, 128, 256, 512, 1024}
      BY <1>1, KeyPermsLiteral
    <2>2. Listed(perms) \in SUBSET Nat /\ \A p \in Listed(perms) : p <= 1024
      BY <2>1, NoneIsZero DEF Listed
    <2>3. IsFiniteSet(Listed(perms))
      <3>1. 1024 \in Nat
        OBVIOUS
      <3>2. QED
        BY <2>2, <3>1, FS_BoundedSetOfNaturals
    <2>4. QED
      BY <2>2, <2>3
  <1>4. out \in Seq(Int)
    BY KeyPermsLiteral, SeqMonotonic DEF IterInv, TypeOK
  <1>5. Range(out) \subseteq Listed(perms)
    BY <1>2 DEF IterInv
  <1>6. \A x \in Range(out), y \in Listed(perms) : y < x => y \in Range(out)
    <2> SUFFICES ASSUME NEW x \in Range(out), NEW y \in Listed(perms), y < x
                 PROVE  y \in Range(out)
      OBVIOUS
    <2>1. PICK m \in vec \cap 0..(pos - 1) : x = Shl1(m)
      BY DEF IterInv
    <2>2. PICK k \in vec : y = Shl1(k)
      BY <1>2
    <2>3. k < m
      BY <1>2, <2>1, <2>2, Shl1Mono
    <2>4. k \in vec \cap 0..(pos - 1)
      <3>1. k \in 0..10 /\ m \in 0..(pos - 1)
        BY <1>2, <2>1
      <3>2. pos \in 0..32
        BY DEF IterInv, TypeOK, IterEnd
      <3>3. QED
        BY <3>1, <3>2, <2>3
    <2>5. QED
      BY <2>2, <2>4 DEF IterInv
  <1>7. /\ Len(out) <= Cardinality(Listed(perms))
        /\ \A i \in 1..Len(out) : Ascending(Listed(perms))[i] = out[i]
        /\ Range(out) = Listed(perms) => Len(out) = Cardinality(Listed(perms))
    BY <1>3, <1>4, <1>5, <1>6, AscendingOfSorted DEF IterInv
  <1>8. /\ Len(Ascending(Listed(perms))) = Cardinality(Listed(perms))
        /\ Ascending(Listed(perms)) \in Seq(Range(Ascending(Listed(perms))))
    BY <1>3, AscendingLen
  <1>9. \A i \in 1..Len(out) :
          out[i] \in Int /\ Ascending(Listed(perms))[i] \in Int
    BY <1>4, <1>7, ElementOfSeq
  <1>10. IsPrefix(out, SortedPerms(perms))
    <2>1. Len(out) \in Nat
      BY <1>4, LenProperties
    <2>2. /\ SubSeq(out, 1, Len(out)) \in Seq(Int)
          /\ Len(SubSeq(out, 1, Len(out))) = Len(out)
          /\ \A i \in 1..Len(out) : SubSeq(out, 1, Len(out))[i] = out[i]
      <3>1. \A i \in 1..Len(out) : out[i] \in Int
        BY <1>9
      <3>2. QED
        BY <2>1, <3>1, SubSeqProperties
    <2>5. /\ SubSeq(Ascending(Listed(perms)), 1, Len(out)) \in Seq(Int)
          /\ Len(SubSeq(Ascending(Listed(perms)), 1, Len(out))) = Len(out)
          /\ \A i \in 1..Len(out) :
               SubSeq(Ascending(Listed(perms)), 1, Len(out))[i]
                 = Ascending(Listed(perms))[i]
      <3>1. \A i \in 1..Len(out) : Ascending(Listed(perms))[i] \in Int
        BY <1>9
      <3>2. QED
        BY <2>1, <3>1, SubSeqProperties
    <2>3. SubSeq(out, 1, Len(out))
            = SubSeq(Ascending(Listed(perms)), 1, Len(out))
      BY <1>7, <2>2, <2>5, SeqEqual
    <2>4. QED
      BY <1>7, <1>8, <2>3 DEF IsPrefix, SortedPerms, Listed
  <1>11. ended => out = SortedPerms(perms)
    <2> SUFFICES ASSUME ended PROVE out = Ascending(Listed(perms))
      BY DEF SortedPerms, Listed
    <2>1. vec \cap 0..(pos - 1) = vec
      BY <1>2 DEF IterInv, IterEnd
    <2>2. Range(out) = Listed(perms)
      BY <1>2, <2>1 DEF IterInv
    <2>3. Len(out) = Len(Ascending(Listed(perms)))
      BY <1>7, <1>8, <2>2
    <2>4. Range(Ascending(Listed(perms))) \subseteq Int
      BY <1>8, <1>9, <2>3, LenProperties DEF Range
    <2>5. Ascending(Listed(perms)) \in Seq(Int)
      BY <1>8, <2>4, SeqMonotonic
    <2>6. QED
      BY <1>4, <1>7, <2>3, <2>5, SeqEqual
  <1>12. QED
    BY <1>10, <1>11 DEF IterYieldsAscending

-----------------------------------------------------------------------------
(* Every state of an iteration is well typed: pos stays within 0..32 and   *)
(* next() only ever returns KeyPerm values, for every set of lists given    *)
(* to key_perm_set!.                                                       *)
THEOREM IterTypeCorrect == Spec => []TypeOK
  <1>1. Spec => []IterInv
    BY InitIterInv, StepIterInv, PTL DEF Spec
  <1>2. QED
    BY <1>1, PTL DEF IterInv

(* IntoIter::next returns the permissions a set was built from with        *)
(* key_perm_set!, each once, in strictly ascending bit order, and then     *)
(* None, for every list of KeyPerm values and after every into_iter():     *)
(* IterYieldsAscending holds in every state.                               *)
THEOREM IterCorrect == Spec => []IterYieldsAscending
  <1>1. Spec => []IterInv
    BY InitIterInv, StepIterInv, PTL DEF Spec
  <1>2. QED
    BY <1>1, InvYieldsAscending, PTL
====
