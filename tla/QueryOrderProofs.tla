-------------------------- MODULE QueryOrderProofs --------------------------
(***************************************************************************)
(* Proof that the three functions of permission.rs query the backend in    *)
(* the order the spec fixes (QueryOrder): keystore2 permission; manage_blob *)
(* before perm for Domain::Blob; grant, then the permissions of access_vec *)
(* by ascending bit, and nothing after the first answer that is not allow. *)
(***************************************************************************)
EXTENDS PermissionCheckProofs, AscendingProofs

(* The names the grant loop queries for the bits in sequence bs. *)
BitNames(bs) == [i \in 1..Len(bs) |-> KeyPermToSelinux(BitPerm(bs[i]))]

(* The grant loop so far: the log is "grant" followed by the permissions   *)
(* of the bits of access_vec below pos, in ascending order.               *)
GrantLogShape ==
  \E bs \in Seq(BitPos) :
     /\ StrictlyAscending(bs)
     /\ Range(bs) = req.av \cap 0..(pos - 1)
     /\ QueryNames(log) = <<"grant">> \o BitNames(bs)

(* The access vector of the current call holds grant. *)
GrantHeld == Includes(req.av, FromKeyPerm(KeyPerm_grant))

(* The inductive invariant behind QueryOrder: pos is 0 outside the loop,   *)
(* nothing is asked before the target is resolved, every answer but the    *)
(* last of a finished call was allow, the key path has asked at most       *)
(* manage_blob before its final check, the grant loop has the shape above, *)
(* and a grant request whose vector holds grant asks nothing but "grant".  *)
OrderInv ==
  /\ pc \notin {"grant_loop", "done"} => pos = 0
  /\ pc \in {"idle", "keystore", "grant_resolve", "grant_self",
             "key_resolve", "key_blob"} => log = <<>>
  /\ pc = "grant_loop" => log # <<>>
  /\ pc # "done" => \A i \in 1..Len(log) : log[i].ans = "allow"
  /\ \A i \in 1..(Len(log) - 1) : log[i].ans = "allow"
  /\ pc = "key_check" =>
       QueryNames(log) = IF req.domain = "Blob"
                         THEN <<KeyPermToSelinux(KeyPerm_manage_blob)>>
                         ELSE <<>>
  /\ req.op # "grant" => IsPrefix(QueryNames(log), ExpectedNames(req))
  /\ req.op = "grant" /\ log # <<>> => GrantLogShape
  /\ req.op = "grant" /\ GrantHeld => Len(log) <= 1
-----------------------------------------------------------------------------
(* Lemmas about the operators the invariant is built from. *)

PermNames == KeyPermNames \cup KeystorePermNames

(* Every request's access vector is a finite set of bit positions. *)
LEMMA AvFinite ==
  ASSUME NEW v \in KeyPermSets
  PROVE  v \subseteq BitPos /\ IsFiniteSet(v) /\ Cardinality(v) \in Nat
  <1>1. v \subseteq BitPos
    BY DEF KeyPermSets
  <1>2. IsFiniteSet(BitPos)
    <2>1. IsFiniteSet(0..31)
      <3>1. 0 \in Int /\ 31 \in Int
        OBVIOUS
      <3>2. QED
        BY <3>1, FS_Interval
    <2>2. QED
      BY <2>1 DEF BitPos
  <1>3. IsFiniteSet(v)
    BY <1>1, <1>2, FS_Subset
  <1>4. QED
    BY <1>1, <1>3, FS_CardinalityType

(* A bit position decodes to a KeyPerm whose name the backend knows. *)
LEMMA BitNameType ==
  ASSUME NEW k
  PROVE  KeyPermToSelinux(BitPerm(k)) \in KeyPermNames
  <1>1. BitPerm(k) \in KeyPerms
    BY DEF BitPerm, KeyPermFrom, KeyPerms, KeyPermCodes, KeyPermNone,
           KeyPermNames, KeyPermCode
  <1>2. QED
    BY <1>1, KeyNameType

(* A sequence that agrees with t on its length is a prefix of t. *)
LEMMA PrefixByElems ==
  ASSUME NEW S, NEW s \in Seq(S), NEW t \in Seq(S), Len(s) <= Len(t),
         \A i \in 1..Len(s) : s[i] = t[i]
  PROVE  IsPrefix(s, t)
  <1>1. Len(s) \in Nat /\ Len(t) \in Nat
    BY LenProperties
  <1>2. \A i \in 1..Len(s) : t[i] \in S
    BY <1>1, LenProperties
  <1>3. /\ SubSeq(t, 1, Len(s)) \in Seq(S)
        /\ Len(SubSeq(t, 1, Len(s))) = Len(s)
        /\ \A i \in 1..Len(s) : SubSeq(t, 1, Len(s))[i] = t[i]
    BY <1>1, <1>2, SubSeqProperties
  <1>4. SubSeq(t, 1, Len(s)) = s
    BY <1>3, SeqEqual
  <1>5. SubSeq(s, 1, Len(s)) = s
    BY SubSeqFull
  <1>6. QED
    BY <1>4, <1>5 DEF IsPrefix

(* The empty sequence and t itself are prefixes of t. *)
LEMMA PrefixTrivial ==
  ASSUME NEW S, NEW t \in Seq(S)
  PROVE  IsPrefix(<<>>, t) /\ IsPrefix(t, t)
  <1>1. <<>> \in Seq(S) /\ Len(<<>>) = 0 /\ Len(t) \in Nat
    BY EmptySeq, LenProperties
  <1>2. IsPrefix(<<>>, t)
    <2>1. SubSeq(<<>>, 1, 0) = <<>> /\ SubSeq(t, 1, 0) = <<>>
      BY SubSeqEmpty
    <2>2. QED
      BY <1>1, <2>1 DEF IsPrefix
  <1>3. IsPrefix(t, t)
    BY <1>1, PrefixByElems
  <1>4. QED
    BY <1>2, <1>3

(* The names of a log of queries. *)
LEMMA QueryNamesType ==
  ASSUME NEW s \in Seq(Queries)
  PROVE  /\ QueryNames(s) \in Seq(PermNames)
         /\ Len(QueryNames(s)) = Len(s)
         /\ \A i \in 1..Len(s) : QueryNames(s)[i] = s[i].perm
  <1>1. Len(s) \in Nat /\ \A i \in 1..Len(s) : s[i] \in Queries
    BY LenProperties
  <1>2. QueryNames(s) \in [1..Len(s) -> PermNames]
    BY <1>1 DEF QueryNames, Queries, PermNames
  <1>3. QED
    BY <1>1, <1>2, SeqDef, LenProperties DEF QueryNames

(* Appending a query appends its name. *)
LEMMA QueryNamesAppend ==
  ASSUME NEW s \in Seq(Queries), NEW q \in Queries
  PROVE  QueryNames(Append(s, q)) = Append(QueryNames(s), q.perm)
  <1>1. q.perm \in PermNames
    BY DEF Queries, PermNames
  <1>2. /\ Append(s, q) \in Seq(Queries)
        /\ Len(Append(s, q)) = Len(s) + 1
        /\ \A i \in 1..Len(s) : Append(s, q)[i] = s[i]
        /\ Append(s, q)[Len(s) + 1] = q
    BY AppendProperties
  <1>3. QueryNames(s) \in Seq(PermNames) /\ Len(QueryNames(s)) = Len(s)
        /\ \A i \in 1..Len(s) : QueryNames(s)[i] = s[i].perm
    BY QueryNamesType
  <1>4. Append(QueryNames(s), q.perm) \in Seq(PermNames)
        /\ Len(Append(QueryNames(s), q.perm)) = Len(s) + 1
        /\ \A i \in 1..Len(s) : Append(QueryNames(s), q.perm)[i] = s[i].perm
        /\ Append(QueryNames(s), q.perm)[Len(s) + 1] = q.perm
    BY <1>1, <1>3, AppendProperties
  <1>5. QueryNames(Append(s, q)) \in Seq(PermNames)
        /\ Len(QueryNames(Append(s, q))) = Len(s) + 1
        /\ \A i \in 1..Len(s) + 1 : QueryNames(Append(s, q))[i] = Append(s, q)[i].perm
    BY <1>2, QueryNamesType
  <1>6. Len(s) \in Nat
    BY LenProperties
  <1>7. QED
    BY <1>2, <1>4, <1>5, <1>6, SeqEqual
(* The names the grant loop queries for the bits bs, after "grant". *)
LEMMA GrantNamesType ==
  ASSUME NEW bs \in Seq(Int)
  PROVE  /\ BitNames(bs) \in Seq(PermNames)
         /\ <<"grant">> \o BitNames(bs) \in Seq(PermNames)
         /\ Len(<<"grant">> \o BitNames(bs)) = Len(bs) + 1
         /\ (<<"grant">> \o BitNames(bs))[1] = "grant"
         /\ \A i \in 1..Len(bs) :
              (<<"grant">> \o BitNames(bs))[i + 1] = KeyPermToSelinux(BitPerm(bs[i]))
  <1>1. Len(bs) \in Nat
    BY LenProperties
  <1>2. BitNames(bs) \in [1..Len(bs) -> PermNames]
    BY BitNameType DEF BitNames, PermNames
  <1>3. BitNames(bs) \in Seq(PermNames) /\ Len(BitNames(bs)) = Len(bs)
    BY <1>1, <1>2, SeqDef, LenProperties DEF BitNames
  <1>4. <<"grant">> \in Seq(PermNames) /\ Len(<<"grant">>) = 1
    BY GrantNameType DEF PermNames
  <1>5. QED
    BY <1>1, <1>3, <1>4, ConcatProperties DEF BitNames

(* One more pass of the grant loop over a one bit k: its name is appended. *)
LEMMA GrantNamesAppend ==
  ASSUME NEW bs \in Seq(Int), NEW k \in Int
  PROVE  Append(<<"grant">> \o BitNames(bs), KeyPermToSelinux(BitPerm(k)))
           = <<"grant">> \o BitNames(Append(bs, k))
  <1>1. Len(bs) \in Nat
    BY LenProperties
  <1>2. /\ Append(bs, k) \in Seq(Int)
        /\ Len(Append(bs, k)) = Len(bs) + 1
        /\ \A i \in 1..Len(bs) : Append(bs, k)[i] = bs[i]
        /\ Append(bs, k)[Len(bs) + 1] = k
    BY AppendProperties
  <1>3. KeyPermToSelinux(BitPerm(k)) \in PermNames
    BY BitNameType DEF PermNames
  <1>4. /\ <<"grant">> \o BitNames(bs) \in Seq(PermNames)
        /\ Len(<<"grant">> \o BitNames(bs)) = Len(bs) + 1
        /\ (<<"grant">> \o BitNames(bs))[1] = "grant"
        /\ \A i \in 1..Len(bs) :
             (<<"grant">> \o BitNames(bs))[i + 1] = KeyPermToSelinux(BitPerm(bs[i]))
    BY GrantNamesType
  <1>5. /\ <<"grant">> \o BitNames(Append(bs, k)) \in Seq(PermNames)
        /\ Len(<<"grant">> \o BitNames(Append(bs, k))) = Len(bs) + 2
        /\ (<<"grant">> \o BitNames(Append(bs, k)))[1] = "grant"
        /\ \A i \in 1..Len(bs) + 1 :
             (<<"grant">> \o BitNames(Append(bs, k)))[i + 1]
               = KeyPermToSelinux(BitPerm(Append(bs, k)[i]))
    <2> DEFINE c == Append(bs, k)
    <2>1. c \in Seq(Int) /\ Len(c) = Len(bs) + 1
      BY <1>2
    <2>2. /\ <<"grant">> \o BitNames(c) \in Seq(PermNames)
          /\ Len(<<"grant">> \o BitNames(c)) = Len(c) + 1
          /\ (<<"grant">> \o BitNames(c))[1] = "grant"
          /\ \A i \in 1..Len(c) :
               (<<"grant">> \o BitNames(c))[i + 1] = KeyPermToSelinux(BitPerm(c[i]))
      BY <2>1, GrantNamesType
    <2>3. QED
      BY <2>1, <2>2
  <1>6. /\ Append(<<"grant">> \o BitNames(bs), KeyPermToSelinux(BitPerm(k))) \in Seq(PermNames)
        /\ Len(Append(<<"grant">> \o BitNames(bs), KeyPermToSelinux(BitPerm(k)))) = Len(bs) + 2
        /\ \A i \in 1..Len(bs) + 1 :
             Append(<<"grant">> \o BitNames(bs), KeyPermToSelinux(BitPerm(k)))[i]
               = (<<"grant">> \o BitNames(bs))[i]
        /\ Append(<<"grant">> \o BitNames(bs), KeyPermToSelinux(BitPerm(k)))[Len(bs) + 2]
             = KeyPermToSelinux(BitPerm(k))
    BY <1>1, <1>3, <1>4, AppendProperties
  <1>7. \A i \in 1..Len(bs) + 2 :
          Append(<<"grant">> \o BitNames(bs), KeyPermToSelinux(BitPerm(k)))[i]
            = (<<"grant">> \o BitNames(Append(bs, k)))[i]
    <2> SUFFICES ASSUME NEW i \in 1..Len(bs) + 2
                 PROVE  Append(<<"grant">> \o BitNames(bs), KeyPermToSelinux(BitPerm(k)))[i]
                          = (<<"grant">> \o BitNames(Append(bs, k)))[i]
      OBVIOUS
    <2>1. CASE i = 1
      BY <2>1, <1>1, <1>4, <1>5, <1>6
    <2>2. CASE i = Len(bs) + 2
      BY <2>2, <1>1, <1>2, <1>5, <1>6
    <2>3. CASE i \in 2..Len(bs) + 1
      <3>1. PICK j \in 1..Len(bs) : i = j + 1
        BY <2>3, <1>1
      <3>2. Append(<<"grant">> \o BitNames(bs), KeyPermToSelinux(BitPerm(k)))[i]
              = KeyPermToSelinux(BitPerm(bs[j]))
        BY <3>1, <1>1, <1>4, <1>6
      <3>3. (<<"grant">> \o BitNames(Append(bs, k)))[i] = KeyPermToSelinux(BitPerm(bs[j]))
        BY <3>1, <1>1, <1>2, <1>5
      <3>4. QED
        BY <3>2, <3>3
    <2>4. i = 1 \/ i = Len(bs) + 2 \/ i \in 2..Len(bs) + 1
      BY <1>1
    <2>5. QED
      BY <2>1, <2>2, <2>3, <2>4
  <1>8. QED
    BY <1>1, <1>5, <1>6, <1>7, SeqEqual

(* No query yet: no names. *)
LEMMA QueryNamesEmpty == QueryNames(<<>>) = <<>>
  BY DEF QueryNames

(* The grant loop before its first pass has queried only "grant". *)
LEMMA GrantNamesEmpty == <<"grant">> \o BitNames(<<>>) = <<"grant">>
  <1>1. BitNames(<<>>) = <<>>
    BY DEF BitNames
  <1>2. <<"grant">> \in Seq(PermNames)
    BY GrantNameType DEF PermNames
  <1>3. QED
    BY <1>1, <1>2, ConcatEmptySeq

(* Appending to a log of allows: every query but the last was allowed,   *)
(* and all were when the appended one was.                                *)
LEMMA AllowAppend ==
  ASSUME NEW s \in Seq(Queries), NEW q, \A i \in 1..Len(s) : s[i].ans = "allow"
  PROVE  /\ \A i \in 1..(Len(Append(s, q)) - 1) : Append(s, q)[i].ans = "allow"
         /\ q.ans = "allow" => \A i \in 1..Len(Append(s, q)) : Append(s, q)[i].ans = "allow"
  BY LenProperties

(* Appending to a one-element sequence. *)
LEMMA AppendPair ==
  ASSUME NEW a, NEW b
  PROVE  Append(<<a>>, b) = <<a, b>>
  <1>1. <<a>> \in Seq({a, b}) /\ <<a, b>> \in Seq({a, b}) /\ Len(<<a>>) = 1
    OBVIOUS
  <1>2. /\ Append(<<a>>, b) \in Seq({a, b})
        /\ Len(Append(<<a>>, b)) = 2
        /\ Append(<<a>>, b)[1] = a /\ Append(<<a>>, b)[2] = b
    BY <1>1, AppendProperties
  <1>3. \A i \in 1..Len(Append(<<a>>, b)) : Append(<<a>>, b)[i] = <<a, b>>[i]
    BY <1>2
  <1>4. Len(Append(<<a>>, b)) = Len(<<a, b>>)
    BY <1>2
  <1>5. QED
    BY <1>1, <1>2, <1>3, <1>4, SeqEqual

(* The kind of a request is told by its op. *)
LEMMA ReqKinds ==
  ASSUME NEW r \in Requests \cup {NoReq}
  PROVE  /\ r.op = "keystore" => r \in KeystoreReqs
         /\ r.op = "grant" => r \in GrantReqs
         /\ r.op = "key" => r \in KeyReqs
         /\ r.op \notin {"keystore", "grant", "key"} => r = NoReq
  <1>1. CASE r = NoReq
    BY <1>1 DEF NoReq
  <1>2. CASE r \in KeystoreReqs
    BY <1>2 DEF KeystoreReqs
  <1>3. CASE r \in GrantReqs
    BY <1>3 DEF GrantReqs
  <1>4. CASE r \in KeyReqs
    BY <1>4 DEF KeyReqs
  <1>5. QED
    BY <1>1, <1>2, <1>3, <1>4 DEF Requests

(* What every request must query is a sequence of permission names. *)
LEMMA ExpectedType ==
  ASSUME ConstantsAssumption, NEW r \in Requests \cup {NoReq}
  PROVE  ExpectedNames(r) \in Seq(PermNames)
  <1>1. CASE r.op = "keystore"
    <2>1. r \in KeystoreReqs
      BY <1>1, ReqKinds
    <2>2. KeystorePermToSelinux(r.perm) \in PermNames
      BY <2>1 DEF KeystoreReqs, KeystorePermToSelinux, KeystorePerms, PermNames
    <2>3. QED
      BY <1>1, <2>2 DEF ExpectedNames
  <1>2. CASE r.op = "grant" /\ Includes(r.av, FromKeyPerm(KeyPerm_grant))
    <2>1. ExpectedNames(r) = <<"grant">>
      BY <1>2 DEF ExpectedNames
    <2>2. QED
      BY <2>1, GrantNameType DEF PermNames
  <1>6. CASE r.op = "grant" /\ ~Includes(r.av, FromKeyPerm(KeyPerm_grant))
    <2>1. r.av \in KeyPermSets
      BY <1>6, ReqKinds, ConstantsAssumption DEF GrantReqs
    <2>2. Cardinality(r.av) \in Nat
      BY <2>1, AvFinite
    <2>3. [i \in 1..Cardinality(r.av) |-> KeyPermToSelinux(BitPerm(Ascending(r.av)[i]))]
            \in Seq(PermNames)
      <3>1. [i \in 1..Cardinality(r.av) |-> KeyPermToSelinux(BitPerm(Ascending(r.av)[i]))]
              \in [1..Cardinality(r.av) -> PermNames]
        BY BitNameType DEF PermNames
      <3>2. QED
        BY <2>2, <3>1, SeqDef
    <2>4. <<"grant">> \in Seq(PermNames)
      BY GrantNameType DEF PermNames
    <2>5. QED
      BY <1>6, <2>3, <2>4, ConcatProperties DEF ExpectedNames
  <1>3. CASE r.op = "key"
    <2>1. r.perm \in KeyPerms /\ KeyPerm_manage_blob \in KeyPerms
      <3>1. r.perm \in ReqKeyPerms
        BY <1>3, ReqKinds DEF KeyReqs
      <3>2. KeyPerm_manage_blob \in KeyPerms
        BY DEF KeyPerm_manage_blob, KeyPerms, KeyPermNames, KeyPermCode
      <3>3. QED
        BY <3>1, <3>2, ConstantsAssumption
    <2>2. KeyPermToSelinux(r.perm) \in PermNames
          /\ KeyPermToSelinux(KeyPerm_manage_blob) \in PermNames
      BY <2>1, KeyNameType DEF PermNames
    <2>3. QED
      BY <1>3, <2>2 DEF ExpectedNames
  <1>4. CASE r.op \notin {"keystore", "grant", "key"}
    BY <1>4, EmptySeq DEF ExpectedNames
  <1>5. QED
    BY <1>1, <1>2, <1>3, <1>4, <1>6
-----------------------------------------------------------------------------
(* The inductive step. *)

LEMMA InitOrderInv == Init => OrderInv
  <1> SUFFICES ASSUME Init PROVE OrderInv
    OBVIOUS
  <1>1. ExpectedNames(req) = <<>>
    BY DEF Init, NoReq, ExpectedNames
  <1>2. IsPrefix(<<>>, <<>>)
    BY EmptySeq, PrefixTrivial
  <1>3. QED
    BY <1>1, <1>2, QueryNamesEmpty DEF Init, OrderInv, NoReq

LEMMA StepOrderInv == IInv /\ OrderInv /\ [Next]_vars => OrderInv'
  <1> SUFFICES ASSUME TypeInv, SoundInv, OrderInv, [Next]_vars PROVE OrderInv'
    BY DEF IInv
  <1> USE ConstantsAssumption
  <1>0. /\ log \in Seq(Queries) /\ pos \in 0..IterEnd
        /\ req \in Requests \cup {NoReq}
        /\ TypeInv'
    BY StepTypeInv DEF TypeInv, TypeOK
  <1>1. CASE Call
    <2>1. PICK r \in Requests : req' = r /\ pc' = Entry[r.op]
      BY <1>1 DEF Call
    <2>2. pc = "idle" /\ log' = <<>> /\ pos' = 0
      BY <1>1 DEF Call, OrderInv
    <2>3. pc' \in {"keystore", "grant_resolve", "key_resolve"}
      BY <2>1, EntryPCs
    <2>4. IsPrefix(QueryNames(log'), ExpectedNames(req'))
      BY <2>1, <2>2, ExpectedType, PrefixTrivial, QueryNamesEmpty
    <2>5. QED
      BY <2>2, <2>3, <2>4, EmptySeq DEF OrderInv
  <1>2. CASE CheckKeystorePermission
    <2>1. /\ pc = "keystore" /\ pc' = "done" /\ log = <<>> /\ req' = req
          /\ req \in KeystoreReqs
      BY <1>2 DEF CheckKeystorePermission, Finish, OrderInv, TypeInv
    <2>2. ExpectedNames(req) = <<KeystorePermToSelinux(req.perm)>>
          /\ ExpectedNames(req) \in Seq(PermNames)
      BY <2>1, ExpectedType DEF ExpectedNames, KeystoreReqs, Requests
    <2>3. \/ log' = <<>>
          \/ \E q \in Queries : log' = Append(<<>>, q)
                                /\ q.perm = KeystorePermToSelinux(req.perm)
      BY <1>2, <2>1, <1>0 DEF CheckKeystorePermission, Query, TypeInv, TypeOK
    <2>4. QueryNames(log') \in {<<>>, ExpectedNames(req)}
      <3>1. CASE log' = <<>>
        BY <3>1, QueryNamesEmpty
      <3>2. CASE log' # <<>>
        <4>1. PICK q \in Queries : log' = Append(<<>>, q)
                                   /\ q.perm = KeystorePermToSelinux(req.perm)
          BY <3>2, <2>3
        <4>2. QueryNames(log') = Append(<<>>, q.perm)
          BY <4>1, QueryNamesAppend, QueryNamesEmpty, EmptySeq
        <4>3. QED
          BY <4>1, <4>2, <2>2
      <3>3. QED
        BY <3>1, <3>2
    <2>5. IsPrefix(QueryNames(log'), ExpectedNames(req'))
      BY <2>1, <2>2, <2>4, PrefixTrivial
    <2>6. Len(log') <= 1
      <3>1. CASE log' = <<>>
        BY <3>1, EmptySeq
      <3>2. CASE log' # <<>>
        <4>1. PICK q \in Queries : log' = Append(<<>>, q)
          BY <3>2, <2>3
        <4>2. <<>> \in Seq(Queries) /\ Len(<<>>) = 0
          BY EmptySeq
        <4>3. QED
          BY <4>1, <4>2, AppendProperties
      <3>3. QED
        BY <3>1, <3>2
    <2>7. req.op # "grant"
      BY <2>1 DEF KeystoreReqs
    <2>8. QED
      BY <2>1, <2>5, <2>6, <2>7 DEF OrderInv
  <1>3. CASE GrantResolveTarget
    <2>1. /\ pc = "grant_resolve" /\ pc' \in {"done", "grant_self"}
          /\ UNCHANGED <<req, pos, log>>
      BY <1>3 DEF GrantResolveTarget, Finish
    <2>2. log = <<>> /\ pos = 0 /\ req.op = "grant"
      BY <2>1 DEF OrderInv, TypeInv, GrantPCs, GrantReqs
    <2>3. QED
      BY <2>1, <2>2, EmptySeq DEF OrderInv
  <1>4. CASE GrantCheckSelf
    <2>1. /\ pc = "grant_self" /\ log = <<>> /\ pos = 0 /\ req' = req
          /\ req \in GrantReqs /\ tgt \in Contexts
      BY <1>4 DEF GrantCheckSelf, OrderInv, TypeInv, GrantPCs, TargetPCs
    <2>2. PICK ans \in Answers :
            /\ log' = Append(log, Query(tgt, "keystore2_key", "grant", ans))
            /\ \/ ans # "allow" /\ pc' = "done" /\ pos' = pos
               \/ ans = "allow" /\ pc' = "done" /\ pos' = pos
               \/ ans = "allow" /\ pc' = "grant_loop" /\ pos' = 0
      BY <1>4 DEF GrantCheckSelf, Finish
    <2>3. Query(tgt, "keystore2_key", "grant", ans) \in Queries
      BY <2>1, GrantNameType, QueryType DEF Requests, Classes
    <2>4. QueryNames(log') = <<"grant">>
      <3> DEFINE q == Query(tgt, "keystore2_key", "grant", ans)
      <3>1. log' = Append(<<>>, q) /\ q.perm = "grant"
        BY <2>1, <2>2 DEF Query
      <3>2. QueryNames(log') = Append(QueryNames(<<>>), q.perm)
        BY <3>1, <2>3, QueryNamesAppend, EmptySeq
      <3>3. QED
        BY <3>1, <3>2, QueryNamesEmpty
    <2>5. GrantLogShape'
      <3>1. <<>> \in Seq(BitPos) /\ StrictlyAscending(<<>>) /\ Range(<<>>) = {}
        BY EmptySeq DEF StrictlyAscending, Range
      <3>2. req'.av \cap 0..(pos' - 1) = {}
        BY <2>1, <2>2
      <3>3. QED
        BY <2>4, <3>1, <3>2, GrantNamesEmpty DEF GrantLogShape
    <2>6. /\ log' # <<>> /\ Len(log') = 1
          /\ log'[1].ans = ans
      BY <2>1, <2>2, <2>3, EmptySeq, AppendProperties DEF Query
    <2>7. req.op = "grant"
      BY <2>1 DEF GrantReqs
    <2>8. QED
      BY <2>1, <2>2, <2>5, <2>6, <2>7 DEF OrderInv
  <1>5. CASE GrantSkipBit
    <2>1. /\ pc = "grant_loop" /\ pc' = "grant_loop" /\ pos' = pos + 1
          /\ UNCHANGED <<req, log>> /\ pos # IterEnd /\ Probe(req.av, pos) = 0
      BY <1>5 DEF GrantSkipBit
    <2>2. req \in GrantReqs /\ req.av \in KeyPermSets /\ pos \in BitPos
      BY <2>1, <1>0 DEF TypeInv, GrantPCs, GrantReqs, IterEnd, BitPos
    <2>3. pos \notin req.av
      BY <2>1, <2>2, ProbeNonZero
    <2>4. req.av \cap 0..(pos' - 1) = req.av \cap 0..(pos - 1)
      BY <2>1, <2>2, <2>3 DEF BitPos
    <2>5. log # <<>> /\ GrantLogShape
      BY <2>1, <2>2 DEF OrderInv, GrantReqs
    <2>6. GrantLogShape'
      BY <2>1, <2>4, <2>5 DEF GrantLogShape
    <2>7. QED
      BY <2>1, <2>5, <2>6 DEF OrderInv, GrantHeld
  <1>6. CASE GrantCheckBit
    <2>1. /\ pc = "grant_loop" /\ pos' = pos + 1 /\ req' = req
          /\ pos # IterEnd /\ Probe(req.av, pos) # 0
      BY <1>6 DEF GrantCheckBit
    <2>2. /\ req \in GrantReqs /\ req.av \in KeyPermSets /\ pos \in BitPos
          /\ tgt \in Contexts
      BY <2>1, <1>0 DEF TypeInv, GrantPCs, TargetPCs, GrantReqs, IterEnd, BitPos
    <2>3. pos \in req.av
      BY <2>1, <2>2, ProbeNonZero
    <2>4. Yields(req.av, pos) = BitPerm(pos)
      BY <2>3 DEF Yields, Probe, BitPerm
    <2>5. PICK ans \in Answers :
            /\ log' = Append(log, Query(tgt, "keystore2_key",
                                        KeyPermToSelinux(BitPerm(pos)), ans))
            /\ \/ ans # "allow" /\ pc' = "done"
               \/ ans = "allow" /\ pc' = "grant_loop"
      BY <1>6, <2>1, <2>4 DEF GrantCheckBit, Finish
    <2>6. Query(tgt, "keystore2_key", KeyPermToSelinux(BitPerm(pos)), ans) \in Queries
      BY <2>2, BitNameType, QueryType DEF Requests, Classes
    <2>7. /\ log # <<>> /\ \A i \in 1..Len(log) : log[i].ans = "allow"
          /\ GrantLogShape
      BY <2>1, <2>2 DEF OrderInv, GrantReqs
    <2>8. PICK bs \in Seq(BitPos) :
            /\ StrictlyAscending(bs)
            /\ Range(bs) = req.av \cap 0..(pos - 1)
            /\ QueryNames(log) = <<"grant">> \o BitNames(bs)
      BY <2>7 DEF GrantLogShape
    <2>9. /\ Append(bs, pos) \in Seq(BitPos)
          /\ Len(bs) \in Nat /\ Len(Append(bs, pos)) = Len(bs) + 1
          /\ \A i \in 1..Len(bs) : Append(bs, pos)[i] = bs[i] /\ bs[i] \in Range(bs)
          /\ Append(bs, pos)[Len(bs) + 1] = pos
      BY <2>2, <2>8, AppendProperties, LenProperties DEF Range
    <2>10. StrictlyAscending(Append(bs, pos))
      <3>1. \A i \in 1..Len(bs) : bs[i] < pos
        BY <2>2, <2>8, <2>9 DEF BitPos
      <3> SUFFICES ASSUME NEW i \in 1..Len(Append(bs, pos)),
                          NEW j \in 1..Len(Append(bs, pos)), i < j
                   PROVE  Append(bs, pos)[i] < Append(bs, pos)[j]
        BY DEF StrictlyAscending
      <3>2. CASE j = Len(bs) + 1
        BY <2>9, <3>1, <3>2
      <3>3. CASE j # Len(bs) + 1
        <4>1. i \in 1..Len(bs) /\ j \in 1..Len(bs)
          BY <2>9, <3>3
        <4>2. bs[i] < bs[j]
          BY <4>1, <2>8 DEF StrictlyAscending
        <4>3. QED
          BY <4>1, <4>2, <2>9
      <3>4. QED
        BY <3>2, <3>3
    <2>11. Range(Append(bs, pos)) = req.av \cap 0..pos
      <3>1. Range(Append(bs, pos)) = Range(bs) \cup {pos}
        BY <2>2, <2>8, RangeAppend
      <3>2. QED
        BY <3>1, <2>2, <2>3, <2>8 DEF BitPos
    <2>12. QueryNames(log') = <<"grant">> \o BitNames(Append(bs, pos))
      <3>1. QueryNames(log') = Append(QueryNames(log), KeyPermToSelinux(BitPerm(pos)))
        BY <1>0, <2>5, <2>6, QueryNamesAppend DEF Query
      <3>2. bs \in Seq(Int) /\ pos \in Int
        <4>1. BitPos \subseteq Int /\ pos \in Int
          BY <2>2 DEF BitPos
        <4>2. QED
          BY <4>1, <2>8, SeqMonotonic
      <3>3. QED
        BY <3>1, <3>2, <2>8, GrantNamesAppend
    <2>13. GrantLogShape'
      <3>1. req'.av \cap 0..(pos' - 1) = req.av \cap 0..pos
        BY <2>1, <2>2 DEF BitPos
      <3>2. /\ StrictlyAscending(Append(bs, pos))
            /\ Range(Append(bs, pos)) = req'.av \cap 0..(pos' - 1)
            /\ QueryNames(log') = <<"grant">> \o BitNames(Append(bs, pos))
        BY <2>10, <2>11, <2>12, <3>1
      <3>3. QED
        BY <2>9, <3>2 DEF GrantLogShape
    <2>14. /\ \A i \in 1..(Len(log') - 1) : log'[i].ans = "allow"
           /\ pc' # "done" => \A i \in 1..Len(log') : log'[i].ans = "allow"
           /\ log' # <<>>
      BY <1>0, <2>5, <2>6, <2>7, AllowAppend, AppendProperties DEF Query
    <2>15. ~GrantHeld'
      BY <2>1 DEF SoundInv, GrantHeld
    <2>16. QED
      BY <2>1, <2>2, <2>5, <2>13, <2>14, <2>15 DEF OrderInv, GrantReqs
  <1>7. CASE GrantDone
    BY <1>7 DEF GrantDone, Finish, OrderInv, GrantLogShape, GrantHeld
  <1>8. CASE KeyResolveTarget
    <2>1. /\ pc = "key_resolve" /\ UNCHANGED <<req, pos, log>>
          /\ pc' \in {"done", "key_blob", "key_check"}
          /\ pc' = "key_check" => req.domain # "Blob"
      BY <1>8 DEF KeyResolveTarget, Finish
    <2>2. log = <<>> /\ pos = 0 /\ req \in KeyReqs
      BY <2>1 DEF OrderInv, TypeInv, KeyPCs
    <2>3. IsPrefix(QueryNames(log'), ExpectedNames(req'))
      BY <2>1, <2>2, ExpectedType, PrefixTrivial, QueryNamesEmpty DEF Requests
    <2>4. QED
      BY <2>1, <2>2, <2>3, QueryNamesEmpty, EmptySeq DEF OrderInv, KeyReqs
  <1>9. CASE KeyCheckManageBlob
    <2>1. /\ pc = "key_blob" /\ req' = req /\ pos' = pos /\ req.op = "key"
          /\ log = <<>> /\ pos = 0 /\ req \in KeyReqs /\ req.domain = "Blob"
          /\ tgt \in Contexts
      <3>1. pc = "key_blob" /\ req' = req /\ pos' = pos
        BY <1>9 DEF KeyCheckManageBlob
      <3>2. req \in KeyReqs /\ tgt \in Contexts
        BY <3>1 DEF TypeInv, KeyPCs, TargetPCs
      <3>3. req.op = "key"
        BY <3>2 DEF KeyReqs
      <3>4. req.domain = "Blob"
        BY <3>1 DEF SoundInv
      <3>5. log = <<>> /\ pos = 0
        BY <3>1 DEF OrderInv
      <3>6. QED
        BY <3>1, <3>2, <3>3, <3>4, <3>5
    <2>2. PICK ans \in Answers :
            /\ log' = Append(log, Query(tgt, "keystore2_key",
                                        KeyPermToSelinux(KeyPerm_manage_blob), ans))
            /\ \/ ans # "allow" /\ pc' = "done"
               \/ ans = "allow" /\ pc' = "key_check"
      BY <1>9 DEF KeyCheckManageBlob, Finish
    <2>3. KeyPermToSelinux(KeyPerm_manage_blob) \in KeyPermNames
          /\ KeyPermToSelinux(req.perm) \in KeyPermNames
      <3>1. KeyPerm_manage_blob \in KeyPerms /\ req.perm \in KeyPerms
        BY <2>1 DEF KeyPerm_manage_blob, KeyPerms, KeyPermNames, KeyPermCode, KeyReqs
      <3>2. QED
        BY <3>1, KeyNameType
    <2>4. Query(tgt, "keystore2_key", KeyPermToSelinux(KeyPerm_manage_blob), ans) \in Queries
      BY <2>1, <2>3, QueryType DEF Requests, Classes
    <2>5. /\ QueryNames(log') = <<KeyPermToSelinux(KeyPerm_manage_blob)>>
          /\ Len(log') = 1 /\ log'[1].ans = ans
      <3> DEFINE q == Query(tgt, "keystore2_key", KeyPermToSelinux(KeyPerm_manage_blob), ans)
      <3>1. log' = Append(<<>>, q) /\ q.perm = KeyPermToSelinux(KeyPerm_manage_blob)
            /\ q.ans = ans
        BY <2>1, <2>2 DEF Query
      <3>2. QueryNames(log') = Append(QueryNames(<<>>), q.perm)
        BY <3>1, <2>4, QueryNamesAppend, EmptySeq
      <3>3. QED
        BY <3>1, <3>2, QueryNamesEmpty
    <2>6. ExpectedNames(req) = <<KeyPermToSelinux(KeyPerm_manage_blob),
                                 KeyPermToSelinux(req.perm)>>
      BY <2>1 DEF ExpectedNames, KeyReqs
    <2>7. IsPrefix(QueryNames(log'), ExpectedNames(req'))
      <3>1. <<KeyPermToSelinux(KeyPerm_manage_blob)>> \in Seq(PermNames)
            /\ ExpectedNames(req) \in Seq(PermNames)
        BY <2>3, <2>6 DEF PermNames
      <3>2. /\ Len(<<KeyPermToSelinux(KeyPerm_manage_blob)>>) <= Len(ExpectedNames(req))
            /\ \A i \in 1..Len(<<KeyPermToSelinux(KeyPerm_manage_blob)>>) :
                 <<KeyPermToSelinux(KeyPerm_manage_blob)>>[i] = ExpectedNames(req)[i]
        BY <2>6
      <3>3. QED
        BY <2>1, <2>5, <3>1, <3>2, PrefixByElems
    <2>8. QED
      BY <2>1, <2>2, <2>5, <2>7 DEF OrderInv, KeyReqs
  <1>10. CASE KeyCheckAccess
    <2>1. /\ pc = "key_check" /\ pc' = "done" /\ req' = req
          /\ req \in KeyReqs /\ req.domain \in {"App", "SELinux", "Blob"}
          /\ req.op = "key" /\ tgt \in Contexts
          /\ \A i \in 1..Len(log) : log[i].ans = "allow"
          /\ QueryNames(log) = IF req.domain = "Blob"
                               THEN <<KeyPermToSelinux(KeyPerm_manage_blob)>>
                               ELSE <<>>
      <3>1. pc = "key_check" /\ pc' = "done" /\ req' = req
        BY <1>10 DEF KeyCheckAccess, Finish
      <3>2. req \in KeyReqs /\ tgt \in Contexts
        BY <3>1 DEF TypeInv, KeyPCs, TargetPCs
      <3>3. req.op = "key"
        BY <3>2 DEF KeyReqs
      <3>4. req.domain \in {"App", "SELinux", "Blob"}
        BY <3>1 DEF SoundInv
      <3>5. QED
        BY <3>1, <3>2, <3>3, <3>4 DEF OrderInv
    <2>2. PICK ans \in Answers :
            log' = Append(log, Query(tgt, "keystore2_key", KeyPermToSelinux(req.perm), ans))
      BY <1>10 DEF KeyCheckAccess
    <2>3. KeyPermToSelinux(req.perm) \in KeyPermNames
      BY <2>1, KeyNameType DEF KeyReqs
    <2>4. Query(tgt, "keystore2_key", KeyPermToSelinux(req.perm), ans) \in Queries
      BY <2>1, <2>3, QueryType DEF Requests, Classes
    <2>5. QueryNames(log') = Append(QueryNames(log), KeyPermToSelinux(req.perm))
      BY <1>0, <2>2, <2>4, QueryNamesAppend DEF Query
    <2>6. QueryNames(log') = ExpectedNames(req)
      <3>1. CASE req.domain = "Blob"
        <4>1. QueryNames(log') = Append(<<KeyPermToSelinux(KeyPerm_manage_blob)>>,
                                        KeyPermToSelinux(req.perm))
          BY <2>1, <2>5, <3>1
        <4>2. ExpectedNames(req) = <<KeyPermToSelinux(KeyPerm_manage_blob),
                                     KeyPermToSelinux(req.perm)>>
          BY <2>1, <3>1 DEF ExpectedNames, KeyReqs
        <4>3. QED
          BY <4>1, <4>2, AppendPair
      <3>2. CASE req.domain # "Blob"
        <4>0. QueryNames(log) = <<>>
          BY <2>1, <3>2
        <4>1. QueryNames(log') = Append(<<>>, KeyPermToSelinux(req.perm))
          BY <4>0, <2>5
        <4>2. ExpectedNames(req) = <<KeyPermToSelinux(req.perm)>>
          BY <2>1, <3>2 DEF ExpectedNames, KeyReqs
        <4>3. QED
          BY <4>1, <4>2
      <3>3. QED
        BY <3>1, <3>2
    <2>7. IsPrefix(QueryNames(log'), ExpectedNames(req'))
      BY <2>1, <2>6, ExpectedType, PrefixTrivial DEF Requests
    <2>8. \A i \in 1..(Len(log') - 1) : log'[i].ans = "allow"
      BY <1>0, <2>1, <2>2, AllowAppend
    <2>9. QED
      BY <2>1, <2>7, <2>8 DEF OrderInv, KeyReqs
  <1>11. CASE Return
    <2>1. /\ pc' = "idle" /\ req' = NoReq /\ pos' = 0 /\ log' = <<>>
      BY <1>11 DEF Return
    <2>2. IsPrefix(QueryNames(log'), ExpectedNames(req'))
      BY <2>1, ExpectedType, PrefixTrivial, QueryNamesEmpty
    <2>3. QED
      BY <2>1, <2>2, EmptySeq DEF OrderInv, NoReq
  <1>12. CASE UNCHANGED vars
    BY <1>12 DEF vars, OrderInv, GrantLogShape, GrantHeld
  <1>13. QED
    BY <1>1, <1>2, <1>3, <1>4, <1>5, <1>6, <1>7, <1>8, <1>9, <1>10, <1>11, <1>12
       DEF Next, Step
-----------------------------------------------------------------------------
(* From the invariant to QueryOrder. *)

(* A bit below a bit below p is below p. *)
LEMMA BelowBound ==
  ASSUME NEW p \in Int, NEW a \in 0..(p - 1), NEW b \in 0..31, b < a
  PROVE  b \in 0..(p - 1)
  OBVIOUS

(* The names of the permissions of access vector v by ascending bit. *)
AscendingNames(v) == [i \in 1..Cardinality(v) |-> KeyPermToSelinux(BitPerm(Ascending(v)[i]))]

(* The grant loop's bits so far are the first bits of Ascending(av), so    *)
(* its log is a prefix of the names check_grant_permission must query.    *)
LEMMA GrantLogPrefix ==
  ASSUME ConstantsAssumption, TypeInv, req.op = "grant", ~GrantHeld, GrantLogShape
  PROVE  IsPrefix(QueryNames(log), ExpectedNames(req))
  <1>1. req \in GrantReqs /\ req.av \in KeyPermSets
    <2>1. req \in Requests \cup {NoReq}
      BY DEF TypeInv, TypeOK
    <2>2. req \in GrantReqs
      BY <2>1, ReqKinds
    <2>3. QED
      BY <2>2, ConstantsAssumption DEF GrantReqs
  <1>2. req.av \subseteq BitPos /\ IsFiniteSet(req.av) /\ Cardinality(req.av) \in Nat
    BY <1>1, AvFinite
  <1>3. PICK bs \in Seq(BitPos) :
          /\ StrictlyAscending(bs)
          /\ Range(bs) = req.av \cap 0..(pos - 1)
          /\ QueryNames(log) = <<"grant">> \o BitNames(bs)
    BY DEF GrantLogShape
  <1>4. bs \in Seq(Int) /\ req.av \in SUBSET Int /\ Len(bs) \in Nat
    <2>1. BitPos \subseteq Int
      BY DEF BitPos
    <2>2. QED
      BY <1>2, <1>3, <2>1, SeqMonotonic, LenProperties
  <1>5. \A x \in Range(bs), y \in req.av : y < x => y \in Range(bs)
    <2>1. pos \in 0..32
      BY DEF TypeInv, TypeOK, IterEnd
    <2> SUFFICES ASSUME NEW x \in Range(bs), NEW y \in req.av, y < x
                 PROVE  y \in Range(bs)
      OBVIOUS
    <2>2. x \in 0..(pos - 1) /\ y \in 0..31
      BY <1>2, <1>3, <2>1 DEF BitPos
    <2>3. y \in 0..(pos - 1)
      BY <2>1, <2>2, BelowBound
    <2>4. QED
      BY <2>3, <1>3, Zenon
  <1>6. /\ Len(bs) <= Cardinality(req.av)
        /\ \A i \in 1..Len(bs) : Ascending(req.av)[i] = bs[i]
    BY <1>2, <1>3, <1>4, <1>5, AscendingOfSorted
  <1>7. /\ AscendingNames(req.av) \in Seq(PermNames) /\ Len(AscendingNames(req.av)) = Cardinality(req.av)
        /\ <<"grant">> \in Seq(PermNames) /\ Len(<<"grant">>) = 1
    <2>1. AscendingNames(req.av) \in [1..Cardinality(req.av) -> PermNames]
      BY BitNameType DEF PermNames, AscendingNames
    <2>2. <<"grant">> \in Seq(PermNames)
      BY GrantNameType DEF PermNames
    <2>3. QED
      BY <1>2, <2>1, <2>2, SeqDef, LenProperties DEF AscendingNames
  <1>8. ExpectedNames(req) = <<"grant">> \o AscendingNames(req.av)
    BY <1>1 DEF ExpectedNames, GrantReqs, AscendingNames, GrantHeld
  <1>9. /\ <<"grant">> \o AscendingNames(req.av) \in Seq(PermNames)
        /\ Len(<<"grant">> \o AscendingNames(req.av)) = Cardinality(req.av) + 1
        /\ (<<"grant">> \o AscendingNames(req.av))[1] = "grant"
        /\ \A j \in 1..Cardinality(req.av) :
             (<<"grant">> \o AscendingNames(req.av))[j + 1] = KeyPermToSelinux(BitPerm(Ascending(req.av)[j]))
    <2>1. /\ <<"grant">> \o AscendingNames(req.av) \in Seq(PermNames)
          /\ Len(<<"grant">> \o AscendingNames(req.av)) = 1 + Cardinality(req.av)
      BY <1>7, ConcatProperties
    <2>2. (<<"grant">> \o AscendingNames(req.av))[1] = "grant"
      <3>1. 1 \in 1..(1 + Cardinality(req.av)) /\ 1 <= Len(<<"grant">>)
        BY <1>2, <1>7
      <3>2. QED
        BY <1>7, <3>1, ConcatProperties
    <2>3. ASSUME NEW j \in 1..Cardinality(req.av)
          PROVE  (<<"grant">> \o AscendingNames(req.av))[j + 1]
                   = KeyPermToSelinux(BitPerm(Ascending(req.av)[j]))
      <3>1. /\ j + 1 \in 1..(Len(<<"grant">>) + Len(AscendingNames(req.av)))
            /\ ~(j + 1 <= Len(<<"grant">>))
            /\ (j + 1) - Len(<<"grant">>) = j
        BY <1>2, <1>7
      <3>2. (<<"grant">> \o AscendingNames(req.av))[j + 1] = AscendingNames(req.av)[j]
        BY <1>7, <3>1, ConcatProperties
      <3>3. QED
        BY <3>2 DEF AscendingNames
    <2>4. QED
      BY <1>2, <2>1, <2>2, <2>3
  <1>10. /\ <<"grant">> \o BitNames(bs) \in Seq(PermNames)
         /\ Len(<<"grant">> \o BitNames(bs)) = Len(bs) + 1
         /\ (<<"grant">> \o BitNames(bs))[1] = "grant"
         /\ \A j \in 1..Len(bs) :
              (<<"grant">> \o BitNames(bs))[j + 1] = KeyPermToSelinux(BitPerm(bs[j]))
    BY <1>4, GrantNamesType
  <1>11. \A i \in 1..Len(bs) + 1 :
           (<<"grant">> \o BitNames(bs))[i] = (<<"grant">> \o AscendingNames(req.av))[i]
    <2> SUFFICES ASSUME NEW i \in 1..Len(bs) + 1
                 PROVE  (<<"grant">> \o BitNames(bs))[i] = (<<"grant">> \o AscendingNames(req.av))[i]
      OBVIOUS
    <2>1. CASE i = 1
      BY <2>1, <1>9, <1>10
    <2>2. CASE i # 1
      <3>0. i - 1 \in 1..Len(bs) /\ i = (i - 1) + 1
        BY <2>2, <1>4
      <3>1. PICK j \in 1..Len(bs) : i = j + 1
        BY <3>0
      <3>2. j \in 1..Cardinality(req.av)
        BY <3>1, <1>2, <1>4, <1>6
      <3>3. (<<"grant">> \o BitNames(bs))[i] = KeyPermToSelinux(BitPerm(bs[j]))
        BY <3>1, <1>10
      <3>4. (<<"grant">> \o AscendingNames(req.av))[i] = KeyPermToSelinux(BitPerm(bs[j]))
        BY <3>1, <3>2, <1>6, <1>9
      <3>5. QED
        BY <3>3, <3>4
    <2>3. QED
      BY <2>1, <2>2
  <1>12. IsPrefix(<<"grant">> \o BitNames(bs), <<"grant">> \o AscendingNames(req.av))
    <2>1. Len(<<"grant">> \o BitNames(bs)) <= Len(<<"grant">> \o AscendingNames(req.av))
      <3>1. Len(bs) + 1 <= Cardinality(req.av) + 1
        BY <1>2, <1>4, <1>6
      <3>2. QED
        BY <3>1, <1>9, <1>10
    <2>2. \A i \in 1..Len(<<"grant">> \o BitNames(bs)) :
            (<<"grant">> \o BitNames(bs))[i] = (<<"grant">> \o AscendingNames(req.av))[i]
      BY <1>10, <1>11
    <2>3. QED
      BY <1>9, <1>10, <2>1, <2>2, PrefixByElems
  <1>13. QED
    BY <1>3, <1>8, <1>12

LEMMA InvQueryOrder == TypeInv /\ OrderInv => QueryOrder
  <1> SUFFICES ASSUME TypeInv, OrderInv PROVE QueryOrder
    OBVIOUS
  <1> USE ConstantsAssumption
  <1>1. \A i \in 1..(Len(log) - 1) : log[i].ans = "allow"
    BY DEF OrderInv
  <1>2. IsPrefix(QueryNames(log), ExpectedNames(req))
    <2>1. CASE req.op # "grant"
      BY <2>1 DEF OrderInv
    <2>2. CASE req.op = "grant" /\ log = <<>>
      <3>1. req \in Requests \cup {NoReq}
        BY DEF TypeInv, TypeOK
      <3>2. QED
        BY <2>2, <3>1, ExpectedType, PrefixTrivial, QueryNamesEmpty
    <2>3. CASE req.op = "grant" /\ log # <<>> /\ ~GrantHeld
      <3>1. GrantLogShape
        BY <2>3 DEF OrderInv
      <3>2. QED
        BY <2>3, <3>1, GrantLogPrefix
    <2>5. CASE req.op = "grant" /\ log # <<>> /\ GrantHeld
      <3>1. GrantLogShape /\ Len(log) <= 1 /\ log \in Seq(Queries)
        BY <2>5 DEF OrderInv, TypeInv, TypeOK
      <3>2. PICK bs \in Seq(BitPos) :
              QueryNames(log) = <<"grant">> \o BitNames(bs)
        BY <3>1 DEF GrantLogShape
      <3>3. bs \in Seq(Int)
        <4>1. BitPos \subseteq Int
          BY DEF BitPos
        <4>2. QED
          BY <3>2, <4>1, SeqMonotonic
      <3>4. Len(QueryNames(log)) = Len(bs) + 1 /\ Len(QueryNames(log)) = Len(log)
        BY <3>1, <3>2, <3>3, GrantNamesType, QueryNamesType
      <3>5. Len(log) # 0
        BY <2>5, <3>1, EmptySeq
      <3>6. bs = <<>>
        <4>1. Len(bs) = 0
          BY <3>1, <3>3, <3>4, <3>5, LenProperties
        <4>2. QED
          BY <4>1, <3>3, EmptySeq
      <3>7. QueryNames(log) = <<"grant">>
        BY <3>2, <3>6, GrantNamesEmpty
      <3>8. ExpectedNames(req) = <<"grant">>
        BY <2>5 DEF ExpectedNames, GrantHeld
      <3>9. <<"grant">> \in Seq(PermNames)
        BY GrantNameType DEF PermNames
      <3>10. QED
        BY <3>7, <3>8, <3>9, PrefixTrivial
    <2>4. QED
      BY <2>1, <2>2, <2>3, <2>5
  <1>3. QED
    BY <1>1, <1>2 DEF QueryOrder

(* Spec 4.2/4.3, for every value of the constants: check_keystore_         *)
(* permission, check_grant_permission and check_key_permission ask the     *)
(* backend in the order the spec fixes, the loop over access_vec by        *)
(* strictly ascending bit, nothing of a vector holding grant (it is        *)
(* refused before the loop), and nothing after the first answer that is    *)
(* not allow.                                                              *)
THEOREM QueryOrderHolds == Spec => []QueryOrder
  <1>1. Init => IInv /\ OrderInv
    BY InitTypeInv, InitOrderInv, ConstantsAssumption
       DEF IInv, Init, SoundInv, AllowOnlyIfAuthorized, TargetPCs
  <1>2. IInv /\ OrderInv /\ [Next]_vars => IInv' /\ OrderInv'
    BY StepTypeInv, StepSoundInv, StepOrderInv DEF IInv
  <1>3. IInv /\ OrderInv => QueryOrder
    BY InvQueryOrder DEF IInv
  <1>4. QED
    BY <1>1, <1>2, <1>3, PTL DEF Spec
-----------------------------------------------------------------------------
(* The first failure ends the call. *)

(* The condition FailureEndsCall puts on a step. *)
FailureStepOK ==
  Len(log') = Len(log) + 1 /\ log'[Len(log')].ans # "allow" =>
    pc' = "done" /\ result' # "ok"

(* A step that appends the answer ans and returns AccessResult(ans)       *)
(* unless ans is allow meets the condition.                               *)
LEMMA AppendStep ==
  ASSUME NEW q, NEW ans \in Answers, log \in Seq(Queries), log' = Append(log, q),
         q.ans = ans, ans # "allow" => pc' = "done" /\ result' = AccessResult(ans)
  PROVE  FailureStepOK
  <1>1. Len(log') = Len(log) + 1 /\ log'[Len(log')] = q
    BY LenProperties
  <1>2. QED
    BY <1>1, AccessResultOk DEF FailureStepOK

(* A step that leaves the log alone, or empties it, meets the condition.  *)
LEMMA NoAppendStep ==
  ASSUME log \in Seq(Queries), log' = log \/ log' = <<>>
  PROVE  FailureStepOK
  BY LenProperties, EmptySeq DEF FailureStepOK

LEMMA StepFailureEnds == TypeInv /\ [Next]_vars => FailureStepOK
  <1> SUFFICES ASSUME TypeInv, [Next]_vars PROVE FailureStepOK
    OBVIOUS
  <1>0. log \in Seq(Queries)
    BY DEF TypeInv, TypeOK
  <1>1. CASE CheckKeystorePermission
    <2>1. PICK t \in GetconOutcomes :
            \/ t = NoCtx /\ UNCHANGED log
            \/ \E ans \in Answers :
                 /\ log' = Append(log, Query(t, "keystore2",
                                             KeystorePermToSelinux(req.perm), ans))
                 /\ pc' = "done" /\ result' = AccessResult(ans)
      BY <1>1 DEF CheckKeystorePermission, Finish
    <2>2. CASE UNCHANGED log
      BY <1>0, <2>2, NoAppendStep
    <2>3. CASE ~UNCHANGED log
      <3>1. PICK ans \in Answers :
              /\ log' = Append(log, Query(t, "keystore2",
                                          KeystorePermToSelinux(req.perm), ans))
              /\ pc' = "done" /\ result' = AccessResult(ans)
        BY <2>1, <2>3
      <3>2. QED
        BY <1>0, <3>1, AppendStep DEF Query
    <2>4. QED
      BY <2>2, <2>3
  <1>2. CASE GrantCheckSelf
    <2>1. PICK ans \in Answers :
            /\ log' = Append(log, Query(tgt, "keystore2_key", "grant", ans))
            /\ ans # "allow" => pc' = "done" /\ result' = AccessResult(ans)
      BY <1>2 DEF GrantCheckSelf, Finish
    <2>2. QED
      BY <1>0, <2>1, AppendStep DEF Query
  <1>3. CASE GrantCheckBit
    <2>1. PICK ans \in Answers :
            /\ log' = Append(log, Query(tgt, "keystore2_key",
                                        KeyPermToSelinux(Yields(req.av, pos)), ans))
            /\ ans # "allow" => pc' = "done" /\ result' = AccessResult(ans)
      BY <1>3 DEF GrantCheckBit, Finish
    <2>2. QED
      BY <1>0, <2>1, AppendStep DEF Query
  <1>4. CASE KeyCheckManageBlob
    <2>1. PICK ans \in Answers :
            /\ log' = Append(log, Query(tgt, "keystore2_key",
                                        KeyPermToSelinux(KeyPerm_manage_blob), ans))
            /\ ans # "allow" => pc' = "done" /\ result' = AccessResult(ans)
      BY <1>4 DEF KeyCheckManageBlob, Finish
    <2>2. QED
      BY <1>0, <2>1, AppendStep DEF Query
  <1>5. CASE KeyCheckAccess
    <2>1. PICK ans \in Answers :
            /\ log' = Append(log, Query(tgt, "keystore2_key",
                                        KeyPermToSelinux(req.perm), ans))
            /\ pc' = "done" /\ result' = AccessResult(ans)
      BY <1>5 DEF KeyCheckAccess, Finish
    <2>2. QED
      BY <1>0, <2>1, AppendStep DEF Query
  <1>6. CASE Call \/ GrantResolveTarget \/ GrantSkipBit \/ GrantDone
             \/ KeyResolveTarget \/ Return \/ UNCHANGED vars
    <2>1. log' = log \/ log' = <<>>
      BY <1>6 DEF Call, GrantResolveTarget, GrantSkipBit, GrantDone,
                  KeyResolveTarget, Return, vars
    <2>2. QED
      BY <1>0, <2>1, NoAppendStep
  <1>7. QED
    BY <1>1, <1>2, <1>3, <1>4, <1>5, <1>6 DEF Next, Step

(* Spec 4.3, for every value of the constants: a check_access answer other *)
(* than allow ends check_keystore_permission, check_grant_permission or   *)
(* check_key_permission in the step that receives it, with an error.      *)
THEOREM FailureEnds == Spec => FailureEndsCall
  <1>1. Spec => []TypeInv
    <2>1. Init => TypeInv
      BY InitTypeInv
    <2>2. TypeInv /\ [Next]_vars => TypeInv'
      BY StepTypeInv
    <2>3. QED
      BY <2>1, <2>2, PTL DEF Spec
  <1>2. TypeInv /\ [Next]_vars => [FailureStepOK]_vars
    BY StepFailureEnds
  <1>3. QED
    BY <1>1, <1>2, PTL DEF Spec, FailureEndsCall, FailureStepOK
=============================================================================
