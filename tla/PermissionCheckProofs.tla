------------------------ MODULE PermissionCheckProofs ------------------------
(***************************************************************************)
(* Proofs about PermissionCheck, for every value of the constants that     *)
(* satisfies ConstantsAssumption.                                          *)
(***************************************************************************)
EXTENDS PermissionCheck, TLAPS

(* `1 << k` is never zero for an i32 and k in 0..31: IntoIter::next sees  *)
(* p != 0 exactly at the one bits of the set.                              *)
LEMMA Shl1NonZero ==
  ASSUME NEW k \in BitPos
  PROVE  Shl1(k) # 0
  <1>1. CASE k = 0 BY <1>1, SMT DEF Shl1
  <1>2. CASE k = 1 BY <1>2, SMT DEF Shl1
  <1>3. CASE k = 2 BY <1>3, SMT DEF Shl1
  <1>4. CASE k = 3 BY <1>4, SMT DEF Shl1
  <1>5. CASE k = 4 BY <1>5, SMT DEF Shl1
  <1>6. CASE k = 5 BY <1>6, SMT DEF Shl1
  <1>7. CASE k = 6 BY <1>7, SMT DEF Shl1
  <1>8. CASE k = 7 BY <1>8, SMT DEF Shl1
  <1>9. CASE k = 8 BY <1>9, SMT DEF Shl1
  <1>10. CASE k = 9 BY <1>10, SMT DEF Shl1
  <1>11. CASE k = 10 BY <1>11, SMT DEF Shl1
  <1>12. CASE k = 11 BY <1>12, SMT DEF Shl1
  <1>13. CASE k = 12 BY <1>13, SMT DEF Shl1
  <1>14. CASE k = 13 BY <1>14, SMT DEF Shl1
  <1>15. CASE k = 14 BY <1>15, SMT DEF Shl1
  <1>16. CASE k = 15 BY <1>16, SMT DEF Shl1
  <1>17. CASE k = 16 BY <1>17, SMT DEF Shl1
  <1>18. CASE k = 17 BY <1>18, SMT DEF Shl1
  <1>19. CASE k = 18 BY <1>19, SMT DEF Shl1
  <1>20. CASE k = 19 BY <1>20, SMT DEF Shl1
  <1>21. CASE k = 20 BY <1>21, SMT DEF Shl1
  <1>22. CASE k = 21 BY <1>22, SMT DEF Shl1
  <1>23. CASE k = 22 BY <1>23, SMT DEF Shl1
  <1>24. CASE k = 23 BY <1>24, SMT DEF Shl1
  <1>25. CASE k = 24 BY <1>25, SMT DEF Shl1
  <1>26. CASE k = 25 BY <1>26, SMT DEF Shl1
  <1>27. CASE k = 26 BY <1>27, SMT DEF Shl1
  <1>28. CASE k = 27 BY <1>28, SMT DEF Shl1
  <1>29. CASE k = 28 BY <1>29, SMT DEF Shl1
  <1>30. CASE k = 29 BY <1>30, SMT DEF Shl1
  <1>31. CASE k = 30 BY <1>31, SMT DEF Shl1
  <1>32. CASE k = 31 BY <1>32, SMT DEF Shl1
  <1>33. QED BY <1>1, <1>2, <1>3, <1>4, <1>5, <1>6, <1>7, <1>8, <1>9, <1>10, <1>11, <1>12, <1>13, <1>14, <1>15, <1>16, <1>17, <1>18, <1>19, <1>20, <1>21, <1>22, <1>23, <1>24, <1>25, <1>26, <1>27, <1>28, <1>29, <1>30, <1>31, <1>32 DEF BitPos

LEMMA ProbeNonZero ==
  ASSUME NEW v \in KeyPermSets, NEW k \in BitPos
  PROVE  Probe(v, k) # 0 <=> k \in v
  BY Shl1NonZero DEF Probe

(* Yields always decodes to a KeyPerm (From<i32> is total).                *)
LEMMA YieldsType ==
  ASSUME NEW v, NEW k
  PROVE  Yields(v, k) \in KeyPerms
  BY DEF Yields, KeyPermFrom, KeyPerms, KeyPermCodes, KeyPermNone, KeyPermNames, KeyPermCode

-----------------------------------------------------------------------------
(* Type correctness. *)

LEMMA InitTypeInv == Init => TypeInv
  BY DEF Init, TypeInv, TypeOK, PCs, NoReq, NoResult, Results, IterEnd,
         GrantPCs, KeyPCs, TargetPCs

(* The check_access queries a step appends are well typed. *)
LEMMA QueryType ==
  ASSUME ConstantsAssumption,
         NEW r \in Requests, NEW t \in Contexts, NEW c \in Classes,
         NEW n \in KeyPermNames \cup KeystorePermNames, NEW a \in Answers,
         req = r
  PROVE  Query(t, c, n, a) \in Queries
  BY DEF Query, Queries, Requests, KeystoreReqs, GrantReqs, KeyReqs

LEMMA AccessResultType ==
  ASSUME NEW a \in Answers
  PROVE  AccessResult(a) \in Results
  BY DEF AccessResult, Answers, Results

LEMMA KeyNameType ==
  ASSUME NEW p \in KeyPerms
  PROVE  KeyPermToSelinux(p) \in KeyPermNames
  BY DEF KeyPermToSelinux, KeyPerms

LEMMA GrantNameType == "grant" \in KeyPermNames /\ "manage_blob" \in KeyPermNames
  BY DEF KeyPermNames, KeyPermCode


LEMMA StepTypeInv == TypeInv /\ [Next]_vars => TypeInv'
  <1> SUFFICES ASSUME TypeInv, [Next]_vars PROVE TypeInv'
    OBVIOUS
  <1> USE ConstantsAssumption
  <1> USE DEF TypeInv, TypeOK, PCs, GrantPCs, KeyPCs, TargetPCs, Results, IterEnd,
              Answers, Classes
  <1>1. CASE Call
    <2>1. PICK r \in Requests :
            /\ req' = r
            /\ pc' = Entry[r.op]
      BY <1>1 DEF Call
    <2>2. CASE r \in KeystoreReqs
      <3>1. pc' = "keystore"
        BY <2>1, <2>2 DEF KeystoreReqs, Entry
      <3>2. QED BY <1>1, <2>1, <2>2, <3>1 DEF Call, Requests
    <2>3. CASE r \in GrantReqs
      <3>1. pc' = "grant_resolve"
        BY <2>1, <2>3 DEF GrantReqs, Entry
      <3>2. QED BY <1>1, <2>1, <2>3, <3>1 DEF Call, Requests
    <2>4. CASE r \in KeyReqs
      <3>0. r.op = "key"
        BY <2>4 DEF KeyReqs
      <3>1. pc' = "key_resolve"
        BY <2>1, <3>0 DEF Entry
      <3>2. QED BY <1>1, <2>1, <2>4, <3>1 DEF Call, Requests
    <2>5. QED BY <2>2, <2>3, <2>4 DEF Requests
  <1>2. CASE CheckKeystorePermission
    <2>1. PICK t \in GetconOutcomes :
            \/ t = NoCtx /\ Finish("backend") /\ UNCHANGED log
            \/ /\ t # NoCtx
               /\ \E ans \in Answers :
                    /\ log' = Append(log, Query(t, "keystore2",
                                                KeystorePermToSelinux(req.perm), ans))
                    /\ Finish(AccessResult(ans))
      BY <1>2 DEF CheckKeystorePermission
    <2>2. KeystorePermToSelinux(req.perm) \in KeystorePermNames
      BY <1>2 DEF CheckKeystorePermission, KeystoreReqs, KeystorePermToSelinux, KeystorePerms
    <2>3. t # NoCtx => t \in Contexts
      BY DEF GetconOutcomes, Contexts
    <2>4. req \in Requests
      BY <1>2 DEF CheckKeystorePermission, Requests
    <2>5. CASE t = NoCtx
      BY <1>2, <2>1, <2>4, <2>5 DEF CheckKeystorePermission, Finish
    <2>6. CASE t # NoCtx
      <3>1. PICK ans \in Answers :
              /\ log' = Append(log, Query(t, "keystore2",
                                          KeystorePermToSelinux(req.perm), ans))
              /\ Finish(AccessResult(ans))
        BY <2>1, <2>6
      <3>2. Query(t, "keystore2", KeystorePermToSelinux(req.perm), ans) \in Queries
        BY <2>2, <2>3, <2>4, <2>6, QueryType
      <3>3. QED
        BY <1>2, <2>4, <3>1, <3>2, AccessResultType DEF CheckKeystorePermission, Finish
    <2>7. QED
      BY <2>5, <2>6
  <1>3. CASE GrantResolveTarget
    <2>1. LookupOutcomes(req.ns) \ {NoCtx} \subseteq Contexts
      BY <1>3 DEF GrantResolveTarget, GrantReqs, LookupOutcomes, Contexts
    <2>2. GetconOutcomes \ {NoCtx} \subseteq Contexts
      BY DEF GetconOutcomes, Contexts
    <2>3. QED
      BY <1>3, <2>1, <2>2 DEF GrantResolveTarget, Finish, Requests
  <1>4. CASE GrantCheckSelf
    <2>1. PICK ans \in Answers :
            /\ log' = Append(log, Query(tgt, "keystore2_key", "grant", ans))
            /\ \/ ans # "allow" /\ Finish(AccessResult(ans)) /\ UNCHANGED pos
               \/ /\ ans = "allow"
                  /\ Includes(req.av, FromKeyPerm(KeyPerm_grant))
                  /\ Finish("perm")
                  /\ UNCHANGED pos
               \/ /\ ans = "allow"
                  /\ ~Includes(req.av, FromKeyPerm(KeyPerm_grant))
                  /\ pc' = "grant_loop"
                  /\ pos' = 0
                  /\ UNCHANGED result
      BY <1>4 DEF GrantCheckSelf
    <2>2. Query(tgt, "keystore2_key", "grant", ans) \in Queries
      BY <1>4, GrantNameType, QueryType DEF GrantCheckSelf, Requests, Classes
    <2>3. QED
      BY <1>4, <2>1, <2>2 DEF GrantCheckSelf, Finish, AccessResult, Requests
  <1>5. CASE GrantSkipBit
    BY <1>5 DEF GrantSkipBit
  <1>6. CASE GrantCheckBit
    <2>1. PICK ans \in Answers :
            /\ log' = Append(log, Query(tgt, "keystore2_key",
                                        KeyPermToSelinux(Yields(req.av, pos)), ans))
            /\ \/ ans # "allow" /\ Finish(AccessResult(ans))
               \/ ans = "allow" /\ UNCHANGED <<pc, result>>
      BY <1>6 DEF GrantCheckBit
    <2>2. KeyPermToSelinux(Yields(req.av, pos)) \in KeyPermNames
      BY YieldsType, KeyNameType
    <2>3. Query(tgt, "keystore2_key", KeyPermToSelinux(Yields(req.av, pos)), ans)
            \in Queries
      BY <1>6, <2>2, QueryType DEF GrantCheckBit, Requests, Classes
    <2>4. pos' \in 0..IterEnd
      BY <1>6 DEF GrantCheckBit
    <2>5. CASE ans # "allow"
      BY <1>6, <2>1, <2>3, <2>4, <2>5 DEF GrantCheckBit, Finish, AccessResult, Requests
    <2>6. CASE ans = "allow"
      BY <1>6, <2>1, <2>3, <2>4, <2>6 DEF GrantCheckBit
    <2>7. QED
      BY <2>5, <2>6
  <1>7. CASE GrantDone
    BY <1>7 DEF GrantDone, Finish, Requests
  <1>8. CASE KeyResolveTarget
    <2>1. LookupOutcomes(req.ns) \ {NoCtx} \subseteq Contexts
      BY <1>8 DEF KeyResolveTarget, KeyReqs, LookupOutcomes, Contexts
    <2>2. GetconOutcomes \ {NoCtx} \subseteq Contexts
      BY DEF GetconOutcomes, Contexts
    <2>3. QED
      BY <1>8, <2>1, <2>2 DEF KeyResolveTarget, Finish, Requests
  <1>9. CASE KeyCheckManageBlob
    <2>1. PICK ans \in Answers :
            /\ log' = Append(log, Query(tgt, "keystore2_key",
                                        KeyPermToSelinux(KeyPerm_manage_blob), ans))
            /\ \/ ans # "allow" /\ Finish(AccessResult(ans))
               \/ ans = "allow" /\ pc' = "key_check" /\ UNCHANGED result
      BY <1>9 DEF KeyCheckManageBlob
    <2>2. KeyPermToSelinux(KeyPerm_manage_blob) \in KeyPermNames
      BY KeyNameType DEF KeyPerm_manage_blob, KeyPerms, KeyPermNames, KeyPermCode
    <2>3. Query(tgt, "keystore2_key", KeyPermToSelinux(KeyPerm_manage_blob), ans)
            \in Queries
      BY <1>9, <2>2, QueryType DEF KeyCheckManageBlob, Requests, Classes
    <2>4. QED
      BY <1>9, <2>1, <2>3 DEF KeyCheckManageBlob, Finish, AccessResult, Requests
  <1>10. CASE KeyCheckAccess
    <2>1. PICK ans \in Answers :
            /\ log' = Append(log, Query(tgt, "keystore2_key",
                                        KeyPermToSelinux(req.perm), ans))
            /\ Finish(AccessResult(ans))
      BY <1>10 DEF KeyCheckAccess
    <2>2. KeyPermToSelinux(req.perm) \in KeyPermNames
      BY <1>10, KeyNameType DEF KeyCheckAccess, KeyReqs
    <2>3. Query(tgt, "keystore2_key", KeyPermToSelinux(req.perm), ans) \in Queries
      BY <1>10, <2>2, QueryType DEF KeyCheckAccess, Requests, Classes
    <2>4. QED
      BY <1>10, <2>1, <2>3 DEF KeyCheckAccess, Finish, AccessResult, Requests
  <1>11. CASE Return
    BY <1>11 DEF Return, NoReq, NoResult
  <1>12. CASE UNCHANGED vars
    BY <1>12 DEF vars
  <1>13. QED
    BY <1>1, <1>2, <1>3, <1>4, <1>5, <1>6, <1>7, <1>8, <1>9, <1>10, <1>11, <1>12
    DEF Next, Step

(* Type correctness of the three decision functions. *)
THEOREM TypeCorrect == Spec => []TypeOK
  <1>1. TypeInv => TypeOK
    BY DEF TypeInv
  <1>2. QED
    BY InitTypeInv, StepTypeInv, <1>1, PTL DEF Spec

-----------------------------------------------------------------------------
(* Soundness. *)

(* Appending a query to the log keeps every earlier "allow", and the       *)
(* appended query counts when it is the allow record of r.                 *)
LEMMA AllowedAppend ==
  ASSUME NEW r, NEW c, NEW n, NEW q, NEW s \in Seq(Queries)
  PROVE  /\ AllowedIn(s, r, c, n) => AllowedIn(Append(s, q), r, c, n)
         /\ AllowedIn(Append(s, AllowRecord(r, c, n)), r, c, n)
  BY DEF AllowedIn

LEMMA AccessResultOk ==
  ASSUME NEW a \in Answers
  PROVE  AccessResult(a) = "ok" <=> a = "allow"
  BY DEF AccessResult, Answers

(* The query a step appends is the allow record of the request when the    *)
(* target is the expected one and the backend allowed.                     *)
LEMMA QueryAllow ==
  ASSUME NEW t, NEW c, NEW n, t = ExpectedTarget(req)
  PROVE  Query(t, c, n, "allow") = AllowRecord(req, c, n)
  BY DEF Query, AllowRecord

LEMMA EntryPCs ==
  ASSUME NEW r \in Requests
  PROVE  Entry[r.op] \in {"keystore", "grant_resolve", "key_resolve"}
  <1>1. CASE r \in KeystoreReqs
    <2>1. r.op = "keystore" BY <1>1 DEF KeystoreReqs
    <2>2. QED BY <2>1 DEF Entry
  <1>2. CASE r \in GrantReqs
    <2>1. r.op = "grant" BY <1>2 DEF GrantReqs
    <2>2. QED BY <2>1 DEF Entry
  <1>3. CASE r \in KeyReqs
    <2>1. r.op = "key" BY <1>3 DEF KeyReqs
    <2>2. QED BY <2>1 DEF Entry
  <1>4. QED BY <1>1, <1>2, <1>3 DEF Requests

(* A step that ends the call with any result but Ok establishes SoundInv,  *)
(* as does one that leaves pc outside the states SoundInv speaks of.       *)
LEMMA FinishNotOk ==
  ASSUME pc' = "done", result' # "ok"
  PROVE  SoundInv'
  BY DEF SoundInv, AllowOnlyIfAuthorized, TargetPCs

LEMMA FinishOk ==
  ASSUME pc' = "done", Authorized(req)'
  PROVE  SoundInv'
  BY DEF SoundInv, AllowOnlyIfAuthorized, TargetPCs

LEMMA OutsidePCs ==
  ASSUME pc' \in {"idle", "keystore", "grant_resolve", "key_resolve"}
  PROVE  SoundInv'
  BY DEF SoundInv, AllowOnlyIfAuthorized, TargetPCs

(* The target the match on key.domain resolves is the expected one.        *)
LEMMA ResolvedTarget ==
  ASSUME ConstantsAssumption, NEW r, r.op # "keystore",
         r.domain \in {"App", "SELinux", "Blob"},
         NEW t \in (IF r.domain = "App" THEN GetconOutcomes
                                        ELSE LookupOutcomes(r.ns)),
         t # NoCtx
  PROVE  t = ExpectedTarget(r)
  BY DEF GetconOutcomes, LookupOutcomes, ExpectedTarget

LEMMA StepSoundInv == IInv /\ [Next]_vars => SoundInv'
  <1> SUFFICES ASSUME TypeInv, SoundInv, [Next]_vars PROVE SoundInv'
    BY DEF IInv
  <1> USE ConstantsAssumption
  <1>1. CASE Call
    <2>1. PICK r \in Requests : pc' = Entry[r.op]
      BY <1>1 DEF Call
    <2>2. QED BY <2>1, EntryPCs, OutsidePCs
  <1>2. CASE CheckKeystorePermission
    <2>1. req \in KeystoreReqs
      BY <1>2 DEF CheckKeystorePermission, TypeInv
    <2>2. PICK t \in GetconOutcomes :
            \/ t = NoCtx /\ Finish("backend") /\ UNCHANGED log
            \/ /\ t # NoCtx
               /\ \E ans \in Answers :
                    /\ log' = Append(log, Query(t, "keystore2",
                                                KeystorePermToSelinux(req.perm), ans))
                    /\ Finish(AccessResult(ans))
      BY <1>2 DEF CheckKeystorePermission
    <2>3. CASE t = NoCtx
      BY <2>2, <2>3, FinishNotOk DEF Finish
    <2>4. CASE t # NoCtx
      <3>1. PICK ans \in Answers :
              /\ log' = Append(log, Query(t, "keystore2",
                                          KeystorePermToSelinux(req.perm), ans))
              /\ Finish(AccessResult(ans))
        BY <2>2, <2>4
      <3>2. CASE ans # "allow"
        BY <3>1, <3>2, AccessResultOk, FinishNotOk DEF Finish
      <3>3. CASE ans = "allow"
        <4>1. t = ExpectedTarget(req)
          BY <2>1, <2>4 DEF GetconOutcomes, ExpectedTarget, KeystoreReqs
        <4>3. req' = req
          BY <1>2 DEF CheckKeystorePermission
        <4>2. AllowedIn(log', req, "keystore2", KeystorePermToSelinux(req.perm))
          <5>1. log' = Append(log, AllowRecord(req, "keystore2", KeystorePermToSelinux(req.perm)))
            BY <3>1, <3>3, <4>1, QueryAllow
          <5>2. QED BY <4>3, <5>1, AllowedAppend DEF Allowed, TypeInv, TypeOK
        <4>4. req.op = "keystore"
          BY <2>1 DEF KeystoreReqs
        <4>5. Authorized(req)'
          BY <4>2, <4>3, <4>4 DEF Authorized, Allowed
        <4>6. QED BY <3>1, <4>5, FinishOk DEF Finish
      <3>4. QED BY <3>2, <3>3
    <2>5. QED BY <2>3, <2>4
  <1>3. CASE GrantResolveTarget
    <2>1. req \in GrantReqs /\ req' = req /\ log' = log
      BY <1>3 DEF GrantResolveTarget, TypeInv, GrantPCs
    <2>2. CASE req.domain \in {"App", "SELinux"}
      <3>1. PICK t \in IF req.domain = "App" THEN GetconOutcomes
                                             ELSE LookupOutcomes(req.ns) :
              \/ t = NoCtx /\ Finish("backend") /\ UNCHANGED tgt
              \/ t # NoCtx /\ tgt' = t /\ pc' = "grant_self" /\ UNCHANGED result
        BY <1>3, <2>2 DEF GrantResolveTarget
      <3>2. CASE t = NoCtx
        BY <3>1, <3>2, FinishNotOk DEF Finish
      <3>3. CASE t # NoCtx
        <4>1. t = ExpectedTarget(req)
          BY <2>1, <2>2, <3>3, ResolvedTarget DEF GrantReqs
        <4>2. QED
          BY <2>1, <2>2, <3>1, <3>3, <4>1 DEF SoundInv, TargetPCs, ExpectedTarget, Allowed, AllowOnlyIfAuthorized
      <3>4. QED BY <3>2, <3>3
    <2>3. CASE req.domain \notin {"App", "SELinux"}
      BY <1>3, <2>3, FinishNotOk DEF GrantResolveTarget, Finish
    <2>4. QED BY <2>2, <2>3
  <1>4. CASE GrantCheckSelf
    <2>1. req \in GrantReqs /\ req' = req /\ tgt' = tgt
      BY <1>4 DEF GrantCheckSelf, TypeInv, GrantPCs
    <2>2. PICK ans \in Answers :
            /\ log' = Append(log, Query(tgt, "keystore2_key", "grant", ans))
            /\ \/ ans # "allow" /\ Finish(AccessResult(ans)) /\ UNCHANGED pos
               \/ /\ ans = "allow"
                  /\ Includes(req.av, FromKeyPerm(KeyPerm_grant))
                  /\ Finish("perm")
                  /\ UNCHANGED pos
               \/ /\ ans = "allow"
                  /\ ~Includes(req.av, FromKeyPerm(KeyPerm_grant))
                  /\ pc' = "grant_loop"
                  /\ pos' = 0
                  /\ UNCHANGED result
      BY <1>4 DEF GrantCheckSelf
    <2>3. CASE ans # "allow"
      BY <2>2, <2>3, AccessResultOk, FinishNotOk DEF Finish
    <2>4. CASE ans = "allow" /\ Includes(req.av, FromKeyPerm(KeyPerm_grant))
      BY <2>2, <2>4, FinishNotOk DEF Finish
    <2>5. CASE ans = "allow" /\ ~Includes(req.av, FromKeyPerm(KeyPerm_grant))
      <3>1. /\ pc' = "grant_loop" /\ pos' = 0
            /\ log' = Append(log, Query(tgt, "keystore2_key", "grant", "allow"))
        BY <2>2, <2>5
      <3>2. tgt = ExpectedTarget(req) /\ req.domain \in {"App", "SELinux"}
        BY <1>4 DEF GrantCheckSelf, SoundInv, TargetPCs, Allowed, AllowOnlyIfAuthorized
      <3>3. AllowedIn(log', req, "keystore2_key", "grant")
        BY <2>1, <3>1, <3>2, QueryAllow, AllowedAppend DEF Allowed, TypeInv, TypeOK
      <3>4. \A k \in req.av : ~(k < 0)
        BY <2>1, ConstantsAssumption DEF GrantReqs, KeyPermSets, BitPos
      <3>5. QED
        BY <2>1, <2>5, <3>1, <3>2, <3>3, <3>4 DEF SoundInv, TargetPCs, Allowed, AllowOnlyIfAuthorized
    <2>6. QED BY <2>3, <2>4, <2>5
  <1>5. CASE GrantSkipBit
    <2>1. /\ req \in GrantReqs /\ req' = req /\ tgt' = tgt /\ log' = log
          /\ pc' = "grant_loop" /\ pc = "grant_loop" /\ result' = result
          /\ pos \in BitPos /\ pos' = pos + 1
      BY <1>5 DEF GrantSkipBit, TypeInv, TypeOK, GrantPCs, IterEnd, BitPos
    <2>2. pos \notin req.av
      BY <1>5, <2>1, ProbeNonZero, ConstantsAssumption DEF GrantSkipBit, GrantReqs
    <2>3. \A k \in req.av : k < pos + 1 => k < pos
      BY <2>1, <2>2, ConstantsAssumption DEF GrantReqs, KeyPermSets, BitPos
    <2>4. ASSUME NEW c, NEW n PROVE AllowedIn(log', req, c, n) <=> AllowedIn(log, req, c, n)
      BY <2>1 DEF Allowed
    <2>5. QED
      BY <2>1, <2>3, <2>4 DEF SoundInv, TargetPCs, Allowed, AllowOnlyIfAuthorized
  <1>6. CASE GrantCheckBit
    <2>1. /\ req \in GrantReqs /\ req' = req /\ tgt' = tgt
          /\ pc = "grant_loop" /\ pos \in BitPos /\ pos' = pos + 1
      BY <1>6 DEF GrantCheckBit, TypeInv, TypeOK, GrantPCs, IterEnd, BitPos
    <2>2. PICK ans \in Answers :
            /\ log' = Append(log, Query(tgt, "keystore2_key",
                                        KeyPermToSelinux(Yields(req.av, pos)), ans))
            /\ \/ ans # "allow" /\ Finish(AccessResult(ans))
               \/ ans = "allow" /\ UNCHANGED <<pc, result>>
      BY <1>6 DEF GrantCheckBit
    <2>3. CASE ans # "allow"
      BY <2>2, <2>3, AccessResultOk, FinishNotOk DEF Finish
    <2>4. CASE ans = "allow"
      <3>1. tgt = ExpectedTarget(req)
        BY <2>1 DEF SoundInv, TargetPCs, Allowed, AllowOnlyIfAuthorized
      <3>2. ASSUME NEW c, NEW n PROVE AllowedIn(log, req, c, n) => AllowedIn(log', req, c, n)
        BY <2>2, AllowedAppend DEF Allowed, TypeInv, TypeOK
      <3>3. AllowedIn(log', req, "keystore2_key", KeyPermToSelinux(Yields(req.av, pos)))
        BY <2>2, <2>4, <3>1, QueryAllow, AllowedAppend DEF Allowed, TypeInv, TypeOK
      <3>4. ASSUME NEW k \in req.av, k < pos + 1
            PROVE  AllowedIn(log', req, "keystore2_key", KeyPermToSelinux(BitPerm(k)))
        <4>1. CASE k = pos
          <5>1. Yields(req.av, pos) = BitPerm(pos)
            BY <3>4, <4>1 DEF Yields, Probe, BitPerm
          <5>2. QED BY <3>3, <4>1, <5>1
        <4>2. CASE k # pos
          <5>1. k < pos
            BY <2>1, <3>4, <4>2, ConstantsAssumption DEF GrantReqs, KeyPermSets, BitPos
          <5>2. QED BY <2>1, <3>2, <5>1 DEF SoundInv, Allowed, AllowOnlyIfAuthorized
        <4>3. QED BY <4>1, <4>2
      <3>5. pc' = "grant_loop" /\ result' = result
        BY <2>1, <2>2, <2>4
      <3>6. QED
        BY <2>1, <3>2, <3>4, <3>5 DEF SoundInv, TargetPCs, Allowed, AllowOnlyIfAuthorized
    <2>5. QED BY <2>3, <2>4
  <1>7. CASE GrantDone
    <2>1. /\ req \in GrantReqs /\ req' = req /\ log' = log /\ pc = "grant_loop"
          /\ pos = IterEnd /\ pc' = "done"
      BY <1>7 DEF GrantDone, Finish, TypeInv, GrantPCs
    <2>2. \A k \in req.av : k < pos
      BY <2>1, ConstantsAssumption DEF GrantReqs, KeyPermSets, BitPos, IterEnd
    <2>3. ASSUME NEW c, NEW n PROVE AllowedIn(log', req, c, n) <=> AllowedIn(log, req, c, n)
      BY <2>1 DEF Allowed
    <2>4. req.op = "grant"
      BY <2>1 DEF GrantReqs
    <2>5. Authorized(req)'
      BY <2>1, <2>2, <2>3, <2>4 DEF SoundInv, Authorized, Allowed, AllowOnlyIfAuthorized
    <2>6. QED BY <2>1, <2>5, FinishOk
  <1>8. CASE KeyResolveTarget
    <2>1. /\ req \in KeyReqs /\ req' = req /\ log' = log /\ pc = "key_resolve"
          /\ req.op = "key"
      BY <1>8 DEF KeyResolveTarget, TypeInv, KeyPCs, KeyReqs
    <2>2. CASE req.domain \in {"App", "SELinux", "Blob"}
      <3>1. PICK t \in IF req.domain = "App" THEN GetconOutcomes
                                             ELSE LookupOutcomes(req.ns) :
              \/ t = NoCtx /\ Finish("backend") /\ UNCHANGED tgt
              \/ /\ t # NoCtx
                 /\ tgt' = t
                 /\ pc' = IF req.domain = "Blob" THEN "key_blob" ELSE "key_check"
                 /\ UNCHANGED result
        BY <1>8, <2>2 DEF KeyResolveTarget
      <3>2. CASE t = NoCtx
        BY <3>1, <3>2, FinishNotOk DEF Finish
      <3>3. CASE t # NoCtx
        <4>1. t = ExpectedTarget(req)
          BY <2>1, <2>2, <3>3, ResolvedTarget
        <4>2. QED
          BY <2>1, <2>2, <3>1, <3>3, <4>1 DEF SoundInv, TargetPCs, ExpectedTarget, Allowed, AllowOnlyIfAuthorized
      <3>4. QED BY <3>2, <3>3
    <2>3. CASE req.domain = "Grant" /\ req.hasAv /\ Includes(req.av, FromKeyPerm(req.perm))
      <3>1. pc' = "done"
        BY <1>8, <2>3 DEF KeyResolveTarget, Finish
      <3>2. Authorized(req)'
        BY <2>1, <2>3 DEF Authorized, Allowed
      <3>3. QED BY <3>1, <3>2, FinishOk
    <2>4. CASE ~(req.domain \in {"App", "SELinux", "Blob"}) /\
               ~(req.domain = "Grant" /\ req.hasAv /\ Includes(req.av, FromKeyPerm(req.perm)))
      BY <1>8, <2>4, FinishNotOk DEF KeyResolveTarget, Finish
    <2>5. QED BY <2>2, <2>3, <2>4
  <1>9. CASE KeyCheckManageBlob
    <2>1. /\ req' = req /\ tgt' = tgt /\ pc = "key_blob"
      BY <1>9 DEF KeyCheckManageBlob
    <2>2. PICK ans \in Answers :
            /\ log' = Append(log, Query(tgt, "keystore2_key",
                                        KeyPermToSelinux(KeyPerm_manage_blob), ans))
            /\ \/ ans # "allow" /\ Finish(AccessResult(ans))
               \/ ans = "allow" /\ pc' = "key_check" /\ UNCHANGED result
      BY <1>9 DEF KeyCheckManageBlob
    <2>3. CASE ans # "allow"
      BY <2>2, <2>3, AccessResultOk, FinishNotOk DEF Finish
    <2>4. CASE ans = "allow"
      <3>1. tgt = ExpectedTarget(req) /\ req.domain = "Blob"
        BY <2>1 DEF SoundInv, TargetPCs, Allowed, AllowOnlyIfAuthorized
      <3>2. AllowedIn(log', req, "keystore2_key", KeyPermToSelinux(KeyPerm_manage_blob))
        BY <2>2, <2>4, <3>1, QueryAllow, AllowedAppend DEF Allowed, TypeInv, TypeOK
      <3>3. QED
        BY <2>1, <2>2, <2>4, <3>1, <3>2 DEF SoundInv, TargetPCs, Allowed, AllowOnlyIfAuthorized
    <2>5. QED BY <2>3, <2>4
  <1>10. CASE KeyCheckAccess
    <2>1. /\ req \in KeyReqs /\ req' = req /\ tgt' = tgt /\ pc = "key_check"
          /\ req.op = "key"
      BY <1>10 DEF KeyCheckAccess, TypeInv, KeyPCs, KeyReqs
    <2>2. PICK ans \in Answers :
            /\ log' = Append(log, Query(tgt, "keystore2_key",
                                        KeyPermToSelinux(req.perm), ans))
            /\ Finish(AccessResult(ans))
      BY <1>10 DEF KeyCheckAccess
    <2>3. CASE ans # "allow"
      BY <2>2, <2>3, AccessResultOk, FinishNotOk DEF Finish
    <2>4. CASE ans = "allow"
      <3>1. tgt = ExpectedTarget(req) /\ req.domain \in {"App", "SELinux", "Blob"}
        BY <2>1 DEF SoundInv, TargetPCs, Allowed, AllowOnlyIfAuthorized
      <3>2. AllowedIn(log', req, "keystore2_key", KeyPermToSelinux(req.perm))
        BY <2>2, <2>4, <3>1, QueryAllow, AllowedAppend DEF Allowed, TypeInv, TypeOK
      <3>3. req.domain = "Blob" =>
              AllowedIn(log', req, "keystore2_key", KeyPermToSelinux(KeyPerm_manage_blob))
        BY <2>1, <2>2, AllowedAppend DEF Allowed, SoundInv, TypeInv, TypeOK, AllowOnlyIfAuthorized
      <3>4. Authorized(req)'
        BY <2>1, <3>1, <3>2, <3>3 DEF Authorized, Allowed
      <3>5. QED BY <2>2, <3>4, FinishOk DEF Finish
    <2>5. QED BY <2>3, <2>4
  <1>11. CASE Return
    BY <1>11, OutsidePCs DEF Return
  <1>12. CASE UNCHANGED vars
    BY <1>12 DEF vars, SoundInv, AllowOnlyIfAuthorized, Authorized, Allowed
  <1>13. QED
    BY <1>1, <1>2, <1>3, <1>4, <1>5, <1>6, <1>7, <1>8, <1>9, <1>10, <1>11, <1>12
    DEF Next, Step

(* Soundness of check_keystore_permission, check_grant_permission and      *)
(* check_key_permission: in every behaviour, whenever a call returns Ok,   *)
(* the backend allowed every check the request needs, against the right    *)
(* target (AllowOnlyIfAuthorized), for every set of callers, contexts,     *)
(* namespaces and requests.                                                *)
THEOREM Soundness == Spec => []AllowOnlyIfAuthorized
  <1>1. Init => IInv
    BY InitTypeInv DEF Init, IInv, SoundInv, AllowOnlyIfAuthorized, TargetPCs
  <1>2. IInv /\ [Next]_vars => IInv'
    BY StepTypeInv, StepSoundInv DEF IInv
  <1>3. IInv => AllowOnlyIfAuthorized
    BY DEF IInv, SoundInv
  <1>4. QED
    BY <1>1, <1>2, <1>3, PTL DEF Spec

=============================================================================
