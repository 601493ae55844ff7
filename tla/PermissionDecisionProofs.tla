----------------------- MODULE PermissionDecisionProofs -----------------------
(***************************************************************************)
(* Proofs that the error kinds of the three decision functions are right   *)
(* (ErrorsClassified) and that PermissionCheck implements the atomic       *)
(* decision of PermissionDecision, for every value of the constants that  *)
(* satisfies ConstantsAssumption.  Both rest on IInv, proved inductive in  *)
(* PermissionCheckProofs, and on DecisionInv.                              *)
(***************************************************************************)
EXTENDS PermissionRefinement, PermissionCheckProofs

(* Appending a query the request needs keeps every query needed. *)
LEMMA NeededAppend ==
  ASSUME NEW s \in Seq(Queries), NEW r, NEW q \in Queries,
         AskedOnlyNeeded(s, r), <<q.class, q.perm>> \in Needed(r)
  PROVE  AskedOnlyNeeded(Append(s, q), r)
  BY DEF AskedOnlyNeeded

(* The last answer of a log that a query was just appended to. *)
LEMMA LastAppend ==
  ASSUME NEW s \in Seq(Queries), NEW q
  PROVE  /\ Append(s, q) # <<>>
         /\ Append(s, q)[Len(Append(s, q))] = q
  OBVIOUS

(* Every step but Return and the stutter leaves the request alone. *)
LEMMA StepKeepsReq ==
  ASSUME Step
  PROVE  req' = req
  BY DEF Step, CheckKeystorePermission, GrantResolveTarget, GrantCheckSelf,
         GrantSkipBit, GrantCheckBit, GrantDone, KeyResolveTarget,
         KeyCheckManageBlob, KeyCheckAccess

LEMMA InitDecisionInv == Init => DecisionInv
  BY DEF Init, DecisionInv, LastDenied, AskedOnlyNeeded, ErrorsClassified

(* A step that ends the call establishes DecisionInv when its result is    *)
(* classified correctly; one that leaves the call running, when no answer  *)
(* so far was a denial.                                                    *)
LEMMA FinishDecision ==
  ASSUME pc' = "done", AskedOnlyNeeded(log', req'), ErrorsClassified'
  PROVE  DecisionInv'
  BY DEF DecisionInv

LEMMA RunningDecision ==
  ASSUME pc' \notin {"idle", "keystore", "grant_resolve", "key_resolve", "done"},
         AskedOnlyNeeded(log', req'), ~LastDenied'
  PROVE  DecisionInv'
  BY DEF DecisionInv, ErrorsClassified

LEMMA StepDecisionInv == IInv /\ DecisionInv /\ [Next]_vars => DecisionInv'
  <1> SUFFICES ASSUME TypeInv, SoundInv, DecisionInv, [Next]_vars
               PROVE  DecisionInv'
    BY DEF IInv
  <1> USE ConstantsAssumption
  <1>1. CASE Call
    <2>1. PICK r \in Requests : pc' = Entry[r.op]
      BY <1>1 DEF Call
    <2>2. log' = <<>>
      BY <1>1 DEF Call, DecisionInv
    <2>3. QED BY <2>1, <2>2, EntryPCs
              DEF DecisionInv, LastDenied, AskedOnlyNeeded, ErrorsClassified
  <1>2. CASE CheckKeystorePermission
    <2>1. req \in KeystoreReqs /\ req' = req /\ log = <<>> /\ pc' = "done"
      BY <1>2 DEF CheckKeystorePermission, TypeInv, DecisionInv, Finish
    <2>2. ~ContractViolation(req) /\ ~LocalRefusal(req)
      BY <2>1 DEF ContractViolation, LocalRefusal, GrantTokenCheck, KeystoreReqs
    <2>3. PICK t \in GetconOutcomes :
            \/ t = NoCtx /\ Finish("backend") /\ UNCHANGED log
            \/ /\ t # NoCtx
               /\ \E ans \in Answers :
                    /\ log' = Append(log, Query(t, "keystore2",
                                                KeystorePermToSelinux(req.perm), ans))
                    /\ Finish(AccessResult(ans))
      BY <1>2 DEF CheckKeystorePermission
    <2>4. CASE t = NoCtx
      BY <2>1, <2>2, <2>3, <2>4, FinishDecision
      DEF Finish, ErrorsClassified, LastDenied, AskedOnlyNeeded
    <2>5. CASE t # NoCtx
      <3>1. PICK ans \in Answers :
              /\ log' = Append(log, Query(t, "keystore2",
                                          KeystorePermToSelinux(req.perm), ans))
              /\ Finish(AccessResult(ans))
        BY <2>3, <2>5
      <3>2. log' = <<Query(t, "keystore2", KeystorePermToSelinux(req.perm), ans)>>
        BY <2>1, <3>1
      <3>3. AskedOnlyNeeded(log', req')
        BY <2>1, <3>2 DEF AskedOnlyNeeded, Needed, Query, KeystoreReqs
      <3>4. ErrorsClassified'
        BY <2>1, <2>2, <3>1, <3>2
        DEF ErrorsClassified, Finish, AccessResult, Answers, LastDenied, DefiniteDeny, Query
      <3>5. QED BY <2>1, <3>3, <3>4, FinishDecision
    <2>6. QED BY <2>4, <2>5
  <1>3. CASE GrantResolveTarget
    <2>1. req \in GrantReqs /\ req' = req /\ log' = log /\ log = <<>>
      BY <1>3 DEF GrantResolveTarget, TypeInv, GrantPCs, DecisionInv
    <2>2. AskedOnlyNeeded(log', req') /\ ~LastDenied'
      BY <2>1 DEF AskedOnlyNeeded, LastDenied
    <2>3. CASE req.domain \in {"App", "SELinux"}
      <3>1. PICK t \in IF req.domain = "App" THEN GetconOutcomes
                                             ELSE LookupOutcomes(req.ns) :
              \/ t = NoCtx /\ Finish("backend") /\ UNCHANGED tgt
              \/ t # NoCtx /\ tgt' = t /\ pc' = "grant_self" /\ UNCHANGED result
        BY <1>3, <2>3 DEF GrantResolveTarget
      <3>2. ~ContractViolation(req)
        BY <2>1, <2>3 DEF ContractViolation, GrantReqs
      <3>3. CASE t = NoCtx
        BY <2>1, <2>2, <3>1, <3>2, <3>3, FinishDecision
        DEF Finish, ErrorsClassified
      <3>4. CASE t # NoCtx
        BY <2>2, <3>1, <3>4, RunningDecision
      <3>5. QED BY <3>3, <3>4
    <2>4. CASE req.domain \notin {"App", "SELinux"}
      <3>1. pc' = "done" /\ result' = "sys"
        BY <1>3, <2>4 DEF GrantResolveTarget, Finish
      <3>2. ContractViolation(req)
        BY <2>1, <2>4 DEF ContractViolation, GrantReqs
      <3>3. QED BY <2>1, <2>2, <3>1, <3>2, FinishDecision DEF ErrorsClassified
    <2>5. QED BY <2>3, <2>4
  <1>4. CASE GrantCheckSelf
    <2>1. /\ req \in GrantReqs /\ req' = req /\ ~LastDenied
          /\ req.domain \in {"App", "SELinux"} /\ log \in Seq(Queries)
          /\ AskedOnlyNeeded(log, req) /\ tgt \in Contexts
      BY <1>4 DEF GrantCheckSelf, TypeInv, TypeOK, GrantPCs, DecisionInv, SoundInv,
                  TargetPCs
    <2>2. ~ContractViolation(req)
      BY <2>1 DEF ContractViolation, GrantReqs
    <2>3. PICK ans \in Answers :
            /\ log' = Append(log, Query(tgt, "keystore2_key", "grant", ans))
            /\ \/ ans # "allow" /\ Finish(AccessResult(ans)) /\ UNCHANGED pos
               \/ /\ ans = "allow"
                  /\ Includes(req.av, FromKeyPerm(KeyPerm_grant))
                  /\ Finish("perm")
                  /\ UNCHANGED pos
               \/ /\ ans = "allow"
                  /\ ~Includes(req.av, FromKeyPerm(KeyPerm_grant))
                  /\ pc' = "grant_loop"
                  /\ pos' = 0
                  /\ UNCHANGED result
      BY <1>4 DEF GrantCheckSelf
    <2> DEFINE q == Query(tgt, "keystore2_key", "grant", ans)
    <2>4. q \in Queries /\ <<q.class, q.perm>> \in Needed(req)
      BY <2>1, GrantNameType DEF Query, Queries, GrantReqs, Needed, Classes
    <2>5. AskedOnlyNeeded(log', req')
      BY <2>1, <2>3, <2>4, NeededAppend
    <2>6. LastDenied' <=> ans = "deny"
      BY <2>1, <2>3, <2>4, LastAppend DEF LastDenied, Query
    <2>7. CASE ans # "allow"
      <3>1. ErrorsClassified'
        BY <2>1, <2>2, <2>3, <2>6, <2>7
        DEF ErrorsClassified, Finish, AccessResult, Answers, DefiniteDeny
      <3>2. QED BY <2>3, <2>5, <2>7, <3>1, FinishDecision DEF Finish
    <2>8. CASE ans = "allow" /\ Includes(req.av, FromKeyPerm(KeyPerm_grant))
      <3>1. LocalRefusal(req)
        BY <2>1, <2>8 DEF LocalRefusal, GrantReqs
      <3>2. ErrorsClassified'
        BY <2>1, <2>2, <2>3, <2>6, <2>8, <3>1
        DEF ErrorsClassified, Finish, DefiniteDeny
      <3>3. QED BY <2>3, <2>5, <2>8, <3>2, FinishDecision DEF Finish
    <2>9. CASE ans = "allow" /\ ~Includes(req.av, FromKeyPerm(KeyPerm_grant))
      BY <2>3, <2>5, <2>6, <2>9, RunningDecision
    <2>10. QED BY <2>7, <2>8, <2>9
  <1>5. CASE GrantSkipBit
    <2>1. pc' = "grant_loop" /\ pc = "grant_loop" /\ log' = log /\ req' = req
      BY <1>5 DEF GrantSkipBit
    <2>2. AskedOnlyNeeded(log', req') /\ ~LastDenied'
      BY <2>1 DEF DecisionInv, AskedOnlyNeeded, LastDenied
    <2>3. QED BY <2>1, <2>2, RunningDecision
  <1>6. CASE GrantCheckBit
    <2>1. /\ req \in GrantReqs /\ req' = req /\ ~LastDenied
          /\ req.domain \in {"App", "SELinux"} /\ log \in Seq(Queries)
          /\ AskedOnlyNeeded(log, req) /\ tgt \in Contexts
          /\ pos \in BitPos /\ Probe(req.av, pos) # 0
      BY <1>6 DEF GrantCheckBit, TypeInv, TypeOK, GrantPCs, DecisionInv, SoundInv,
                  TargetPCs, IterEnd, BitPos
    <2>2. ~ContractViolation(req)
      BY <2>1 DEF ContractViolation, GrantReqs
    <2>3. PICK ans \in Answers :
            /\ log' = Append(log, Query(tgt, "keystore2_key",
                                        KeyPermToSelinux(Yields(req.av, pos)), ans))
            /\ \/ ans # "allow" /\ Finish(AccessResult(ans))
               \/ ans = "allow" /\ UNCHANGED <<pc, result>>
      BY <1>6 DEF GrantCheckBit
    <2> DEFINE q == Query(tgt, "keystore2_key", KeyPermToSelinux(Yields(req.av, pos)), ans)
    <2>4. pos \in req.av
      BY <2>1, ProbeNonZero DEF GrantReqs
    <2>5. Yields(req.av, pos) = BitPerm(pos)
      BY <2>4 DEF Yields, Probe, BitPerm
    <2>6. q \in Queries /\ <<q.class, q.perm>> \in Needed(req)
      BY <2>1, <2>4, <2>5, YieldsType, KeyNameType
      DEF Query, Queries, GrantReqs, Needed, Classes
    <2>7. AskedOnlyNeeded(log', req')
      BY <2>1, <2>3, <2>6, NeededAppend
    <2>8. LastDenied' <=> ans = "deny"
      BY <2>1, <2>3, <2>6, LastAppend DEF LastDenied, Query
    <2>9. CASE ans # "allow"
      <3>1. ErrorsClassified'
        BY <2>1, <2>2, <2>3, <2>8, <2>9
        DEF ErrorsClassified, Finish, AccessResult, Answers, DefiniteDeny
      <3>2. QED BY <2>3, <2>7, <2>9, <3>1, FinishDecision DEF Finish
    <2>10. CASE ans = "allow"
      BY <1>6, <2>3, <2>7, <2>8, <2>10, RunningDecision DEF GrantCheckBit
    <2>11. QED BY <2>9, <2>10
  <1>7. CASE GrantDone
    <2>1. /\ req \in GrantReqs /\ req' = req /\ ~LastDenied /\ log' = log
          /\ req.domain \in {"App", "SELinux"} /\ AskedOnlyNeeded(log, req)
          /\ pc' = "done" /\ result' = "ok"
      BY <1>7 DEF GrantDone, TypeInv, GrantPCs, DecisionInv, SoundInv, Finish
    <2>2. ~ContractViolation(req)
      BY <2>1 DEF ContractViolation, GrantReqs
    <2>3. AskedOnlyNeeded(log', req') /\ ~LastDenied'
      BY <2>1 DEF AskedOnlyNeeded, LastDenied
    <2>4. ErrorsClassified'
      BY <2>1, <2>2, <2>3 DEF ErrorsClassified
    <2>5. QED BY <2>1, <2>3, <2>4, FinishDecision
  <1>8. CASE KeyResolveTarget
    <2>1. req \in KeyReqs /\ req' = req /\ log' = log /\ log = <<>>
      BY <1>8 DEF KeyResolveTarget, TypeInv, KeyPCs, DecisionInv
    <2>2. AskedOnlyNeeded(log', req') /\ ~LastDenied'
      BY <2>1 DEF AskedOnlyNeeded, LastDenied
    <2>3. CASE req.domain \in {"App", "SELinux", "Blob"}
      <3>1. PICK t \in IF req.domain = "App" THEN GetconOutcomes
                                             ELSE LookupOutcomes(req.ns) :
              \/ t = NoCtx /\ Finish("backend") /\ UNCHANGED tgt
              \/ /\ t # NoCtx
                 /\ tgt' = t
                 /\ pc' = IF req.domain = "Blob" THEN "key_blob" ELSE "key_check"
                 /\ UNCHANGED result
        BY <1>8, <2>3 DEF KeyResolveTarget
      <3>2. ~ContractViolation(req)
        BY <2>1, <2>3 DEF ContractViolation, KeyReqs
      <3>3. CASE t = NoCtx
        BY <2>1, <2>2, <3>1, <3>2, <3>3, FinishDecision
        DEF Finish, ErrorsClassified
      <3>4. CASE t # NoCtx
        BY <2>2, <3>1, <3>4, RunningDecision
      <3>5. QED BY <3>3, <3>4
    <2>4. CASE req.domain = "Grant" /\ ~req.hasAv
      <3>1. pc' = "done" /\ result' = "sys"
        BY <1>8, <2>4 DEF KeyResolveTarget, Finish
      <3>2. ContractViolation(req)
        BY <2>1, <2>4 DEF ContractViolation, KeyReqs
      <3>3. QED BY <2>1, <2>2, <3>1, <3>2, FinishDecision DEF ErrorsClassified
    <2>5. CASE req.domain = "Grant" /\ req.hasAv
      <3>1. /\ pc' = "done"
            /\ result' = IF Includes(req.av, FromKeyPerm(req.perm)) THEN "ok" ELSE "perm"
        BY <1>8, <2>5 DEF KeyResolveTarget, Finish
      <3>2. ~ContractViolation(req)
        BY <2>1, <2>5 DEF ContractViolation, KeyReqs
      <3>3. result' = "perm" => LocalRefusal(req)
        BY <2>1, <2>5, <3>1 DEF LocalRefusal, GrantTokenCheck, KeyReqs
      <3>4. ErrorsClassified'
        BY <2>1, <2>2, <3>1, <3>2, <3>3 DEF ErrorsClassified, DefiniteDeny
      <3>5. QED BY <2>1, <2>2, <3>1, <3>4, FinishDecision
    <2>6. CASE req.domain = "KeyId"
      <3>1. pc' = "done" /\ result' = "sys"
        BY <1>8, <2>6 DEF KeyResolveTarget, Finish
      <3>2. ContractViolation(req)
        BY <2>1, <2>6 DEF ContractViolation, KeyReqs
      <3>3. QED BY <2>1, <2>2, <3>1, <3>2, FinishDecision DEF ErrorsClassified
    <2>7. QED BY <1>8, <2>3, <2>4, <2>5, <2>6 DEF KeyResolveTarget
  <1>9. CASE KeyCheckManageBlob
    <2>1. /\ req \in KeyReqs /\ req' = req /\ ~LastDenied
          /\ req.domain = "Blob" /\ log \in Seq(Queries)
          /\ AskedOnlyNeeded(log, req) /\ tgt \in Contexts
      BY <1>9 DEF KeyCheckManageBlob, TypeInv, TypeOK, KeyPCs, DecisionInv, SoundInv,
                  TargetPCs
    <2>2. ~ContractViolation(req)
      BY <2>1 DEF ContractViolation, KeyReqs
    <2>3. PICK ans \in Answers :
            /\ log' = Append(log, Query(tgt, "keystore2_key",
                                        KeyPermToSelinux(KeyPerm_manage_blob), ans))
            /\ \/ ans # "allow" /\ Finish(AccessResult(ans))
               \/ ans = "allow" /\ pc' = "key_check" /\ UNCHANGED result
      BY <1>9 DEF KeyCheckManageBlob
    <2> DEFINE q == Query(tgt, "keystore2_key", KeyPermToSelinux(KeyPerm_manage_blob), ans)
    <2>4. q \in Queries /\ <<q.class, q.perm>> \in Needed(req)
      <3>1. KeyPerm_manage_blob \in KeyPerms
        BY DEF KeyPerm_manage_blob, KeyPerms, KeyPermNames, KeyPermCode
      <3>2. KeyPermToSelinux(KeyPerm_manage_blob) \in KeyPermNames
        BY <3>1, KeyNameType
      <3>3. QED BY <2>1, <3>2 DEF Query, Queries, KeyReqs, Needed, Classes
    <2>5. AskedOnlyNeeded(log', req')
      BY <2>1, <2>3, <2>4, NeededAppend
    <2>6. LastDenied' <=> ans = "deny"
      BY <2>1, <2>3, <2>4, LastAppend DEF LastDenied, Query
    <2>7. CASE ans # "allow"
      <3>1. ErrorsClassified'
        BY <2>1, <2>2, <2>3, <2>6, <2>7
        DEF ErrorsClassified, Finish, AccessResult, Answers, DefiniteDeny
      <3>2. QED BY <2>3, <2>5, <2>7, <3>1, FinishDecision DEF Finish
    <2>8. CASE ans = "allow"
      BY <2>3, <2>5, <2>6, <2>8, RunningDecision
    <2>9. QED BY <2>7, <2>8
  <1>10. CASE KeyCheckAccess
    <2>1. /\ req \in KeyReqs /\ req' = req /\ ~LastDenied
          /\ req.domain \in {"App", "SELinux", "Blob"} /\ log \in Seq(Queries)
          /\ AskedOnlyNeeded(log, req) /\ tgt \in Contexts /\ pc' = "done"
      BY <1>10 DEF KeyCheckAccess, TypeInv, TypeOK, KeyPCs, DecisionInv, SoundInv,
                   TargetPCs, Finish
    <2>2. ~ContractViolation(req)
      BY <2>1 DEF ContractViolation, KeyReqs
    <2>3. PICK ans \in Answers :
            /\ log' = Append(log, Query(tgt, "keystore2_key",
                                        KeyPermToSelinux(req.perm), ans))
            /\ Finish(AccessResult(ans))
      BY <1>10 DEF KeyCheckAccess
    <2> DEFINE q == Query(tgt, "keystore2_key", KeyPermToSelinux(req.perm), ans)
    <2>4. q \in Queries /\ <<q.class, q.perm>> \in Needed(req)
      BY <2>1, KeyNameType DEF Query, Queries, KeyReqs, Needed, Classes
    <2>5. AskedOnlyNeeded(log', req')
      BY <2>1, <2>3, <2>4, NeededAppend
    <2>6. LastDenied' <=> ans = "deny"
      BY <2>1, <2>3, <2>4, LastAppend DEF LastDenied, Query
    <2>7. ErrorsClassified'
      BY <2>1, <2>2, <2>3, <2>6
      DEF ErrorsClassified, Finish, AccessResult, Answers, DefiniteDeny
    <2>8. QED BY <2>1, <2>5, <2>7, FinishDecision
  <1>11. CASE Return
    BY <1>11 DEF Return, DecisionInv, LastDenied, AskedOnlyNeeded, ErrorsClassified
  <1>12. CASE UNCHANGED vars
    BY <1>12 DEF vars, DecisionInv, LastDenied, AskedOnlyNeeded, ErrorsClassified,
                 DefiniteDeny
  <1>13. QED
    BY <1>1, <1>2, <1>3, <1>4, <1>5, <1>6, <1>7, <1>8, <1>9, <1>10, <1>11,
       <1>12
    DEF Next, Step

(* Error kinds of the three decision functions (spec 7): in every          *)
(* behaviour, a call that returns fails with KsError::sys exactly on a     *)
(* contract violation, with selinux::Error::perm only on a definite        *)
(* verdict, and a check_access denial is always reported as               *)
(* selinux::Error::perm (ErrorsClassified), for every value of the         *)
(* constants.                                                              *)
THEOREM ErrorKinds == Spec => []ErrorsClassified
  <1>1. Init => IInv /\ DecisionInv
    BY InitTypeInv, InitDecisionInv
    DEF Init, IInv, SoundInv, AllowOnlyIfAuthorized, TargetPCs
  <1>2. IInv /\ DecisionInv /\ [Next]_vars => (IInv /\ DecisionInv)'
    BY StepTypeInv, StepSoundInv, StepDecisionInv DEF IInv
  <1>3. DecisionInv => ErrorsClassified
    BY DEF DecisionInv
  <1>4. QED
    BY <1>1, <1>2, <1>3, PTL DEF Spec

-----------------------------------------------------------------------------
(* Refinement. *)

(* The initial state is the decision's initial state. *)
LEMMA InitRefines == Init => Abs!Init
  BY DEF Init, Abs!Init, Abs!NoReq, Abs!NoResult, NoReq, NoResult, PhaseOf, PCs

(* An allow record in the log counts among the allowed checks. *)
LEMMA AllowedInChecks ==
  ASSUME NEW s, NEW r, NEW c, NEW n, AllowedIn(s, r, c, n)
  PROVE  <<c, n>> \in AllowedChecksIn(s, r)
  <1>1. PICK i \in 1..Len(s) : s[i] = AllowRecord(r, c, n)
    BY DEF AllowedIn
  <1>2. s[i].class = c /\ s[i].perm = n
    BY <1>1 DEF AllowRecord
  <1>3. QED BY <1>1, <1>2 DEF AllowedChecksIn

(* The allowed checks of a log that asks only needed checks are needed. *)
LEMMA ChecksNeeded ==
  ASSUME NEW s, NEW r, AskedOnlyNeeded(s, r)
  PROVE  AllowedChecksIn(s, r) \subseteq Needed(r)
  BY DEF AllowedChecksIn, AskedOnlyNeeded

(* When a call may return Ok, every check its request needs is among the   *)
(* allowed ones, and no local refusal applies.                             *)
LEMMA OkCovered ==
  ASSUME req' \in Requests, Authorized(req)'
  PROVE  Needed(req') \subseteq AllowedChecks' /\ ~LocalRefusal(req')
  <1>1. CASE req' \in KeystoreReqs
    <2>1. AllowedIn(log', req', "keystore2", KeystorePermToSelinux(req'.perm))
      BY <1>1 DEF Authorized, Allowed, KeystoreReqs
    <2>2. Needed(req') = {<<"keystore2", KeystorePermToSelinux(req'.perm)>>}
      BY <1>1 DEF Needed, KeystoreReqs
    <2>3. ~LocalRefusal(req')
      BY <1>1 DEF LocalRefusal, GrantTokenCheck, KeystoreReqs
    <2>4. QED BY <2>1, <2>2, <2>3, AllowedInChecks DEF AllowedChecks
  <1>2. CASE req' \in GrantReqs
    <2>1. req'.op = "grant"
      BY <1>2 DEF GrantReqs
    <2>2. AllowedIn(log', req', "keystore2_key", "grant")
      BY <2>1 DEF Authorized, Allowed
    <2>3. ASSUME NEW k \in req'.av
          PROVE  AllowedIn(log', req', "keystore2_key", KeyPermToSelinux(BitPerm(k)))
      BY <2>1 DEF Authorized, Allowed
    <2>4. ASSUME NEW x \in Needed(req')
          PROVE  \/ x = <<"keystore2_key", "grant">>
                 \/ \E k \in req'.av : x = <<"keystore2_key", KeyPermToSelinux(BitPerm(k))>>
      BY <2>1 DEF Needed
    <2>5. ~LocalRefusal(req')
      BY <2>1 DEF Authorized, LocalRefusal, GrantTokenCheck
    <2>6. QED BY <2>2, <2>3, <2>4, <2>5, AllowedInChecks DEF AllowedChecks
  <1>3. CASE req' \in KeyReqs
    <2>1. req'.op = "key"
      BY <1>3 DEF KeyReqs
    <2>2. ASSUME req'.domain \in {"App", "SELinux", "Blob"}
          PROVE  AllowedIn(log', req', "keystore2_key", KeyPermToSelinux(req'.perm))
      BY <2>1, <2>2 DEF Authorized, Allowed
    <2>3. ASSUME req'.domain = "Blob"
          PROVE  AllowedIn(log', req', "keystore2_key", KeyPermToSelinux(KeyPerm_manage_blob))
      BY <2>1, <2>3 DEF Authorized, Allowed
    <2>4. ASSUME NEW x \in Needed(req')
          PROVE  \/ req'.domain \in {"App", "SELinux", "Blob"}
                    /\ x = <<"keystore2_key", KeyPermToSelinux(req'.perm)>>
                 \/ req'.domain = "Blob"
                    /\ x = <<"keystore2_key", KeyPermToSelinux(KeyPerm_manage_blob)>>
      BY <2>1 DEF Needed
    <2>5. ~LocalRefusal(req')
      BY <2>1 DEF Authorized, LocalRefusal, GrantTokenCheck
    <2>6. QED BY <2>2, <2>3, <2>4, <2>5, AllowedInChecks DEF AllowedChecks
  <1>4. QED BY <1>1, <1>2, <1>3 DEF Requests

(* A step of a running call starts outside idle and done, never ends in   *)
(* idle, and ends in done with a result.                                   *)
LEMMA StepShape ==
  ASSUME Step
  PROVE  /\ pc \notin {"idle", "done"}
         /\ pc' # "idle"
         /\ pc' = "done" => result' \in Results
  <1>1. CASE CheckKeystorePermission
    BY <1>1, AccessResultType DEF CheckKeystorePermission, Finish, Results
  <1>2. CASE GrantResolveTarget
    BY <1>2 DEF GrantResolveTarget, Finish, Results
  <1>3. CASE GrantCheckSelf
    BY <1>3, AccessResultType DEF GrantCheckSelf, Finish, Results
  <1>4. CASE GrantSkipBit
    BY <1>4 DEF GrantSkipBit
  <1>5. CASE GrantCheckBit
    BY <1>5, AccessResultType DEF GrantCheckBit, Finish, Results
  <1>6. CASE GrantDone
    BY <1>6 DEF GrantDone, Finish, Results
  <1>7. CASE KeyResolveTarget
    BY <1>7 DEF KeyResolveTarget, Finish, Results
  <1>8. CASE KeyCheckManageBlob
    BY <1>8, AccessResultType DEF KeyCheckManageBlob, Finish, Results
  <1>9. CASE KeyCheckAccess
    BY <1>9, AccessResultType DEF KeyCheckAccess, Finish, Results
  <1>10. QED BY <1>1, <1>2, <1>3, <1>4, <1>5, <1>6, <1>7, <1>8, <1>9 DEF Step

(* A Domain::Grant token check is the one step of the match on key.domain, *)
(* asks the backend nothing and returns the local verdict.                 *)
LEMMA GrantTokenStep ==
  ASSUME TypeInv, SoundInv, DecisionInv, Step, GrantTokenCheck(req)
  PROVE  /\ pc' = "done" /\ log' = <<>>
         /\ result' = IF LocalRefusal(req) THEN "perm" ELSE "ok"
  <1>1. pc = "key_resolve"
    <2>1. pc \in {"keystore", "grant_resolve", "grant_self", "grant_loop",
                  "key_resolve", "key_blob", "key_check"}
      BY StepShape DEF TypeInv, TypeOK, PCs
    <2>2. pc \notin {"keystore"} \cup GrantPCs
      BY DEF GrantTokenCheck, TypeInv, KeystoreReqs, GrantReqs
    <2>3. pc \notin {"key_blob", "key_check"}
      BY DEF GrantTokenCheck, SoundInv
    <2>4. QED BY <2>1, <2>2, <2>3 DEF GrantPCs
  <1>2. KeyResolveTarget
    BY <1>1 DEF Step, CheckKeystorePermission, GrantResolveTarget, GrantCheckSelf,
                GrantSkipBit, GrantCheckBit, GrantDone, KeyCheckManageBlob,
                KeyCheckAccess
  <1>3. req.domain = "Grant" /\ req.hasAv /\ req.op = "key"
    BY DEF GrantTokenCheck
  <1>4. /\ pc' = "done" /\ log' = log
        /\ result' = IF Includes(req.av, FromKeyPerm(req.perm)) THEN "ok" ELSE "perm"
    BY <1>2, <1>3 DEF KeyResolveTarget, Finish
  <1>5. log = <<>>
    BY <1>1 DEF DecisionInv
  <1>6. LocalRefusal(req) <=> ~Includes(req.av, FromKeyPerm(req.perm))
    BY <1>3 DEF LocalRefusal, GrantTokenCheck
  <1>7. QED BY <1>4, <1>5, <1>6

(* The decision's vocabulary, seen through the instance, is this module's. *)
LEMMA AbsSame ==
  /\ Abs!Requests = Requests
  /\ Abs!Results = Results
  /\ \A r : /\ Abs!Needed(r) = Needed(r)
            /\ Abs!LocalRefusal(r) = LocalRefusal(r)
            /\ Abs!GrantTokenCheck(r) = GrantTokenCheck(r)
            /\ Abs!ContractViolation(r) = ContractViolation(r)
  BY DEF Abs!Requests, Abs!KeystoreReqs, Abs!GrantReqs, Abs!KeyReqs, Abs!Domains,
         Requests, KeystoreReqs, GrantReqs, KeyReqs, Domains, Abs!Results, Results,
         Abs!Needed, Needed, Abs!LocalRefusal, LocalRefusal,
         Abs!GrantTokenCheck, GrantTokenCheck, Abs!ContractViolation, ContractViolation,
         Abs!KeystorePermToSelinux, KeystorePermToSelinux,
         Abs!KeystorePermNames, KeystorePermNames, Abs!KeystorePermCode, KeystorePermCode,
         Abs!KeyPermToSelinux, KeyPermToSelinux, Abs!KeyPermNames, KeyPermNames,
         Abs!KeyPermCode, KeyPermCode, Abs!BitPerm, BitPerm, Abs!KeyPermFrom, KeyPermFrom,
         Abs!KeyPermCodes, KeyPermCodes, Abs!KeyPerms, KeyPerms, Abs!KeyPermNone,
         KeyPermNone, Abs!Shl1, Shl1, Abs!KeyPerm_manage_blob, KeyPerm_manage_blob,
         Abs!Includes, Includes, Abs!FromKeyPerm, FromKeyPerm, Abs!CodeBits, CodeBits,
         Abs!KeyPerm_grant, KeyPerm_grant, Abs!BitPos, BitPos

(* Every step of PermissionCheck is a step of the decision or leaves it    *)
(* unchanged: Call and Return are the decision's, the step that returns a  *)
(* value is Decide, and every other step is internal to the call.          *)
LEMMA RefinementStep ==
  ASSUME IInv, DecisionInv, IInv', DecisionInv', [Next]_vars
  PROVE  [Abs!Next]_Abs!avars
  <1>1. pc \in PCs /\ pc' \in PCs
    BY DEF IInv, TypeInv, TypeOK
  <1>2. CASE Call
    <2>1. /\ pc = "idle" /\ pc' \in {"keystore", "grant_resolve", "key_resolve"}
          /\ req' \in Requests
      BY <1>2, EntryPCs DEF Call
    <2>2. Abs!Call
      BY <2>1, AbsSame DEF Abs!Call, PhaseOf, PCs
    <2>3. QED BY <2>2 DEF Abs!Next
  <1>3. CASE Return
    <2>1. Abs!Return
      BY <1>3 DEF Return, Abs!Return, PhaseOf, PCs, Abs!NoReq, NoReq,
                  Abs!NoResult, NoResult
    <2>2. QED BY <2>1 DEF Abs!Next
  <1>4. CASE Step /\ pc' # "done"
    <2>1. pc \notin {"idle", "done"} /\ pc' \notin {"idle", "done"} /\ req' = req
      BY <1>4, StepShape, StepKeepsReq
    <2>2. PhaseOf[pc] = "busy" /\ PhaseOf[pc'] = "busy"
      BY <1>1, <2>1 DEF PhaseOf
    <2>3. QED BY <2>1, <2>2 DEF Abs!avars
  <1>5. CASE Step /\ pc' = "done"
    <2>1. /\ pc \notin {"idle", "done"} /\ result' \in Results /\ req' = req
          /\ req' \in Requests
      BY <1>5, StepShape, StepKeepsReq DEF IInv, TypeInv
    <2>2. PhaseOf[pc] = "busy" /\ PhaseOf[pc'] = "done"
      BY <1>1, <1>5, <2>1 DEF PhaseOf
    <2>3. AllowedChecks' \subseteq Needed(req)
      BY <2>1, ChecksNeeded DEF DecisionInv, AllowedChecks
    <2>4. ErrorsClassified'
      BY DEF DecisionInv
    <2>5. result' = "ok" => Needed(req) \subseteq AllowedChecks' /\ ~LocalRefusal(req)
      BY <1>5, <2>1, OkCovered DEF IInv, SoundInv, AllowOnlyIfAuthorized
    <2>6. ASSUME GrantTokenCheck(req)
          PROVE  /\ result' = IF LocalRefusal(req) THEN "perm" ELSE "ok"
                 /\ AllowedChecks' = {}
                 /\ ~LastDenied'
      <3>1. log' = <<>> /\ result' = IF LocalRefusal(req) THEN "perm" ELSE "ok"
        BY <1>5, <2>6, GrantTokenStep DEF IInv
      <3>2. QED BY <3>1 DEF AllowedChecks, AllowedChecksIn, LastDenied
    <2>7. /\ result' = "sys" <=> ContractViolation(req)
          /\ result' = "perm" => LastDenied' \/ LocalRefusal(req)
          /\ LastDenied' => result' = "perm"
      BY <1>5, <2>1, <2>4 DEF ErrorsClassified, DefiniteDeny
    <2>8. Abs!Decide
      BY <1>5, <2>1, <2>2, <2>3, <2>5, <2>6, <2>7, AbsSame DEF Abs!Decide
    <2>9. QED BY <2>8 DEF Abs!Next
  <1>6. CASE UNCHANGED vars
    BY <1>6 DEF vars, Abs!avars, AllowedChecks, AllowedChecksIn, LastDenied
  <1>7. QED BY <1>2, <1>3, <1>4, <1>5, <1>6 DEF Next

(* PermissionCheck implements PermissionDecision (the safety part of       *)
(* ImplementsDecision): in every behaviour of the three decision functions *)
(* the mapped state starts as the decision's and moves only by its Call,   *)
(* Decide and Return, for every value of the constants.  Fairness of the   *)
(* decision is left to TLC.                                                *)
THEOREM Refinement == Spec => Abs!Init /\ [][Abs!Next]_Abs!avars
  <1> DEFINE Inv == IInv /\ DecisionInv
  <1>1. Init => Inv
    BY InitTypeInv, InitDecisionInv
    DEF Init, IInv, SoundInv, AllowOnlyIfAuthorized, TargetPCs
  <1>2. Inv /\ [Next]_vars => Inv'
    BY StepTypeInv, StepSoundInv, StepDecisionInv DEF IInv
  <1>3. Inv /\ Inv' /\ [Next]_vars => [Abs!Next]_Abs!avars
    BY RefinementStep
  <1>4. QED
    BY <1>1, <1>2, <1>3, InitRefines, PTL DEF Spec
=============================================================================
