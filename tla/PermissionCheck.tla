--------------------------- MODULE PermissionCheck ---------------------------
(***************************************************************************)
(* The decision functions of permission.rs: check_keystore_permission,     *)
(* check_grant_permission and check_key_permission, one call at a time.    *)
(*                                                                         *)
(* A call is a state machine over pc whose steps are the code between two  *)
(* calls into the SELinux backend.  getcon(), KeystoreKeyBackend::new() and *)
(* lookup() may fail; selinux::check_access answers "allow" (Ok), "deny"   *)
(* (Err(selinux::Error::perm())) or "error" (any other failure), freshly   *)
(* for every query, since the loaded policy may change between queries.    *)
(* log records every check_access query of the current call and its        *)
(* answer; result is the root cause of the anyhow::Result returned:        *)
(* "ok", "perm" (selinux::Error::perm), "sys" (KsError::sys) or "backend". *)
(***************************************************************************)
EXTENDS PermissionRequests, SequencesExt


PCs == {"idle", "keystore", "grant_resolve", "grant_self", "grant_loop",
        "key_resolve", "key_blob", "key_check", "done"}

VARIABLES
  pc,      \* where the current call is
  req,     \* the arguments of the current call
  tgt,     \* target_context once resolved
  pos,     \* IntoIter.pos of the loop over access_vec
  log,     \* the check_access queries of the current call, in order
  result   \* the value the call returned, once pc = "done"

vars == <<pc, req, tgt, pos, log, result>>

(* A variant that reports a backend error as a denial. *)
AccessResultErrorAsPerm(ans) ==
  [allow |-> "ok", deny |-> "perm", error |-> "perm"][ans]

(* The root cause of check_access's result. *)
AccessResult(ans) ==
  [allow |-> "ok", deny |-> "perm", error |-> "backend"][ans]

(* One call of selinux::check_access(caller_ctx, t, class, name). *)
Query(t, class, name, ans) ==
  [src |-> req.caller, tgt |-> t, class |-> class, perm |-> name, ans |-> ans]

(* The outcomes of getcon(), and of KeystoreKeyBackend::new() followed by  *)
(* lookup(namespace_): a context, or NoCtx when either call fails.         *)
GetconOutcomes == {KeystoreCtx, NoCtx}
LookupOutcomes(ns) == {NoCtx} \cup ({NsContext[ns]} \ {NotFound})

Finish(res) == pc' = "done" /\ result' = res

Init ==
  /\ pc = "idle"
  /\ req = NoReq
  /\ tgt = NoCtx
  /\ pos = 0
  /\ log = <<>>
  /\ result = NoResult

(* The first step of each of the three functions. *)
Entry == [keystore |-> "keystore", grant |-> "grant_resolve", key |-> "key_resolve"]

(* A request handler calls one of the three functions. *)
Call ==
  /\ pc = "idle"
  /\ \E r \in Requests :
       /\ req' = r
       /\ pc' = Entry[r.op]
  /\ UNCHANGED <<tgt, pos, log, result>>

(* check_keystore_permission: getcon(), then check_access in keystore2.    *)
CheckKeystorePermission ==
  /\ pc = "keystore"
  /\ \E t \in GetconOutcomes :
       \/ /\ t = NoCtx
          /\ Finish("backend")
          /\ UNCHANGED log
       \/ /\ t # NoCtx
          /\ \E ans \in Answers :
               /\ log' = Append(log, Query(t, "keystore2",
                                           KeystorePermToSelinux(req.perm), ans))
               /\ Finish(AccessResult(ans))
  /\ UNCHANGED <<req, tgt, pos>>

(* check_grant_permission: the match on key.domain. *)
GrantResolveTarget ==
  /\ pc = "grant_resolve"
  /\ \/ /\ req.domain \in {"App", "SELinux"}
        /\ \E t \in IF req.domain = "App" THEN GetconOutcomes
                                          ELSE LookupOutcomes(req.ns) :
             \/ t = NoCtx /\ Finish("backend") /\ UNCHANGED tgt
             \/ t # NoCtx /\ tgt' = t /\ pc' = "grant_self" /\ UNCHANGED result
     \/ /\ req.domain \notin {"App", "SELinux"}
        /\ Finish("sys")
        /\ UNCHANGED tgt
  /\ UNCHANGED <<req, pos, log>>

(* A variant without the `access_vec.includes(KeyPerm::grant())` refusal. *)
GrantCheckSelfNoGrantGuard ==
  /\ pc = "grant_self"
  /\ \E ans \in Answers :
       /\ log' = Append(log, Query(tgt, "keystore2_key", "grant", ans))
       /\ \/ ans # "allow" /\ Finish(AccessResult(ans)) /\ UNCHANGED pos
          \/ ans = "allow" /\ pc' = "grant_loop" /\ pos' = 0 /\ UNCHANGED result
  /\ UNCHANGED <<req, tgt>>

(* check_grant_permission: the caller must hold "grant" on the target, and *)
(* an access vector that includes grant is refused.                        *)
GrantCheckSelf ==
  /\ pc = "grant_self"
  /\ \E ans \in Answers :
       /\ log' = Append(log, Query(tgt, "keystore2_key", "grant", ans))
       /\ \/ ans # "allow" /\ Finish(AccessResult(ans)) /\ UNCHANGED pos
          \/ /\ ans = "allow"
             /\ Includes(req.av, FromKeyPerm(KeyPerm_grant))
             /\ Finish("perm")
             /\ UNCHANGED pos
          \/ /\ ans = "allow"
             /\ ~Includes(req.av, FromKeyPerm(KeyPerm_grant))
             /\ pc' = "grant_loop"
             /\ pos' = 0
             /\ UNCHANGED result
  /\ UNCHANGED <<req, tgt>>

(* Variants of the zero-bit pass: one without the `pos == 32` bound, one   *)
(* that forgets `self.pos += 1`.                                           *)
GrantSkipBitUnbounded ==
  /\ pc = "grant_loop"
  /\ Probe(req.av, pos) = 0
  /\ pos' = pos + 1
  /\ UNCHANGED <<pc, req, tgt, log, result>>

GrantSkipBitStuck ==
  /\ pc = "grant_loop"
  /\ pos # IterEnd
  /\ Probe(req.av, pos) = 0
  /\ pos' = pos
  /\ UNCHANGED <<pc, req, tgt, log, result>>

(* for p in access_vec.into_iter(): a pass of IntoIter::next's loop over a *)
(* zero bit.                                                               *)
GrantSkipBit ==
  /\ pc = "grant_loop"
  /\ pos # IterEnd
  /\ Probe(req.av, pos) = 0
  /\ pos' = pos + 1
  /\ UNCHANGED <<pc, req, tgt, log, result>>

(* A variant of the pass over a one bit that lets a backend error go by    *)
(* and carries on with the next bit.                                       *)
GrantCheckBitErrorContinues ==
  /\ pc = "grant_loop"
  /\ pos # IterEnd
  /\ Probe(req.av, pos) # 0
  /\ pos' = pos + 1
  /\ \E ans \in Answers :
       /\ log' = Append(log, Query(tgt, "keystore2_key",
                                   KeyPermToSelinux(Yields(req.av, pos)), ans))
       /\ \/ ans = "deny" /\ Finish(AccessResult(ans))
          \/ ans # "deny" /\ UNCHANGED <<pc, result>>
  /\ UNCHANGED <<req, tgt>>

(* A pass over a one bit: next() returns Some(KeyPerm::from(p)) and the    *)
(* loop body checks it; the first failure returns from the function.       *)
GrantCheckBit ==
  /\ pc = "grant_loop"
  /\ pos # IterEnd
  /\ Probe(req.av, pos) # 0
  /\ pos' = pos + 1
  /\ \E ans \in Answers :
       /\ log' = Append(log, Query(tgt, "keystore2_key",
                                   KeyPermToSelinux(Yields(req.av, pos)), ans))
       /\ \/ ans # "allow" /\ Finish(AccessResult(ans))
          \/ ans = "allow" /\ UNCHANGED <<pc, result>>
  /\ UNCHANGED <<req, tgt>>

(* next() returns None at pos == 32: Ok(()). *)
GrantDone ==
  /\ pc = "grant_loop"
  /\ pos = IterEnd
  /\ Finish("ok")
  /\ UNCHANGED <<req, tgt, pos, log>>

(* A variant of the match on key.domain that resolves Domain::Blob like     *)
(* Domain::SELinux and skips the manage_blob check.                        *)
KeyResolveTargetNoBlobCheck ==
  /\ pc = "key_resolve"
  /\ \/ /\ req.domain \in {"App", "SELinux", "Blob"}
        /\ \E t \in IF req.domain = "App" THEN GetconOutcomes
                                          ELSE LookupOutcomes(req.ns) :
             \/ t = NoCtx /\ Finish("backend") /\ UNCHANGED tgt
             \/ t # NoCtx /\ tgt' = t /\ pc' = "key_check" /\ UNCHANGED result
     \/ /\ req.domain = "Grant"
        /\ ~req.hasAv
        /\ Finish("sys")
        /\ UNCHANGED tgt
     \/ /\ req.domain = "Grant"
        /\ req.hasAv
        /\ Finish(IF Includes(req.av, FromKeyPerm(req.perm)) THEN "ok" ELSE "perm")
        /\ UNCHANGED tgt
     \/ /\ req.domain = "KeyId"
        /\ Finish("sys")
        /\ UNCHANGED tgt
  /\ UNCHANGED <<req, pos, log>>

(* check_key_permission: the match on key.domain up to, for Domain::Blob,  *)
(* the manage_blob check.                                                  *)
KeyResolveTarget ==
  /\ pc = "key_resolve"
  /\ \/ /\ req.domain \in {"App", "SELinux", "Blob"}
        /\ \E t \in IF req.domain = "App" THEN GetconOutcomes
                                          ELSE LookupOutcomes(req.ns) :
             \/ t = NoCtx /\ Finish("backend") /\ UNCHANGED tgt
             \/ /\ t # NoCtx
                /\ tgt' = t
                /\ pc' = IF req.domain = "Blob" THEN "key_blob" ELSE "key_check"
                /\ UNCHANGED result
     \/ /\ req.domain = "Grant"
        /\ ~req.hasAv
        /\ Finish("sys")
        /\ UNCHANGED tgt
     \/ /\ req.domain = "Grant"
        /\ req.hasAv
        /\ Finish(IF Includes(req.av, FromKeyPerm(req.perm)) THEN "ok" ELSE "perm")
        /\ UNCHANGED tgt
     \/ /\ req.domain = "KeyId"
        /\ Finish("sys")
        /\ UNCHANGED tgt
  /\ UNCHANGED <<req, pos, log>>

(* Domain::Blob: check_access(..., manage_blob)?, before the final check.  *)
KeyCheckManageBlob ==
  /\ pc = "key_blob"
  /\ \E ans \in Answers :
       /\ log' = Append(log, Query(tgt, "keystore2_key",
                                   KeyPermToSelinux(KeyPerm_manage_blob), ans))
       /\ \/ ans # "allow" /\ Finish(AccessResult(ans))
          \/ ans = "allow" /\ pc' = "key_check" /\ UNCHANGED result
  /\ UNCHANGED <<req, tgt, pos>>

(* The final check_access(caller_ctx, &target_context, ..., perm). *)
KeyCheckAccess ==
  /\ pc = "key_check"
  /\ \E ans \in Answers :
       /\ log' = Append(log, Query(tgt, "keystore2_key",
                                   KeyPermToSelinux(req.perm), ans))
       /\ Finish(AccessResult(ans))
  /\ UNCHANGED <<req, tgt, pos>>

(* The caller takes the result; the next call starts afresh. *)
Return ==
  /\ pc = "done"
  /\ pc' = "idle"
  /\ req' = NoReq
  /\ tgt' = NoCtx
  /\ pos' = 0
  /\ log' = <<>>
  /\ result' = NoResult

Step ==
  \/ CheckKeystorePermission
  \/ GrantResolveTarget \/ GrantCheckSelf \/ GrantSkipBit \/ GrantCheckBit
  \/ GrantDone
  \/ KeyResolveTarget \/ KeyCheckManageBlob \/ KeyCheckAccess

Next == Call \/ Step \/ Return

(* A call runs to its end: the code is straight-line apart from the loop   *)
(* over 32 bits, and every backend call returns (with an error at worst).  *)
Spec == Init /\ [][Next]_vars /\ WF_vars(Step) /\ WF_vars(Return)

-----------------------------------------------------------------------------
(***************************************************************************)
(* Properties.                                                             *)
(***************************************************************************)

TypeOK ==
  /\ pc \in PCs
  /\ req \in Requests \cup {NoReq}
  /\ tgt \in Contexts \cup {NoCtx}
  /\ pos \in 0..IterEnd
  /\ log \in Seq(Queries)
  /\ result \in Results \cup {NoResult}

(* The current call asked check_access for (class, name) on r's target and *)
(* was told "allow".                                                       *)
AllowRecord(r, class, name) ==
  [src |-> r.caller, tgt |-> ExpectedTarget(r), class |-> class,
   perm |-> name, ans |-> "allow"]

AllowedIn(s, r, class, name) == \E i \in 1..Len(s) : s[i] = AllowRecord(r, class, name)

Allowed(r, class, name) == AllowedIn(log, r, class, name)

(* What must hold for the code to return Ok to request r (spec 4.3).       *)
Authorized(r) ==
  /\ r.op = "keystore" =>
       Allowed(r, "keystore2", KeystorePermToSelinux(r.perm))
  /\ r.op = "grant" =>
       /\ r.domain \in {"App", "SELinux"}
       /\ Allowed(r, "keystore2_key", "grant")
       /\ ~Includes(r.av, FromKeyPerm(KeyPerm_grant))
       /\ \A k \in r.av :
            Allowed(r, "keystore2_key", KeyPermToSelinux(BitPerm(k)))
  /\ r.op = "key" =>
       /\ r.domain \in {"Grant", "App", "SELinux", "Blob"}
       /\ r.domain = "Grant" => r.hasAv /\ Includes(r.av, FromKeyPerm(r.perm))
       /\ r.domain \in {"App", "SELinux", "Blob"} =>
            Allowed(r, "keystore2_key", KeyPermToSelinux(r.perm))
       /\ r.domain = "Blob" =>
            Allowed(r, "keystore2_key", KeyPermToSelinux(KeyPerm_manage_blob))

(* Safety of all three functions: Ok(()) is returned only when the backend *)
(* allowed every check the request needs against the right target: in      *)
(* check_grant_permission "grant" and every permission of access_vec (the  *)
(* whole IntoIter loop, up to bit 31), never an access vector holding      *)
(* grant; in check_key_permission manage_blob as well for Domain::Blob,    *)
(* and the access vector for Domain::Grant.                                *)
AllowOnlyIfAuthorized ==
  pc = "done" /\ result = "ok" => Authorized(req)

(* The last check_access of the call denied. *)
LastDenied == log # <<>> /\ log[Len(log)].ans = "deny"

(* A definite verdict against request r: the last check_access denied, or  *)
(* a local refusal of the grant permission or of a Domain::Grant vector.   *)
DefiniteDeny(r) == LastDenied \/ LocalRefusal(r)

(* Error kinds (spec 7): a call fails with KsError::sys exactly when the   *)
(* caller broke the contract; it fails with selinux::Error::perm only on a *)
(* definite verdict, and a backend deny is never reported as anything      *)
(* else.  Callers branch on the root cause to answer "permission denied". *)
ErrorsClassified ==
  pc = "done" =>
    /\ result = "sys" <=> ContractViolation(req)
    /\ result = "perm" => DefiniteDeny(req)
    /\ LastDenied => result = "perm"

(* Every call returns: the loop over access_vec ends at pos 32 and every   *)
(* other path is straight-line code.                                       *)
CallReturns == [](pc \notin {"idle", "done"} => <>(pc = "done"))

(* Spec 4.1: None "is never a grantable permission".  A Domain::Grant      *)
(* check returns Ok only for a permission that iterating the access vector *)
(* would produce.                                                          *)
GrantTokenOnlyContained ==
  pc = "done" /\ result = "ok" /\ req.op = "key" /\ req.domain = "Grant" =>
    req.perm \in {BitPerm(k) : k \in req.av}

(* The doc comment of check_key_permission lists its return values: Ok,   *)
(* selinux::Error::perm, and KsError::sys "on various unexpected backend   *)
(* failures".  The function returns one of these three.                    *)
KeyResultsAsDocumented ==
  pc = "done" /\ req.op = "key" => result \in {"ok", "perm", "sys"}

(* The names of the permissions queried in log s, in order. *)
QueryNames(s) == [i \in 1..Len(s) |-> s[i].perm]

(* The names the three functions must query for request r, in order; for  *)
(* check_grant_permission, "grant" alone when access_vec holds grant (it   *)
(* is refused before the loop), else "grant" and then the permissions of   *)
(* access_vec by ascending bit.                                            *)
ExpectedNames(r) ==
  IF r.op = "keystore" THEN <<KeystorePermToSelinux(r.perm)>>
  ELSE IF r.op = "grant" /\ Includes(r.av, FromKeyPerm(KeyPerm_grant))
    THEN <<"grant">>
  ELSE IF r.op = "grant"
    THEN <<"grant">> \o [i \in 1..Cardinality(r.av) |->
                          KeyPermToSelinux(BitPerm(Ascending(r.av)[i]))]
  ELSE IF r.op = "key" /\ r.domain \in {"App", "SELinux"}
    THEN <<KeyPermToSelinux(r.perm)>>
  ELSE IF r.op = "key" /\ r.domain = "Blob"
    THEN <<KeyPermToSelinux(KeyPerm_manage_blob), KeyPermToSelinux(r.perm)>>
  ELSE <<>>

(* Spec 4.3, the `?` after every check_access: the step that receives an  *)
(* answer other than allow returns from the function at once, and not with *)
(* Ok; no later query of the call can hide a denial or a backend error.   *)
FailureEndsCall ==
  [][Len(log') = Len(log) + 1 /\ log'[Len(log')].ans # "allow" =>
       pc' = "done" /\ result' # "ok"]_vars

(* Spec 4.2/4.3: the backend is asked in a fixed order, the permissions of *)
(* an access vector in strictly ascending bit order, none of them when the *)
(* vector holds grant, and nothing is asked after the first answer that is *)
(* not "allow" (the first denial ends the call).                           *)
QueryOrder ==
  /\ IsPrefix(QueryNames(log), ExpectedNames(req))
  /\ \A i \in 1..(Len(log) - 1) : log[i].ans = "allow"

-----------------------------------------------------------------------------
(***************************************************************************)
(* The inductive invariant behind AllowOnlyIfAuthorized.                   *)
(***************************************************************************)

GrantPCs  == {"grant_resolve", "grant_self", "grant_loop"}
KeyPCs    == {"key_resolve", "key_blob", "key_check"}
TargetPCs == {"grant_self", "grant_loop", "key_blob", "key_check"}

(* Which function pc belongs to, and that a target is resolved once the    *)
(* match on key.domain is past.                                            *)
TypeInv ==
  /\ TypeOK
  /\ pc = "keystore" => req \in KeystoreReqs
  /\ pc \in GrantPCs => req \in GrantReqs
  /\ pc \in KeyPCs => req \in KeyReqs
  /\ pc = "done" => req \in Requests
  /\ pc \in TargetPCs => tgt \in Contexts

(* What the call has established at each pc: the target is the one the    *)
(* domain asks for, "grant" was allowed and every bit below pos was        *)
(* allowed in the loop, manage_blob was allowed before a Blob key's final  *)
(* check.                                                                  *)
SoundInv ==
  /\ pc = "grant_self" => req.domain \in {"App", "SELinux"}
  /\ pc = "key_blob" => req.domain = "Blob"
  /\ pc = "key_check" => req.domain \in {"App", "SELinux", "Blob"}
  /\ pc \in TargetPCs => tgt = ExpectedTarget(req)
  /\ pc = "grant_loop" =>
       /\ req.domain \in {"App", "SELinux"}
       /\ Allowed(req, "keystore2_key", "grant")
       /\ ~Includes(req.av, FromKeyPerm(KeyPerm_grant))
       /\ \A k \in req.av :
            k < pos => Allowed(req, "keystore2_key", KeyPermToSelinux(BitPerm(k)))
  /\ pc = "key_check" /\ req.domain = "Blob" =>
       Allowed(req, "keystore2_key", KeyPermToSelinux(KeyPerm_manage_blob))
  /\ AllowOnlyIfAuthorized

IInv == TypeInv /\ SoundInv

(* Every check_access query in s is one request r needs. *)
AskedOnlyNeeded(s, r) == \A i \in 1..Len(s) : <<s[i].class, s[i].perm>> \in Needed(r)

(* What the call has established towards its decision: nothing is asked    *)
(* before the target is resolved, every answer so far but the last was     *)
(* "allow" (a failure ends the call), every query is one the request needs *)
(* and, once done, the error kind matches the cause.                       *)
DecisionInv ==
  /\ pc \in {"idle", "keystore", "grant_resolve", "key_resolve"} => log = <<>>
  /\ pc # "done" => ~LastDenied
  /\ AskedOnlyNeeded(log, req)
  /\ ErrorsClassified
=============================================================================
