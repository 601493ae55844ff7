-------------------------- MODULE PermissionRequests --------------------------
(***************************************************************************)
(* The arguments of the three decision functions of permission.rs, the     *)
(* security contexts they resolve and the vocabulary of check_access.      *)
(* Both the step-level model (PermissionCheck) and the atomic decision     *)
(* (PermissionDecision) are stated over these definitions.                 *)
(***************************************************************************)
EXTENDS KeyPermSet

CONSTANTS
  Callers,          \* caller_ctx values
  KeystoreCtx,      \* what getcon() returns: keystore's own context
  Namespaces,       \* KeyDescriptor.namespace_ values
  NsContext,        \* the keystore_key_contexts lookup: namespace -> context
  NotFound,         \* NsContext of a namespace lookup() does not know
  NoCtx,            \* no target context (resolution failed or not begun)
  ReqKeyPerms,      \* the KeyPerm values callers pass
  ReqKeystorePerms, \* the KeystorePerm values callers pass
  ReqSets           \* the KeyPermSet values callers pass

Contexts == {KeystoreCtx} \cup ({NsContext[n] : n \in Namespaces} \ {NotFound})

ASSUME ConstantsAssumption ==
  /\ NsContext \in [Namespaces -> Contexts \cup {NotFound}]
  /\ NotFound \notin Contexts
  /\ NoCtx \notin Contexts \cup {NotFound}
  /\ ReqKeyPerms \subseteq KeyPerms
  /\ ReqKeystorePerms \subseteq KeystorePerms
  /\ ReqSets \subseteq KeyPermSets

(* aidl::Domain. *)
Domains == {"App", "SELinux", "Grant", "KeyId", "Blob"}

KeystoreReqs ==
  [op: {"keystore"}, caller: Callers, perm: ReqKeystorePerms]
GrantReqs ==
  [op: {"grant"}, caller: Callers, av: ReqSets, domain: Domains, ns: Namespaces]
(* access_vector: Option<KeyPermSet> is the pair (hasAv, av); None comes  *)
(* with the empty set.                                                     *)
KeyReqs ==
  [op: {"key"}, caller: Callers, perm: ReqKeyPerms, domain: Domains,
   ns: Namespaces, hasAv: {TRUE}, av: ReqSets]
  \cup
  [op: {"key"}, caller: Callers, perm: ReqKeyPerms, domain: Domains,
   ns: Namespaces, hasAv: {FALSE}, av: {{}}]
Requests == KeystoreReqs \cup GrantReqs \cup KeyReqs

Answers == {"allow", "deny", "error"}
Results == {"ok", "perm", "sys", "backend"}
Classes == {"keystore2", "keystore2_key"}
Queries ==
  [src: Callers, tgt: Contexts, class: Classes,
   perm: KeyPermNames \cup KeystorePermNames, ans: Answers]

NoReq == [op |-> "none"]
NoResult == "none"

(* The context the code must check against for request r: its own context *)
(* for the keystore2 class and Domain::App, the namespace's otherwise.     *)
ExpectedTarget(r) ==
  IF r.op = "keystore" \/ r.domain = "App" THEN KeystoreCtx ELSE NsContext[r.ns]

(* The requests that break the caller's contract: KsError::sys. *)
ContractViolation(r) ==
  \/ r.op = "grant" /\ r.domain \notin {"App", "SELinux"}
  \/ r.op = "key" /\ r.domain = "KeyId"
  \/ r.op = "key" /\ r.domain = "Grant" /\ ~r.hasAv

(* The checks request r needs the backend to allow.  check_keystore_       *)
(* permission: perm in keystore2.  check_grant_permission: grant and every *)
(* permission of access_vec.  check_key_permission: perm, and manage_blob  *)
(* as well for Domain::Blob; none for Domain::Grant and Domain::KeyId.     *)
Needed(r) ==
  IF r.op = "keystore" THEN {<<"keystore2", KeystorePermToSelinux(r.perm)>>}
  ELSE IF r.op = "grant"
    THEN {<<"keystore2_key", "grant">>}
           \cup {<<"keystore2_key", KeyPermToSelinux(BitPerm(k))>> : k \in r.av}
  ELSE {<<"keystore2_key", KeyPermToSelinux(p)>> :
          p \in (IF r.domain \in {"App", "SELinux", "Blob"} THEN {r.perm} ELSE {})
                \cup (IF r.domain = "Blob" THEN {KeyPerm_manage_blob} ELSE {})}

(* Domain::Grant with an access vector: decided locally. *)
GrantTokenCheck(r) == r.op = "key" /\ r.domain = "Grant" /\ r.hasAv

(* The refusals made without the backend: "Attempts to grant the grant     *)
(* permission are always denied", and a Domain::Grant vector that lacks    *)
(* perm.                                                                   *)
LocalRefusal(r) ==
  \/ r.op = "grant" /\ Includes(r.av, FromKeyPerm(KeyPerm_grant))
  \/ GrantTokenCheck(r) /\ ~Includes(r.av, FromKeyPerm(r.perm))
=============================================================================
