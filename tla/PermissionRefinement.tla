------------------------ MODULE PermissionRefinement ------------------------
(***************************************************************************)
(* The step-level functions of PermissionCheck implement the atomic        *)
(* decision of PermissionDecision.  Every step of a call but the one that  *)
(* returns a value is a stutter of the decision; the step that returns is  *)
(* the decision, with allowed the checks the log shows allowed on the      *)
(* request's target and denied whether the last check_access denied.       *)
(***************************************************************************)
EXTENDS PermissionCheck

(* Where the call is, seen from outside the function. *)
PhaseOf == [p \in PCs |-> IF p \in {"idle", "done"} THEN p ELSE "busy"]

(* The (class, permission) checks log s shows allowed on r's target. *)
AllowedChecksIn(s, r) ==
  {<<s[i].class, s[i].perm>> :
     i \in {j \in 1..Len(s) : s[j] = AllowRecord(r, s[j].class, s[j].perm)}}

AllowedChecks == AllowedChecksIn(log, req)

Abs == INSTANCE PermissionDecision WITH
         phase   <- PhaseOf[pc],
         result  <- IF pc = "done" THEN result ELSE NoResult,
         allowed <- IF pc = "done" THEN AllowedChecks ELSE {},
         denied  <- pc = "done" /\ LastDenied

(* check_keystore_permission, check_grant_permission and                   *)
(* check_key_permission keep every promise of their doc comments, stated   *)
(* as one atomic decision per call, including that every call is decided  *)
(* and returns.                                                            *)
ImplementsDecision == Abs!Spec
=============================================================================
