------------------------- MODULE PermissionDecision -------------------------
(***************************************************************************)
(* What the three decision functions of permission.rs promise, as one      *)
(* atomic decision per call, taken from their doc comments: the checks a   *)
(* request needs, the verdict the local capability check gives, and the    *)
(* error kind of each failure.  The backend is still an oracle: allowed is *)
(* the set of (class, permission) checks it allowed on the request's       *)
(* target during the call, denied whether the call ended on a denial.      *)
(***************************************************************************)
EXTENDS PermissionRequests

VARIABLES
  phase,    \* "idle", "busy" (a call is running) or "done"
  req,      \* the arguments of the current call
  result,   \* the value the call returned, once phase = "done"
  allowed,  \* the checks the backend allowed on the request's target
  denied    \* the call ended on a denial by check_access

avars == <<phase, req, result, allowed, denied>>

Init ==
  /\ phase = "idle"
  /\ req = NoReq
  /\ result = NoResult
  /\ allowed = {}
  /\ denied = FALSE

(* A caller calls one of the three functions. *)
Call ==
  /\ phase = "idle"
  /\ phase' = "busy"
  /\ req' \in Requests
  /\ UNCHANGED <<result, allowed, denied>>

(* The function decides.  It asks the backend only for checks the request *)
(* needs.  It returns KsError::sys exactly on a contract                   *)
(* violation, Ok only if every needed check was allowed and no local      *)
(* refusal applies, selinux::Error::perm only on a denial or a local       *)
(* refusal, and a denial always as selinux::Error::perm.  A Domain::Grant  *)
(* token is checked without any backend call.                              *)
Decide ==
  /\ phase = "busy"
  /\ phase' = "done"
  /\ result' \in Results
  /\ allowed' \in SUBSET Needed(req)
  /\ denied' \in BOOLEAN
  /\ result' = "sys" <=> ContractViolation(req)
  /\ result' = "ok" => Needed(req) \subseteq allowed' /\ ~LocalRefusal(req)
  /\ result' = "perm" => denied' \/ LocalRefusal(req)
  /\ denied' => result' = "perm"
  /\ GrantTokenCheck(req) =>
       /\ result' = IF LocalRefusal(req) THEN "perm" ELSE "ok"
       /\ allowed' = {}
       /\ ~denied'
  /\ UNCHANGED req

(* The caller takes the result. *)
Return ==
  /\ phase = "done"
  /\ phase' = "idle"
  /\ req' = NoReq
  /\ result' = NoResult
  /\ allowed' = {}
  /\ denied' = FALSE

Next == Call \/ Decide \/ Return

(* A call is decided and returns; nobody is obliged to call. *)
Spec == Init /\ [][Next]_avars /\ WF_avars(Decide) /\ WF_avars(Return)
=============================================================================
