------------------------- MODULE MCPermissionCheck -------------------------
(***************************************************************************)
(* PermissionCheck for TLC: one caller, keystore's own context, namespace  *)
(* 0 (su_key in the SePolicy) known to the backend and namespace 1 not.    *)
(* The requested permissions are none, grant, manage_blob and use; the     *)
(* access vectors are all sets over delete (bit 0), grant (3), manage_blob *)
(* (5), use_dev_id (10, the highest defined bit) and the sign bit 31,      *)
(* which no permission defines (an access vector from the wire may carry   *)
(* it), so that both ends of IntoIter's scan and From<i32>'s fallback are  *)
(* exercised.                                                              *)
(***************************************************************************)
EXTENDS PermissionRefinement

CONSTANTS su, keystoreCtx, suKeyCtx, notFound, noCtx

MCCallers == {su}
MCNamespaces == {0, 1}
MCNsContext == (0 :> suKeyCtx) @@ (1 :> notFound)
MCReqKeyPerms == {KeyPermNone, KeyPerm_grant, KeyPerm_manage_blob, KeyPerm_use}
MCReqKeystorePerms == {KeystorePermCode.none, KeystorePermCode.add_auth}
MCReqSets == SUBSET {0, 3, 5, 10, 31}
=============================================================================
