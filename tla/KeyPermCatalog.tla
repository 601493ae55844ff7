--------------------------- MODULE KeyPermCatalog ---------------------------
(***************************************************************************)
(* The two permission catalogs of keystore2/src/permission.rs.             *)
(*                                                                         *)
(* KeyPerm wraps aidl::KeyPermission (SELinux class keystore2_key) and     *)
(* KeystorePerm wraps KeystorePermission (class keystore2).  Both are      *)
(* built by implement_permission!, which gives each a From<i32> that maps  *)
(* every unknown code to the default None = 0, and a to_selinux() name.    *)
(* A permission is represented here by its wire code, the i32 value of the *)
(* enum it wraps, so that From<i32> is modelled by what it does.           *)
(***************************************************************************)
EXTENDS Integers

(* The table that implement_permission! is given for aidl::KeyPermission: *)
(* for each variant its selinux name and its wire code, the default        *)
(* (None = 0, none) included.                                              *)
KeyPermCode ==
  [ none          |-> 0,
    delete        |-> 1,
    gen_unique_id |-> 2,
    get_info      |-> 4,
    grant         |-> 8,
    list          |-> 16,
    manage_blob   |-> 32,
    rebind        |-> 64,
    req_forced_op |-> 128,
    update        |-> 256,
    use           |-> 512,
    use_dev_id    |-> 1024 ]

KeyPermNone           == KeyPermCode.none
KeyPerm_delete        == KeyPermCode.delete
KeyPerm_gen_unique_id == KeyPermCode.gen_unique_id
KeyPerm_get_info      == KeyPermCode.get_info
KeyPerm_grant         == KeyPermCode.grant
KeyPerm_list          == KeyPermCode.list
KeyPerm_manage_blob   == KeyPermCode.manage_blob
KeyPerm_rebind        == KeyPermCode.rebind
KeyPerm_req_forced_op == KeyPermCode.req_forced_op
KeyPerm_update        == KeyPermCode.update
KeyPerm_use           == KeyPermCode.use
KeyPerm_use_dev_id    == KeyPermCode.use_dev_id

(* Every value a KeyPerm can hold, and the codes of its non-default        *)
(* variants.                                                               *)
KeyPermNames == DOMAIN KeyPermCode
KeyPerms == {KeyPermCode[n] : n \in KeyPermNames}
KeyPermCodes == KeyPerms \ {KeyPermNone}

(* From<i32> for KeyPerm: the match arm of the default, one arm per        *)
(* variant, and the catch-all arm that falls back to the default.          *)
KeyPermFrom(p) == IF p \in KeyPermCodes THEN p ELSE KeyPermNone

(* KeyPerm::to_selinux(): the name the table pairs with the variant, the   *)
(* string passed to selinux::check_access.  (The variant Use is spelled    *)
(* use_() in Rust but its selinux name is "use".)                          *)
KeyPermToSelinux(p) == CHOOSE n \in KeyPermNames : KeyPermCode[n] = p

(* The table given for KeystorePermission (class keystore2). *)
KeystorePermCode ==
  [ none      |-> 0,
    add_auth  |-> 1,
    clear_ns  |-> 2,
    get_state |-> 4,
    lock      |-> 8,
    reset     |-> 16,
    unlock    |-> 32 ]

KeystorePermNames == DOMAIN KeystorePermCode
KeystorePerms == {KeystorePermCode[n] : n \in KeystorePermNames}
KeystorePermCodes == KeystorePerms \ {KeystorePermCode.none}

(* From<i32> for KeystorePerm. *)
KeystorePermFrom(p) == IF p \in KeystorePermCodes THEN p ELSE KeystorePermCode.none

(* KeystorePerm::to_selinux(). *)
KeystorePermToSelinux(p) == CHOOSE n \in KeystorePermNames : KeystorePermCode[n] = p
=============================================================================
