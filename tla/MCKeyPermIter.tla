---------------------------- MODULE MCKeyPermIter ----------------------------
(***************************************************************************)
(* KeyPermIter for TLC: every list of KeyPerm values, none included.       *)
(***************************************************************************)
EXTENDS KeyPermIter

MCInputPerms == SUBSET KeyPerms
=============================================================================
