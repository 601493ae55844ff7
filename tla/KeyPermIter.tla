----------------------------- MODULE KeyPermIter -----------------------------
(***************************************************************************)
(* perm::IntoIter of permission.rs, the iterator over a KeyPermSet, as a   *)
(* component: a set built with key_perm_set! from some permissions, an     *)
(* iterator over it, and the permissions next() has returned so far.       *)
(* Each step is one pass of the loop in next(); into_iter() may start a    *)
(* fresh iterator over the same (Copy) set at any time.                    *)
(***************************************************************************)
EXTENDS KeyPermSet, SequencesExt

CONSTANT InputPerms   \* the sets of KeyPerm values a set is built from

ASSUME InputPermsAssumption == InputPerms \subseteq SUBSET KeyPerms

VARIABLES
  perms,  \* the arguments of key_perm_set![...]
  vec,    \* IntoIter.vec
  pos,    \* IntoIter.pos
  out,    \* what next() has returned, in order
  ended   \* next() has returned None

vars == <<perms, vec, pos, out, ended>>

Init ==
  /\ perms \in InputPerms
  /\ vec = KeyPermSetOf(perms)
  /\ pos = 0
  /\ out = <<>>
  /\ ended = FALSE

(* IntoIter::next: `if self.pos == 32 { return None; }`. *)
NextEnd ==
  /\ ~ended
  /\ pos = IterEnd
  /\ ended' = TRUE
  /\ UNCHANGED <<perms, vec, pos, out>>

(* Variants of the pass: one without the `pos == 32` bound, one that      *)
(* increments pos before it masks.                                         *)
NextPassUnbounded ==
  /\ ~ended
  /\ pos' = pos + 1
  /\ out' = IF Probe(vec, pos) # 0 THEN Append(out, Yields(vec, pos)) ELSE out
  /\ UNCHANGED <<perms, vec, ended>>

NextPassSwapped ==
  /\ ~ended
  /\ pos # IterEnd
  /\ pos' = pos + 1
  /\ out' = IF Probe(vec, pos + 1) # 0 THEN Append(out, Yields(vec, pos + 1)) ELSE out
  /\ UNCHANGED <<perms, vec, ended>>

(* IntoIter::next: one pass of the loop below the bound; returns           *)
(* Some(KeyPerm::from(p)) when p != 0 and loops otherwise.                 *)
NextPass ==
  /\ ~ended
  /\ pos # IterEnd
  /\ pos' = pos + 1
  /\ out' = IF Probe(vec, pos) # 0 THEN Append(out, Yields(vec, pos)) ELSE out
  /\ UNCHANGED <<perms, vec, ended>>

(* KeyPermSet::into_iter: IntoIter::new(self), pos = 0. *)
IntoIter ==
  /\ ended
  /\ pos' = 0
  /\ out' = <<>>
  /\ ended' = FALSE
  /\ UNCHANGED <<perms, vec>>

Next == NextEnd \/ NextPass \/ IntoIter

Spec == Init /\ [][Next]_vars /\ WF_vars(Next)

TypeOK ==
  /\ perms \in InputPerms
  /\ vec \in KeyPermSets
  /\ pos \in 0..IterEnd
  /\ out \in Seq(KeyPerms)
  /\ ended \in BOOLEAN

(* Reference: the defined permissions of the list, by ascending code.      *)
SortedPerms(ps) == Ascending(ps \ {KeyPermNone})

(* Spec 4.2 and the tests key_perm_set_*_test: iterating a set built with  *)
(* key_perm_set! returns exactly the permissions it was built from, each   *)
(* once, in strictly ascending bit order, and then None; the none          *)
(* permission adds no bit and is never returned.                           *)
IterYieldsAscending ==
  /\ ended => out = SortedPerms(perms)
  /\ IsPrefix(out, SortedPerms(perms))

(* The example in the doc comment of KeyPermSet (permission.rs:256-270):   *)
(* iterating key_perm_set![use_(), manage_blob(), grant()] yields          *)
(* manage_blob, then grant, then use_, then None. The same comment calls   *)
(* this ascending order, but manage_blob is 0x20 and grant 0x08.           *)
DocExamplePerms == {KeyPerm_use, KeyPerm_manage_blob, KeyPerm_grant}

DocExampleOrder ==
  perms = DocExamplePerms =>
    /\ IsPrefix(out, <<KeyPerm_manage_blob, KeyPerm_grant, KeyPerm_use>>)
    /\ ended => Len(out) = 3
=============================================================================
