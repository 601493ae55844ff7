----------------------------- MODULE KeyPermSet -----------------------------
(***************************************************************************)
(* KeyPermSet of permission.rs: a set of KeyPerm held in one i32.  The i32 *)
(* is represented by the set of its one bits (positions 0..31), so that    *)
(* `&` is intersection and `|` is union, and a bit's value is 1 << pos     *)
(* taken at the width of an i32.                                           *)
(***************************************************************************)
EXTENDS KeyPermCatalog, FiniteSets

(* The bit positions of the i32 behind a KeyPermSet; the iterator's pos    *)
(* runs from 0 up to and including IterEnd.                                *)
BitPos  == 0..31
IterEnd == 32

KeyPermSets == SUBSET BitPos

(* `1 << k` for an i32: bit 31 is the sign bit. *)
Shl1(k) == IF k = 31 THEN -2147483647 - 1 ELSE 2^k

(* The bits of the i32 value c. *)
CodeBits(c) == {k \in BitPos : Shl1(k) = c}

(* From<KeyPerm> for KeyPermSet: Self(p.0 as i32). *)
FromKeyPerm(p) == CodeBits(p)

(* key_perm_set![p1, p2, ...]: the OR of the codes; the empty list gives   *)
(* KeyPermSet(0).                                                          *)
KeyPermSetOf(ps) == UNION {CodeBits(p) : p \in ps}

(* KeyPermSet::includes: (self.0 & o.0) == o.0. *)
Includes(s, o) == s \cap o = o

(* The KeyPerm that bit k of a KeyPermSet stands for. *)
BitPerm(k) == KeyPermFrom(Shl1(k))

(* A variant that masks with `2 << pos`, one bit too high. *)
ProbeShifted(v, pos) == IF pos \in v THEN Shl1(pos + 1) ELSE 0

(* One pass of the loop in IntoIter::next at position pos < 32:            *)
(* p = self.vec.0 & (1 << self.pos), and the KeyPerm it yields when p != 0 *)
Probe(v, pos) == IF pos \in v THEN Shl1(pos) ELSE 0

Yields(v, pos) == KeyPermFrom(Probe(v, pos))

(* The elements of a finite set of integers as a sequence in ascending     *)
(* order: the reference the iteration order is checked against.            *)
Ascending(S) ==
  [i \in 1..Cardinality(S) |-> CHOOSE x \in S : Cardinality({y \in S : y < x}) = i - 1]
=============================================================================
