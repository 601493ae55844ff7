# TLA+ models of keystore2's permission checks

This directory models `src/keystore2/src/permission.rs`, the access-control layer of Keystore 2.0, in TLA+. It contains:

- modules for its parts;
- TLC configurations that check them on small instances;
- TLAPS proofs of its main safety properties and of a refinement, for every value of the constants.

## The system

`permission.rs` has three parts.

1. **Permission catalogs.** `implement_permission!` turns two tables into the newtypes `KeyPerm` (SELinux class `keystore2_key`, codes 1..0x400) and `KeystorePerm` (class `keystore2`, codes 1..0x20). Each table lists variant, code and SELinux name. The macro gives each newtype:
   - a total `From<i32>` that maps every unknown code to the default `None = 0`;
   - `to_selinux()`, which returns the name.
2. **`KeyPermSet`.** An `i32` bit set, built with `key_perm_set!`. It has:
   - `includes`, which computes `(self & o) == o`;
   - an iterator, `perm::IntoIter`, that scans positions 0..31 and returns `KeyPerm::from(vec & (1 << pos))` for each one bit.
3. **The decision engine.**
   - `check_keystore_permission`: `getcon`, then `check_access` in class `keystore2`.
   - `check_grant_permission`:
     1. Resolves the target by domain: App uses `getcon`; SELinux uses the backend's `lookup`; any other domain gives `KsError::sys`.
     2. Checks `grant`.
     3. Refuses a vector that holds `grant`.
     4. Checks every permission of the vector in iteration order, returning at the first failure.
   - `check_key_permission`, by domain:
     - App and SELinux resolve the target as above.
     - Grant is decided locally from the access vector; a missing vector gives `sys`.
     - KeyId gives `sys`.
     - Blob looks up the namespace and checks `manage_blob` first.
     - Every domain except Grant and KeyId then ends with `check_access(perm)`.

The engine calls the SELinux backend (`keystore2_selinux`: `getcon`, `KeystoreKeyBackend`, `check_access`). That crate is not part of this repository. Here it is an oracle:
- `getcon` and `lookup` return a context or fail;
- `lookup` of a namespace the policy does not know fails;
- every `check_access` answers `allow`, `deny` or `error`, chosen anew on each call.

Because each answer is chosen anew, the model covers a policy that changes between two checks of one call.

## Modules

| Module | Models | State and actions |
|---|---|---|
| `KeyPermCatalog` | both `implement_permission!` tables, lines 75-246 | No state. `KeyPermCode` and `KeystorePermCode` are the tables, as records from SELinux name to code. `KeyPermFrom` is `From<i32>`, including the catch-all arm. `KeyPermToSelinux` is `to_selinux`. |
| `KeyPermSet` | `KeyPermSet`, `includes`, `key_perm_set!`, one pass of `IntoIter::next`, lines 271-341 | No state. A set is the set of its one bits. `Shl1` is `1 << k` at i32 width, so bit 31 is `-2^31`. `Probe` and `Yields` are the mask and `KeyPerm::from` of one pass. |
| `KeyPermIter` | `IntoIter` as a component | Variables `perms, vec, pos, out, ended`. Actions: `NextEnd` (the `pos == 32` return), `NextPass` (one pass of the loop), `IntoIter` (a fresh iterator). |
| `PermissionRequests` | the functions' arguments and vocabulary, and what their doc comments promise | No state. Request kinds, contexts, the `check_access` query record, `ExpectedTarget` (the context a domain names), `ContractViolation` (the `KsError::sys` cases), `Needed` (the checks a request needs), `LocalRefusal` (the refusals made without the backend). |
| `PermissionCheck` | the three functions, lines 345-490 | Variables: `pc` (the point in the function), `req` (the arguments), `tgt` (`target_context`), `pos` (the loop iterator's position), `log` (the `check_access` calls with their answers), `result`. There is one action per code segment between two backend calls. The segments: the domain match (`GrantResolveTarget`, `KeyResolveTarget`); the grant check and refusal (`GrantCheckSelf`); one loop pass over a zero or a one bit (`GrantSkipBit`, `GrantCheckBit`); `Ok(())` (`GrantDone`); the Blob check (`KeyCheckManageBlob`); the final check (`KeyCheckAccess`). `Call` and `Return` are the caller. |
| `PermissionDecision` | the doc comments of the three functions, as one atomic decision per call | Variables `phase` (idle, busy, done), `req`, `result`, `allowed` (the checks the backend allowed on the request's target), `denied` (the call ended on a denial). Actions `Call`, `Decide`, `Return`. |
| `PermissionRefinement` | `PermissionCheck` seen as `PermissionDecision` | The refinement mapping, `Abs == INSTANCE PermissionDecision WITH ...`, and `ImplementsDecision == Abs!Spec`. |
| `MCPermissionCheck`, `MCKeyPermIter` | TLC instances | |
| `AscendingProofs` | facts about `Ascending`, the reference order | A strictly ascending sequence whose values are a down-closed part of a finite set `S` is a prefix of `Ascending(S)`, and all of it when it covers `S` (`AscendingOfSorted`). |
| `PermissionCheckProofs`, `PermissionDecisionProofs`, `KeyPermIterProofs`, `QueryOrderProofs` | TLAPS proofs | |

`result` records the root cause of an `Err`:
- `perm`: `selinux::Error::perm`, a denial or a local refusal;
- `sys`: `KsError::sys`;
- `backend`: a failure of `getcon`, `lookup` or `check_access` passed up by `?`.

Context strings, formatting and the `anyhow` wrapping are left out.

`PROJECT.json` "map" gives the source lines of every definition.

## Runs

| Run | Checks | Shows |
|---|---|---|
| `permission_check` (`MCPermissionCheck.cfg`, 7959 states) | `TypeOK`, `AllowOnlyIfAuthorized`, `ErrorsClassified`, `QueryOrder`, `CallReturns`, `FailureEndsCall` | See below. |
| `key_perm_iter` (`MCKeyPermIter.cfg`, 139264 states) | `TypeOK`, `IterYieldsAscending` | Iterating `key_perm_set![...]` of any list of KeyPerm values (none included) yields exactly the listed permissions, each once, in ascending order, then None. It does so again after every `into_iter`. |
| `grant_token_none` (violation) | `GrantTokenOnlyContained` | `check_key_permission(none, Domain::Grant, Some(v))` is Ok for every `v`, even the empty set. `includes(0)` is always true. The spec says `none` is never grantable. |
| `refinement` (`MCPermissionRefinement.cfg`, 7959 states) | `ImplementsDecision` | `PermissionCheck` implements `PermissionDecision`, fairness included. See below. |
| `doc_example_order` (violation, `MCKeyPermIterDoc.cfg`) | `DocExampleOrder` | The example in `KeyPermSet`'s doc comment (lines 264-269) says `key_perm_set![use_, manage_blob, grant]` iterates as `manage_blob`, `grant`, `use_`. The iterator yields `grant` (0x08) first, then `manage_blob` (0x20), then `use_` (0x200). That is the ascending order the same comment names, and the order the tests and spec section 8 give. So the example is wrong, and `IterYieldsAscending` states the code's order. |
| `key_results_documented` (violation) | `KeyResultsAsDocumented` | The doc comment says backend failures become `KsError::sys`. The code passes them up unchanged, as spec section 7 asks. |

What `permission_check` shows:
- **`AllowOnlyIfAuthorized`**: Ok is returned only if the backend allowed every check the request needs, on the target its domain names. Those checks are: `grant` and every permission of the vector, up to bit 31; for Blob, both `manage_blob` and `perm`. A vector holding `grant` never passes.
- **`ErrorsClassified`**: `sys` is returned exactly for contract violations, `perm` only on a definite verdict, and a backend deny is never reported as anything else.
- **`QueryOrder`**: the backend is asked in the fixed order, the vector's permissions by ascending bit, and nothing is asked after the first answer that is not `allow`. A vector holding `grant` is refused right after the `grant` check, with no loop query. Moving the refusal after the loop breaks this property.
- **`CallReturns`**: every call ends.
- **`FailureEndsCall`** (an action property): the step that receives an answer other than `allow` returns from the function in that same step, and not with Ok. This is the `?` after every `check_access`.

`QueryOrder` and its helpers `QueryNames` and `ExpectedNames` are defined in `PermissionCheck`, so that the proofs can state them.

What `refinement` shows. `PermissionDecision.Decide` is the promise of the doc comments:
- the call asks the backend only for checks the request needs;
- it returns `KsError::sys` exactly on a contract violation;
- it returns Ok only if every needed check was allowed and no local refusal applies;
- it returns `selinux::Error::perm` only on a denial or a local refusal, and every denial as `selinux::Error::perm`;
- a `Domain::Grant` token check asks the backend nothing and returns the vector's verdict.

The mapping:
- `phase` is `idle` or `done` when `pc` is, and `busy` at every other `pc`;
- `result`, `allowed` and `denied` are `NoResult`, `{}` and `FALSE` until the call is done;
- once done, `allowed` is the set of checks the log shows allowed on the expected target, and `denied` says whether the last answer was a denial.

So every step inside a call is a stutter of the decision, and the step that returns is `Decide`. `Abs!Spec` includes weak fairness of `Decide` and `Return`, so the run also checks that every call is decided.

The `permission_check` instance:
- one caller;
- namespace 0, known to the policy, and namespace 1, unknown, so that `lookup` fails;
- requested permissions `none`, `grant`, `manage_blob` and `use`;
- all access vectors over bits 0, 3 (grant), 5 (manage_blob), 10 (use_dev_id, the highest defined bit) and 31 (the sign bit, which no permission defines).

These bounds reach every code path:
- every domain;
- both results of `includes`;
- a failure at each backend call;
- both ends of the iterator's scan;
- the `From<i32>` fallback.

More callers or namespaces would only rename contexts. The functions share no state between calls.

`CHECK_DEADLOCK` stays on. After `Return` a new call can always start.

Each property has a mutant, listed in `PROJECT.json`. Each mutant is a plausible bug, and TLC finds its property violated:
- the `pos == 32` bound dropped;
- `pos += 1` dropped;
- the mask one bit too high;
- the increment moved before the mask;
- the grant refusal dropped;
- a backend error reported as a denial;
- a backend error in the grant loop let go, with the loop carrying on (for `FailureEndsCall`);
- `Domain::Blob` resolved like `Domain::SELinux`, without the `manage_blob` check (for `ImplementsDecision`).

## Fairness

`Spec` of `PermissionCheck` assumes weak fairness of `Step` (the functions' own code) and of `Return`. The functions are sequential code with no waits. The only loop runs at most 32 passes, and each backend call returns, with an error at worst. So a started call keeps running until it returns. `Call` has no fairness: nobody is obliged to call.

`KeyPermIter` assumes weak fairness of `Next`, since a caller drives `next()`.

## Proofs (checked by tlapm)

`PermissionCheckProofs` proves two theorems:

- **`TypeCorrect`**: `Spec => []TypeOK`. It rests on the inductive `TypeInv`, which adds to `TypeOK` which request kind each `pc` belongs to, and that a target is resolved once the domain match is past.
- **`Soundness`**: `Spec => []AllowOnlyIfAuthorized`, for every set of callers, contexts, namespaces and requests. `AllowOnlyIfAuthorized` is not inductive as it stands. The strengthening `IInv = TypeInv /\ SoundInv` records what a call has already established at each `pc`:
  - the domain;
  - `tgt = ExpectedTarget(req)` once resolved;
  - in the loop, that `grant` was allowed, that the vector does not hold `grant`, and that every bit of the vector below `pos` was allowed;
  - before a Blob key's final check, that `manage_blob` was allowed.

  TLC checked `IInv` on the instance above before it was proved.

  The proof has one case per action. It rests on these lemmas:
  - `AllowedAppend`: appending to the log keeps every earlier allow;
  - `QueryAllow`: an allowed query on the expected target is the allow record;
  - `ResolvedTarget`: the target the domain match resolves is the expected one;
  - `ProbeNonZero`: a probe is non-zero exactly on a set bit. It needs `Shl1NonZero`, proved one position at a time, since 2^k cannot be reasoned about in general.

  The step `GrantDone` closes the loop argument: at `pos = 32` every bit of the vector is below `pos`.

`PermissionDecisionProofs` adds two theorems:
- **`ErrorKinds`**: `Spec => []ErrorsClassified`. Its strengthening `DecisionInv` holds on top of `IInv`. It states:
  - the log is empty until the target is resolved;
  - no answer before the last was a denial while the call runs, since a failure ends it;
  - every query is one the request needs (`AskedOnlyNeeded`);
  - `ErrorsClassified`.

  TLC checked `IInv /\ DecisionInv` on the `permission_check` instance before it was proved. The step proof has one case per action. Inside each case, the query appended is shown to be needed and the last answer to be the one just received. `ErrorsClassified` then follows from the domain facts of `SoundInv`, since a call past the match on `key.domain` is no contract violation.
- **`Refinement`**: `Spec => Abs!Init /\ [][Abs!Next]_Abs!avars`, the safety part of `ImplementsDecision`. It rests on `IInv /\ DecisionInv`, on both sides of each step:
  - `Call` and `Return` map to the decision's `Call` and `Return`;
  - a step that leaves the call running is a stutter;
  - a step that returns is `Decide`. Ok is covered by `AllowOnlyIfAuthorized` (lemma `OkCovered`), the allowed checks are needed by `AskedOnlyNeeded`, the error kinds come from `ErrorsClassified`, and `GrantTokenStep` gives the `Domain::Grant` case.

  `AbsSame` identifies the instance's copies of the shared definitions with the module's own.

`KeyPermIterProofs` proves two theorems about the iterator, for every set of permissions passed to `key_perm_set!`:
- **`IterTypeCorrect`**: `Spec => []TypeOK`.
- **`IterCorrect`**: `Spec => []IterYieldsAscending`. What `next()` has returned is a prefix of the listed permissions in ascending order, and all of them once it returns None.

  The inductive invariant `IterInv` adds three facts to `TypeOK`:
  - `vec` is the set of bits of `perms`;
  - `out` is strictly ascending;
  - the values of `out` are exactly `1 << k` for the bits `k` of `vec` below `pos`.

  TLC checked `IterInv` on all 4096 sets of permissions (139264 states) before it was proved.

  `IterYieldsAscending` then follows from `AscendingOfSorted` in `AscendingProofs`. `Ascending` is defined by `CHOOSE` over the count of smaller elements, so no induction over data is needed: the lemma counts the elements below each value with `FS_Bijection`.

  The arithmetic on `1 << k` is done one literal at a time:
  - `Shl1Table` gives the values for bits 0 to 10;
  - `Shl1High` shows that bits 11 to 31 are no permission;
  - `Shl1Mono` gives monotonicity.

`QueryOrderProofs` proves two theorems about the decision functions:
- **`QueryOrderHolds`**: `Spec => []QueryOrder`, for every value of the constants. The inductive invariant `OrderInv` holds on top of `IInv`. It states:
  - `pos` is 0 outside the loop;
  - the log is empty before the first check;
  - every answer so far is `allow` while the call runs;
  - the key path has asked at most `manage_blob` before its final check;
  - for a grant, the log is `"grant"` followed by the names of the bits of the vector below `pos`, as a strictly ascending sequence of bits (`GrantLogShape`);
  - a grant request whose vector holds `grant` has at most one query. This conjunct is needed because `ExpectedNames` is then `<<"grant">>` alone. `SoundInv` keeps such a request out of the loop.

  TLC checked `OrderInv` on the `permission_check` instance before it was proved. The step proof has one case per action. In the loop, `GrantNamesAppend` appends one bit to the shape. At the end, `GrantLogPrefix` uses `AscendingOfSorted` to show that those bits are the first bits of `Ascending(av)`, so the log is a prefix of `ExpectedNames`.
- **`FailureEnds`**: `Spec => FailureEndsCall`. It needs only `TypeInv`. Every step either appends the answer it received and returns `AccessResult` of it unless it is `allow` (`AppendStep`), or leaves the log alone (`NoAppendStep`).

**Model-checked only**, and why:
- the fairness half of `ImplementsDecision`, and `CallReturns`. These are liveness under weak fairness. TLAPS here has no support for `ENABLED` and for reasoning from fairness, so TLC checks them on the instances above.
- `GrantTokenOnlyContained`, `KeyResultsAsDocumented` and `DocExampleOrder`. All three are false of the code, and the `violation` runs show it.

## Not modelled

- **The SELinux backend and its policy** are an oracle, as above.
- **The generated constructors** (`KeyPerm::grant()` and the like) and the macro's per-variant tests are not modelled: they change no state.
- **The unit tests and their `getcon` mock** are not modelled. What they assert is stated as properties instead.
- **Granting and revocation across the key database**, and the lifetime of grants, are not modelled. This is recorded as a hazard in `PROJECT.json`.

- **A policy reload that remaps a namespace** between `lookup` and a later `check_access` of the same call is not modelled. `NsContext` is a constant. This is listed as a hazard.

## Plan

Planned work, in order:
1. A composition of `check_grant_permission` with later `Domain::Grant` checks of the granted vector. Its environment would be a grant store, which lives outside this repository.
2. The backend's namespace mapping as state, so that the remap hazard can be checked.
