------------------------------- MODULE Semver -------------------------------
(***************************************************************************)
(* The version arithmetic every part of the registry shares: bumping,      *)
(* stripping a prerelease suffix, drift severity and caret pins            *)
(* (packages/shared/src/index.ts).  A version string is its three numbers  *)
(* and the number of its "-beta.N" suffix, 0 when there is none; strings   *)
(* that do not parse are outside the domain.                               *)
(***************************************************************************)
EXTENDS Integers

Version == [major : Nat, minor : Nat, patch : Nat, beta : Nat]

Deltas == {"major", "minor", "patch"}

Release(a, b, c) == [major |-> a, minor |-> b, patch |-> c, beta |-> 0]

\* The version of a draft and the version its publication gives it.
DraftVersion == Release(0, 1, 0)
FirstVersion == Release(1, 0, 0)

IsStable(v) == v.beta = 0

StableOf(v) == [v EXCEPT !.beta = 0]

Bump(v, delta) ==
  CASE delta = "major" -> Release(v.major + 1, 0, 0)
    [] delta = "minor" -> Release(v.major, v.minor + 1, 0)
    [] delta = "patch" -> Release(v.major, v.minor, v.patch + 1)

DriftSeverity(local, latest) ==
  CASE local.major # latest.major -> "major"
    [] local.major = latest.major /\ local.minor # latest.minor -> "minor"
    [] OTHER -> "patch"

CaretByParts(v, pin) ==  \* mutant of SatisfiesCaret
  v.major = pin.major /\ v.minor >= pin.minor /\ v.patch >= pin.patch
SatisfiesCaret(v, pin) ==
  /\ v.major = pin.major
  /\ pin.major = 0 => v.minor = pin.minor
  /\ \/ v.minor > pin.minor
     \/ v.minor = pin.minor /\ v.patch >= pin.patch

\* Semantic version precedence of the released parts of two versions.
Precedes(v, w) ==
  \/ v.major < w.major
  \/ v.major = w.major /\ v.minor < w.minor
  \/ v.major = w.major /\ v.minor = w.minor /\ v.patch < w.patch

SameRelease(v, w) == StableOf(v) = StableOf(w)
=============================================================================
