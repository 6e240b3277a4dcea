----------------------------- MODULE MCPushBack -----------------------------
(***************************************************************************)
(* Small instances of PushBack for TLC: the repository fe, subscribed      *)
(* under the project type web, and two specs of one filename, of that type *)
(* and of a type of global scope.  Both reach the repository, on one       *)
(* branch per version.                                                     *)
(***************************************************************************)
EXTENDS PushBack

CONSTANTS sGlobal, sWeb, feWeb, fe, web, global, docs, STYLE, style

Types == [x \in {sGlobal, sWeb, feWeb} |-> IF x = sGlobal THEN global ELSE web]

Repository == [sub \in Subs |-> fe]
BasePath == [sub \in Subs |-> docs]
Filename == [s \in {sGlobal, sWeb} |-> STYLE]
LowerCase == [name \in {STYLE} |-> style]

OneRepo == {fe}
GlobalOnly == {global}
=============================================================================
