---------------------------- MODULE MCBundleSync ----------------------------
(***************************************************************************)
(* Instances of BundleSync: a file whose global spec a project overrides,  *)
(* and a second file; the global spec of the first is released twice.      *)
(***************************************************************************)
EXTENDS BundleSync

MCFilenames == {"guide", "api"}
MCSpecs == {<<"global", "guide">>, <<"project", "guide">>, <<"global", "api">>}
MCOverriding == [global |-> {"project"}, project |-> {}]

MCMaxRelease == [s \in MCSpecs |-> IF s = <<"global", "guide">> THEN 2 ELSE 1]
=============================================================================
