------------------------ MODULE MCScriptGovernance ------------------------
(* Instances of ScriptGovernance for TLC. *)
EXTENDS ScriptGovernance, TLC

\* Sessions and scripts are interchangeable: no property tells them apart.
Symmetric == Permutations(Sessions) \cup Permutations(Scripts)

\* What payloads bind a campaign to: a script and its first version.
FirstVersions == {[script |-> {s}, version |-> {<<s, 1>>}] : s \in Scripts}
=============================================================================
