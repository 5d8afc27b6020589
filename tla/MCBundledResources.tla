-------------------------- MODULE MCBundledResources --------------------------
(***************************************************************************)
(* Small instances of BundledResources for TLC: three releases of the      *)
(* application, the second with a new bundled database that drops one      *)
(* document and adds another, the third with a new JSON file.              *)
(***************************************************************************)
EXTENDS BundledResources, Sequences

Releases == <<[db |-> 1, json |-> 1], [db |-> 2, json |-> 1], [db |-> 2, json |-> 2]>>
BundledDocuments == <<{"a", "b"}, {"b", "c"}>>
BundledRecords == <<{"x", "y"}, {"y", "z"}>>
=============================================================================
