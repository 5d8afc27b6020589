---------------------------- MODULE MCContributors ----------------------------
(***************************************************************************)
(* Contributors for TLC.  Threads, identities and the contributors that    *)
(* there are at first are alike, and only safety is checked.               *)
(***************************************************************************)
EXTENDS Contributors, TLC

Alike == Permutations(Threads) \cup Permutations(Identities) \cup Permutations(Existing)
=============================================================================
