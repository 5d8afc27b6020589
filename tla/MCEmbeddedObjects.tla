-------------------------- MODULE MCEmbeddedObjects --------------------------
(* Instances of EmbeddedObjects for TLC. *)
EXTENDS EmbeddedObjects

\* What the document holds at the start, or after another replica has edited it.
MCStored == {[id |-> "a", field |-> v, ref |-> None] : v \in Values}
=============================================================================
