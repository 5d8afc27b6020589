---------------------------- MODULE MCReplication ----------------------------
(* Instances of Replication for TLC. *)
EXTENDS Replication, TLC

\* A user's document, and one of others whose identifier is not of its type; a
\* deletion of that is valid.
MCDocuments == "mine" :> "managed" @@ "theirs" :> "mismatched"
MCLocal == {"mine"}
=============================================================================
