--------------------------- MODULE DurableDatabases ---------------------------
(***************************************************************************)
(* What opening a database package promises about what its databases hold, *)
(* without the steps it takes.  A database starts with its bootstrap data, *)
(* all at once, if there is such data, and empty otherwise; it keeps what  *)
(* is saved in it; only a damaged one is emptied or lost.                  *)
(***************************************************************************)
CONSTANTS Databases, Bootstrapped

VARIABLE content    \* Missing, Damaged, or the parts a database holds

Missing == {"missing"}
Damaged == {"damaged"}

Initial(d) == IF d \in Bootstrapped THEN {"bootstrap"} ELSE {}
Intact(d) == content[d] \notin {Missing, Damaged}
Become(d, value) == content' = [content EXCEPT ![d] = value]

Init == content = [d \in Databases |-> Missing]

Start(d) == content[d] = Missing /\ Become(d, Initial(d))
Spoil(d) == content[d] = Missing /\ d \in Bootstrapped /\ Become(d, Damaged)
Save(d) == Intact(d) /\ Become(d, content[d] \cup {"work"})
Damage(d) == Intact(d) /\ Become(d, Damaged)
Reset(d) == content[d] = Damaged /\ Become(d, {})
Lose(d) == content[d] = Damaged /\ Become(d, Missing)

Next == \E d \in Databases : Start(d) \/ Spoil(d) \/ Save(d) \/ Damage(d) \/ Reset(d) \/ Lose(d)

Spec == Init /\ [][Next]_content
=============================================================================
