------------------------------ MODULE IdentityMap ------------------------------
(***************************************************************************)
(* What a controller promises about which object represents which          *)
(* document, without threads, caches and queues.  An object is made for    *)
(* one document and is never another's; a document is given an object only *)
(* when it has none; it loses its object only together with its deletion,  *)
(* and the object it is given later is a new one or one that was its own.  *)
(***************************************************************************)
CONSTANTS Docs, Objs, None

VARIABLES identity,   \* the document each object was made for, None before that
          holder,     \* the object that represents each document
          removed     \* the documents whose current revision is a deletion

Hold(o, d) == holder' = [holder EXCEPT ![d] = o]

Init ==
  /\ identity = [o \in Objs |-> None]
  /\ holder = [d \in Docs |-> None]
  /\ removed = {}

Make(o, d) ==
  /\ identity[o] = None /\ holder[d] = None
  /\ identity' = [identity EXCEPT ![o] = d]
  /\ Hold(o, d)
  /\ UNCHANGED removed

Reattach(o, d) ==
  /\ identity[o] = d /\ holder[d] = None
  /\ Hold(o, d)
  /\ UNCHANGED <<identity, removed>>

Release(d) ==
  /\ holder[d] # None
  /\ Hold(None, d)
  /\ removed' = removed \cup {d}
  /\ UNCHANGED identity

Remove(d) == removed' = removed \cup {d} /\ UNCHANGED <<identity, holder>>
Revive(d) == removed' = removed \ {d} /\ UNCHANGED <<identity, holder>>

Next ==
  \E d \in Docs : \/ Release(d) \/ Remove(d) \/ Revive(d)
                  \/ \E o \in Objs : Make(o, d) \/ Reattach(o, d)

Spec == Init /\ [][Next]_<<identity, holder, removed>>
=============================================================================
