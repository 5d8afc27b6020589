------------------------- MODULE Contributors_proofs -------------------------
(***************************************************************************)
(* That one contributor at most is the user after a claim that nothing     *)
(* came between, and until something does, for any contributors,           *)
(* identities and threads.  A claim has found a contributor once for every *)
(* identity it had, and deletes one of its identities every time: those    *)
(* that are left are no more than the times the contributor is to come.    *)
(***************************************************************************)
EXTENDS Contributors, FiniteSetTheorems, TLAPS

Present(c) == state[c] \in {"new", "saved"}

\* What -setIsMe: relies on at each of its steps.
Suits(label, w) ==
  /\ label \in {"existing", "find", "assign"} => w.self # None
  /\ w.self # None => state[w.self] # "none"
  /\ label = "delete" => w.identity \in Identities
  /\ label \in {"existing", "find"} => w.identity = None

\* Contributors that are loaded, or the user, have been made; new ones are loaded.
StateInv ==
  /\ \A c \in loaded : state[c] # "none"
  /\ \A c \in People : state[c] = "new" => c \in loaded
  /\ \A i \in Identities : identities[i] # None => state[identities[i]] # "none"

PeopleInv == TypeOK /\ StateInv /\ \A t \in Threads : Suits(pc[t], work[t])

-----------------------------------------------------------------------------
(* Types *)

\* The parts of the locals have their types.
LEMMA WorkType ==
  ASSUME NEW w \in Work
  PROVE  /\ w.self \in People \cup {None} /\ w.identity \in Identities \cup {None}
         /\ w.others \in [Identities -> People \cup {None}]
BY DEF Work

\* No thread is at work at the start.
LEMMA NoWorkType == NoWork \in Work /\ NoWork.self = None /\ NoWork.identity = None /\ NoWork.others = NoOthers
BY DEF NoWork, Work, NoOthers

\* There are no identities at the start.
LEMMA PeopleInit == Init => PeopleInv
<1> SUFFICES ASSUME Init PROVE PeopleInv
  OBVIOUS
<1>1. pulls \in 0..MaxPulls /\ failures \in 0..MaxFailures
  BY BoundsAssumption DEF Init
<1>2. TypeOK
  BY <1>1, NoWorkType DEF Init, TypeOK, States, Labels
<1>3. StateInv
  BY ExistingAssumption DEF Init, StateInv
<1>4. \A t \in Threads : Suits(pc[t], work[t])
  BY NoWorkType DEF Init, Suits
<1>5. QED
  BY <1>2, <1>3, <1>4 DEF PeopleInv

\* A step of a thread to a place that its locals suit keeps what the other threads
\* rely on.
LEMMA GotoKeeps ==
  ASSUME PeopleInv, NEW t \in Threads, NEW label \in Labels, NEW w \in Work,
         Goto(t, label, w), Suits(label, w), UNCHANGED state
  PROVE  /\ pc' \in [Threads -> Labels] /\ work' \in [Threads -> Work]
         /\ \A u \in Threads : Suits(pc[u], work[u])'
         /\ pc'[t] = label /\ work'[t] = w
         /\ \A u \in Threads \ {t} : pc'[u] = pc[u] /\ work'[u] = work[u]
<1>1. pc \in [Threads -> Labels] /\ work \in [Threads -> Work]
  BY DEF PeopleInv, TypeOK
<1>2. pc' = [pc EXCEPT ![t] = label] /\ work' = [work EXCEPT ![t] = w]
  BY DEF Goto
<1>3. pc' \in [Threads -> Labels] /\ work' \in [Threads -> Work]
  BY <1>1, <1>2
<1>4. pc'[t] = label /\ work'[t] = w
  BY <1>1, <1>2
<1>5. \A u \in Threads \ {t} : pc'[u] = pc[u] /\ work'[u] = work[u]
  BY <1>1, <1>2
<1>6. ASSUME NEW u \in Threads, u # t PROVE Suits(pc[u], work[u])'
  BY <1>5, <1>6, ZenonT(30) DEF PeopleInv, Suits
<1>7. Suits(pc[t], work[t])'
  BY <1>4, ZenonT(30) DEF Suits
<1>8. QED
  BY <1>3, <1>4, <1>5, <1>6, <1>7, ZenonT(30)

\* A step of a thread that leaves the contributors and their identities alone.
LEMMA GotoOnly ==
  ASSUME PeopleInv, NEW t \in Threads, NEW label \in Labels, NEW w \in Work,
         Goto(t, label, w), Suits(label, w), UNCHANGED <<state, loaded, identities>>
  PROVE  /\ pc' \in [Threads -> Labels] /\ work' \in [Threads -> Work]
         /\ StateInv' /\ \A u \in Threads : Suits(pc[u], work[u])'
         /\ pc'[t] = label /\ work'[t] = w
         /\ \A u \in Threads \ {t} : pc'[u] = pc[u] /\ work'[u] = work[u]
<1>1. StateInv'
  BY ZenonT(30) DEF PeopleInv, StateInv
<1>2. QED
  BY <1>1, GotoKeeps, ZenonT(30)

\* The rest of the types.
LEMMA OtherTypes ==
  ASSUME PeopleInv, [Next]_vars
  PROVE  /\ used' \subseteq Identities /\ me' \in People \cup {None}
         /\ pulls' \in 0..MaxPulls /\ failures' \in 0..MaxFailures
         /\ alone' \subseteq Threads /\ clean' \in BOOLEAN
<1>0. TypeOK
  BY DEF PeopleInv
<1>1. used' \subseteq Identities
  BY <1>0, ZenonT(30) DEF TypeOK, Next, Step, Load, Me, Save, DeleteDocument, PullRevision, Restart, SetIsMe, SetIsNotMe,
         ExistingContributors, FindIdentity, DeleteIdentity, SaveIdentity, SetMe, documents, vars
<1>2. me' \in People \cup {None}
  <2>1. \A t \in Threads : work[t].self \in People \cup {None}
    BY <1>0, WorkType, ZenonT(30) DEF TypeOK
  <2>2. QED
    BY <1>0, <2>1, ZenonT(30)
       DEF TypeOK, Next, Step, Load, Me, Save, DeleteDocument, PullRevision, Restart, SetIsMe, SetIsNotMe,
           ExistingContributors, FindIdentity, DeleteIdentity, SaveIdentity, SetMe, vars
<1>3. /\ pulls' = pulls \/ (pulls < MaxPulls /\ pulls' = pulls + 1)
      /\ failures' = failures \/ (failures < MaxFailures /\ failures' = failures + 1)
  BY ZenonT(30) DEF Next, Step, Load, Me, Save, DeleteDocument, PullRevision, Restart, SetIsMe, SetIsNotMe,
         ExistingContributors, FindIdentity, DeleteIdentity, SaveIdentity, SetMe, vars
<1>4. pulls' \in 0..MaxPulls /\ failures' \in 0..MaxFailures
  BY <1>0, <1>3, BoundsAssumption DEF TypeOK
<1>5. alone' \subseteq Threads
  BY <1>0, ZenonT(30) DEF TypeOK, Next, Step, Load, Me, Save, DeleteDocument, PullRevision, Restart, SetIsMe, SetIsNotMe,
         ExistingContributors, FindIdentity, DeleteIdentity, SaveIdentity, SetMe, history, vars
<1>6. clean' \in BOOLEAN
  BY <1>0, ZenonT(30) DEF TypeOK, Next, Step, Load, Me, Save, DeleteDocument, PullRevision, Restart, SetIsMe, SetIsNotMe,
         ExistingContributors, FindIdentity, DeleteIdentity, SaveIdentity, SetMe, history, vars
<1>7. QED
  BY <1>1, <1>2, <1>4, <1>5, <1>6

\* A contributor that has been made stays made, deleted or not.
Ages == \A c \in People : state'[c] = "none" => state[c] = "none"

\* One step per action.
LEMMA PeopleStep ==
  ASSUME PeopleInv, [Next]_vars
  PROVE  PeopleInv'
<1> USE NoneAssumption
<1> DEFINE Goes == /\ pc' \in [Threads -> Labels] /\ work' \in [Threads -> Work]
                   /\ \A u \in Threads : Suits(pc[u], work[u])'
           Has == /\ state' \in [People -> States] /\ loaded' \subseteq People
                  /\ identities' \in [Identities -> People \cup {None}]
                  /\ StateInv'
<1>t. /\ state \in [People -> States] /\ loaded \subseteq People
      /\ identities \in [Identities -> People \cup {None}]
      /\ pc \in [Threads -> Labels] /\ work \in [Threads -> Work]
  BY DEF PeopleInv, TypeOK
<1>s. StateInv /\ \A u \in Threads : Suits(pc[u], work[u])
  BY DEF PeopleInv
<1>w. \A u \in Threads : /\ work[u] \in Work /\ work[u].self \in People \cup {None}
                         /\ work[u].identity \in Identities \cup {None}
                         /\ work[u].others \in [Identities -> People \cup {None}]
  BY <1>t, WorkType, ZenonT(30)
<1>h. UNCHANGED <<state, loaded, identities>> => Has
  BY <1>s, <1>t, ZenonT(30) DEF StateInv
<1>g. UNCHANGED <<pc, work>> /\ Ages => Goes
  <2> SUFFICES ASSUME UNCHANGED <<pc, work>>, Ages, NEW u \in Threads PROVE Suits(pc[u], work[u])'
    BY <1>t
  <2>1. work[u].self # None => state'[work[u].self] # "none"
    BY <1>s, <1>w, ZenonT(30) DEF Ages, Suits
  <2>2. QED
    BY <1>s, <2>1, ZenonT(30) DEF Suits
<1>1. ASSUME UNCHANGED vars PROVE Goes /\ Has
  <2>1. UNCHANGED <<state, loaded, identities, pc, work>>
    BY <1>1 DEF vars
  <2>2. Ages
    BY <2>1 DEF Ages
  <2>3. QED
    BY <1>g, <1>h, <2>1, <2>2
<1>2. ASSUME NEW t, NEW c \in People,
             Load(t, c) \/ Me(t, c) \/ Save(t, c) \/ DeleteDocument(t, c) \/ PullRevision(c)
      PROVE  Goes /\ Has
  <2>1. UNCHANGED <<identities, pc, work>>
    BY <1>2, ZenonT(30) DEF Load, Me, Save, DeleteDocument, PullRevision, IdleIn, documents
  <2>2. state' \in [People -> States] /\ loaded' \subseteq People
    BY <1>2, <1>t DEF Load, Me, Save, DeleteDocument, PullRevision, States
  <2>3. Ages
    BY <1>2, <1>t DEF Load, Me, Save, DeleteDocument, PullRevision, Ages
  <2>4. \A d \in loaded' : state'[d] # "none"
    BY <1>2, <1>s, <1>t DEF Load, Me, Save, DeleteDocument, PullRevision, StateInv
  <2>5. \A d \in People : state'[d] = "new" => d \in loaded'
    BY <1>2, <1>s, <1>t DEF Load, Me, Save, DeleteDocument, PullRevision, StateInv
  <2>6. \A i \in Identities : identities'[i] # None => state'[identities'[i]] # "none"
    BY <1>s, <1>t, <2>1, <2>3 DEF Ages, StateInv
  <2>7. QED
    BY <1>g, <1>t, <2>1, <2>2, <2>3, <2>4, <2>5, <2>6 DEF StateInv
<1>3. ASSUME Restart PROVE Goes /\ Has
  <2>1. UNCHANGED identities /\ loaded' = {} /\ pc' = [t \in Threads |-> "idle"] /\ work' = [t \in Threads |-> NoWork]
    BY <1>3 DEF Restart, documents
  <2>2. state' \in [People -> States] /\ Ages /\ \A d \in People : state'[d] # "new"
    BY <1>3, <1>t DEF Restart, Ages, States
  <2>3. \A i \in Identities : identities'[i] # None => state'[identities'[i]] # "none"
    BY <1>s, <1>t, <2>1, <2>2 DEF Ages, StateInv
  <2>4. Has
    BY <1>t, <2>1, <2>2, <2>3 DEF StateInv
  <2>5. Goes
    BY <2>1, NoWorkType DEF Suits, Labels
  <2>6. QED
    BY <2>4, <2>5
<1>4. ASSUME NEW t \in Threads, NEW c \in People, SetIsMe(t, c) PROVE Goes /\ Has
  <2> DEFINE w == [NoWork EXCEPT !.self = c]
  <2>1. UNCHANGED <<state, loaded, identities>> /\ Goto(t, "existing", w) /\ c \in loaded
    BY <1>4, ZenonT(30) DEF SetIsMe, documents, contributors
  <2>2. w \in Work /\ w.self = c /\ w.identity = None
    BY NoWorkType DEF Work
  <2>3. Suits("existing", w)
    BY <1>s, <2>1, <2>2, ZenonT(30) DEF Suits, StateInv
  <2> HIDE DEF w
  <2>4. QED
    BY <1>h, <2>1, <2>2, <2>3, GotoOnly, ZenonT(30) DEF Labels
<1>5. ASSUME NEW t \in Threads, NEW c \in People, SetIsNotMe(t, c) PROVE Goes /\ Has
  <2>1. PICK i \in IdentitiesOf(c) : Goto(t, "delete", [NoWork EXCEPT !.identity = i])
    BY <1>5, ZenonT(30) DEF SetIsNotMe
  <2> DEFINE w == [NoWork EXCEPT !.identity = i]
  <2>2. i \in Identities
    BY DEF IdentitiesOf
  <2>3. w \in Work /\ w.self = None /\ w.identity = i
    BY <2>2, NoWorkType DEF Work
  <2>4. Suits("delete", w)
    BY <2>2, <2>3, ZenonT(30) DEF Suits
  <2>5. UNCHANGED <<state, loaded, identities>> /\ Goto(t, "delete", w)
    BY <1>5, <2>1, ZenonT(30) DEF SetIsNotMe, documents, contributors
  <2> HIDE DEF w
  <2>6. QED
    BY <1>h, <2>3, <2>4, <2>5, GotoOnly, ZenonT(30) DEF Labels
<1>6. ASSUME NEW t \in Threads, ExistingContributors(t) PROVE Goes /\ Has
  <2> DEFINE found == [i \in Identities |-> IF Found(identities[i]) THEN identities[i] ELSE None]
             w == [work[t] EXCEPT !.others = found]
  <2>1. /\ pc[t] = "existing" /\ Goto(t, "find", w) /\ UNCHANGED <<state, identities>>
        /\ loaded' = loaded \cup {c \in People : IsMe(c) /\ Found(c)}
    BY <1>6, ZenonT(30) DEF ExistingContributors, documents
  <2>2. found \in [Identities -> People \cup {None}]
    BY <1>t
  <2>3. w \in Work /\ w.self = work[t].self /\ w.identity = work[t].identity
    BY <1>w, <2>2 DEF Work
  <2>4. Suits("find", w)
    BY <1>s, <2>1, <2>3, ZenonT(30) DEF Suits
  <2> HIDE DEF w
  <2>6. Goes
    BY <2>1, <2>3, <2>4, GotoKeeps, ZenonT(30) DEF Labels
  <2>7. loaded' \subseteq People /\ \A c \in loaded' : c \in loaded \/ state[c] = "saved"
    BY <1>t, <2>1, ZenonT(30) DEF Found
  <2>8. Has
    BY <1>s, <1>t, <2>1, <2>7 DEF StateInv
  <2>9. QED
    BY <2>6, <2>8
<1>7. ASSUME NEW t \in Threads, NEW i \in Identities, FindIdentity(t, i) PROVE Goes /\ Has
  <2> DEFINE c == work[t].others[i]
             rest == [work[t] EXCEPT !.others[i] = None]
  <2>1. pc[t] = "find" /\ UNCHANGED <<state, loaded, identities>>
    BY <1>7, ZenonT(30) DEF FindIdentity, documents, contributors
  <2>2. rest \in Work /\ rest.self = work[t].self /\ rest.identity = work[t].identity
    BY <1>w DEF Work
  <2>3. CASE IsMe(c)
    <3>1. PICK j \in IdentitiesOf(c) : Goto(t, "delete", [rest EXCEPT !.identity = j])
      BY <1>7, <2>3, ZenonT(30) DEF FindIdentity
    <3> DEFINE w == [rest EXCEPT !.identity = j]
    <3>2. j \in Identities
      BY DEF IdentitiesOf
    <3> HIDE DEF rest
    <3>3. w \in Work /\ w.self = work[t].self /\ w.identity = j
      BY <2>2, <3>2 DEF Work
    <3>4. Suits("delete", w)
      BY <1>s, <2>1, <3>2, <3>3, ZenonT(30) DEF Suits
    <3>5. Goto(t, "delete", w)
      BY <3>1
    <3> HIDE DEF w
    <3>6. QED
      BY <1>h, <2>1, <3>3, <3>4, <3>5, GotoOnly, ZenonT(30) DEF Labels
  <2>4. CASE ~IsMe(c)
    <3>1. Goto(t, "find", rest)
      BY <1>7, <2>4, ZenonT(30) DEF FindIdentity
    <3> HIDE DEF rest
    <3>2. Suits("find", rest)
      BY <1>s, <2>1, <2>2, ZenonT(30) DEF Suits
    <3>3. QED
      BY <1>h, <2>1, <2>2, <3>1, <3>2, GotoOnly, ZenonT(30) DEF Labels
  <2>5. QED
    BY <2>3, <2>4
<1>8. ASSUME NEW t \in Threads, DeleteIdentity(t) PROVE Goes /\ Has
  <2>1. /\ pc[t] = "delete" /\ UNCHANGED <<state, loaded>>
        /\ identities' = identities \/ identities' = [identities EXCEPT ![work[t].identity] = None]
    BY <1>8, ZenonT(30) DEF DeleteIdentity, contributors
  <2>2. identities' \in [Identities -> People \cup {None}]
    BY <1>t, <2>1
  <2>3. \A i \in Identities : identities'[i] # None => identities'[i] = identities[i]
    BY <1>t, <2>1
  <2>4. Has
    BY <1>s, <1>t, <2>1, <2>2, <2>3, ZenonT(30) DEF StateInv
  <2>6. CASE work[t].self = None
    <3>1. Goto(t, "idle", NoWork) /\ Suits("idle", NoWork)
      BY <1>8, <2>6, NoWorkType, ZenonT(30) DEF DeleteIdentity, Suits
    <3>2. QED
      BY <2>1, <2>4, <3>1, NoWorkType, GotoKeeps, ZenonT(30) DEF Labels
  <2>7. CASE work[t].self # None
    <3> DEFINE w == [work[t] EXCEPT !.identity = None]
    <3>1. w \in Work /\ w.self = work[t].self /\ w.identity = None
      BY <1>w DEF Work
    <3>2. Goto(t, "find", w)
      BY <1>8, <2>7, ZenonT(30) DEF DeleteIdentity
    <3> HIDE DEF w
    <3>3. Suits("find", w)
      BY <1>s, <2>1, <2>7, <3>1, ZenonT(30) DEF Suits
    <3>4. QED
      BY <2>1, <2>4, <3>1, <3>2, <3>3, GotoKeeps, ZenonT(30) DEF Labels
  <2>8. QED
    BY <2>6, <2>7
<1>9. ASSUME NEW t \in Threads, NEW i \in Identities, SaveIdentity(t, i) PROVE Goes /\ Has
  <2>1. /\ pc[t] = "find" /\ UNCHANGED <<state, loaded>> /\ Goto(t, "assign", work[t])
        /\ identities' = identities \/ identities' = [identities EXCEPT ![i] = work[t].self]
    BY <1>9, ZenonT(30) DEF SaveIdentity, contributors
  <2>2. work[t].self # None /\ state[work[t].self] # "none"
    BY <1>s, <2>1, ZenonT(30) DEF Suits
  <2>3. identities' \in [Identities -> People \cup {None}]
    BY <1>t, <1>w, <2>1
  <2>4. \A j \in Identities : identities'[j] \in {identities[j], work[t].self}
    BY <1>t, <2>1
  <2>5. Has
    BY <1>s, <1>t, <2>1, <2>2, <2>3, <2>4 DEF StateInv
  <2>7. Suits("assign", work[t])
    BY <1>s, <2>1, <2>2, ZenonT(30) DEF Suits
  <2>8. QED
    BY <1>w, <2>1, <2>5, <2>7, GotoKeeps, ZenonT(30) DEF Labels
<1>10. ASSUME NEW t \in Threads, SetMe(t) PROVE Goes /\ Has
  <2>1. UNCHANGED <<state, loaded, identities>> /\ Goto(t, "idle", NoWork)
    BY <1>10, ZenonT(30) DEF SetMe, documents, contributors
  <2>2. Suits("idle", NoWork)
    BY NoWorkType, ZenonT(30) DEF Suits
  <2>3. QED
    BY <1>h, <2>1, <2>2, NoWorkType, GotoOnly, ZenonT(30) DEF Labels
<1>11. Goes /\ Has
  BY <1>1, <1>2, <1>3, <1>4, <1>5, <1>6, <1>7, <1>8, <1>9, <1>10, ZenonT(30) DEF Next, Step
<1>12. QED
  BY <1>11, OtherTypes DEF PeopleInv, TypeOK

\* Type correctness: an identity stands for a contributor, and -setIsMe: works on
\* contributors and identities, however many threads call it.
THEOREM TypeCorrect == Spec => []TypeOK
<1>1. PeopleInv => TypeOK
  BY DEF PeopleInv
<1>2. PeopleInv /\ [Next]_vars => PeopleInv'
  BY PeopleStep
<1>3. QED
  BY <1>1, <1>2, PeopleInit, PTL DEF Spec

-----------------------------------------------------------------------------
(* Counting the identities that are left *)

\* Fewer identities, or more times that a contributor is to come, keep the order.
LEMMA CountsKeep ==
  ASSUME NEW A, NEW B, IsFiniteSet(A), IsFiniteSet(B), Cardinality(A) <= Cardinality(B),
         NEW A2 \in SUBSET A
  PROVE  Cardinality(A2) <= Cardinality(B)
<1>1. Cardinality(A2) <= Cardinality(A) /\ IsFiniteSet(A2)
  BY FS_Subset
<1>2. Cardinality(A2) \in Nat /\ Cardinality(A) \in Nat /\ Cardinality(B) \in Nat
  BY <1>1, FS_CardinalityType
<1>3. QED
  BY <1>1, <1>2

\* One identity is deleted each time the contributor comes.
LEMMA CountsDrop ==
  ASSUME NEW A, NEW B, IsFiniteSet(A), IsFiniteSet(B), Cardinality(A) <= Cardinality(B),
         NEW x \in A, NEW y \in B
  PROVE  Cardinality(A \ {x}) <= Cardinality(B \ {y})
<1>1. Cardinality(A \ {x}) = Cardinality(A) - 1 /\ Cardinality(B \ {y}) = Cardinality(B) - 1
  BY FS_RemoveElement, ZenonT(30)
<1>2. Cardinality(A) \in Nat /\ Cardinality(B) \in Nat
  BY FS_CardinalityType
<1>3. QED
  BY <1>1, <1>2

\* When the contributor is not to come again no identity is left.
LEMMA CountsEnd ==
  ASSUME NEW A, IsFiniteSet(A), Cardinality(A) <= Cardinality({})
  PROVE  A = {}
<1>1. Cardinality({}) = 0 /\ Cardinality(A) \in Nat
  BY FS_EmptySet, FS_CardinalityType
<1>2. Cardinality(A) = 0
  BY <1>1
<1>3. QED
  BY <1>2, FS_EmptySet

\* Sets of identities are finite.
LEMMA FiniteIdentities == ASSUME NEW A \in SUBSET Identities PROVE IsFiniteSet(A)
BY IdentitiesAssumption, FS_Subset

\* The identities of c that a claim of thread t has not got to, and the times c is
\* still to come.
Left(t, c) == IdentitiesOf(c) \ {work[t].identity}
Todo(t, c) == {i \in Identities : work[t].others[i] = c}
Covered(t, c) == Cardinality(Left(t, c)) <= Cardinality(Todo(t, c))

\* A claim that nothing has come between is the only one, and will have deleted all
\* identities of the contributors that there are.
AloneInv(t) ==
  /\ Claiming(t)
  /\ \A u \in Threads : Claiming(u) => u = t
  /\ pc[t] # "existing" => \A c \in People : Present(c) => Covered(t, c)

CleanInv ==
  clean => /\ \A t \in Threads : Claiming(t) => t \in alone
           /\ \A c, d \in People : Present(c) /\ IsMe(c) /\ Present(d) /\ IsMe(d) => c = d

\* A contributor has no more identities than it had, if it was there.
Fewer(c) == \/ Present(c) /\ IdentitiesOf(c)' \subseteq IdentitiesOf(c)
            \/ IdentitiesOf(c)' = {}

\* Another thread's step that is no claim's does not disturb a claim.
LEMMA AloneFrame ==
  ASSUME NEW t \in alone, AloneInv(t), pc'[t] = pc[t], work'[t] = work[t],
         \A u \in Threads : Claiming(u)' => Claiming(u),
         \A c \in People : Present(c)' => Fewer(c)
  PROVE  AloneInv(t)'
<1>1. Claiming(t)' /\ \A u \in Threads : Claiming(u)' => u = t
  BY ZenonT(30) DEF AloneInv, Claiming
<1>2. ASSUME NEW c \in People, pc'[t] # "existing", Present(c)' PROVE Covered(t, c)'
  <2>1. IdentitiesOf(c) \subseteq Identities /\ Todo(t, c) \subseteq Identities
    BY ZenonT(30) DEF IdentitiesOf, Todo
  <2>2. IsFiniteSet(Left(t, c)) /\ IsFiniteSet(Todo(t, c))
    BY <2>1, FiniteIdentities, ZenonT(30) DEF Left
  <2>3. Todo(t, c)' = Todo(t, c)
    BY ZenonT(30) DEF Todo
  <2>4. CASE Present(c) /\ IdentitiesOf(c)' \subseteq IdentitiesOf(c)
    <3>1. Left(t, c)' \subseteq Left(t, c)
      BY <2>4, ZenonT(30) DEF Left
    <3>2. Cardinality(Left(t, c)) <= Cardinality(Todo(t, c))
      BY <1>2, <2>4, ZenonT(30) DEF AloneInv, Covered
    <3>3. Cardinality(Left(t, c)') <= Cardinality(Todo(t, c))
      BY <2>2, <3>1, <3>2, CountsKeep, ZenonT(30)
    <3>4. QED
      BY <2>3, <3>3 DEF Covered
  <2>5. CASE IdentitiesOf(c)' = {}
    <3>1. Left(t, c)' = {}
      BY <2>5, ZenonT(30) DEF Left
    <3>2. Cardinality({}) = 0 /\ Cardinality(Todo(t, c)) \in Nat
      BY <2>2, FS_EmptySet, FS_CardinalityType
    <3>3. Cardinality({}) <= Cardinality(Todo(t, c))
      BY <3>2
    <3>4. QED
      BY <2>3, <3>1, <3>3, ZenonT(30) DEF Covered
  <2>6. QED
    BY <1>2, <2>4, <2>5, ZenonT(30) DEF Fewer
<1>3. QED
  BY <1>1, <1>2, ZenonT(30) DEF AloneInv

\* Likewise for all that is known of claims, if the step is of thread u.
Calm(u) ==
  /\ \A v \in Threads \ {u} : pc'[v] = pc[v] /\ work'[v] = work[v]
  /\ ~Claiming(u) /\ ~Claiming(u)'
  /\ \A c \in People : Present(c)' => Fewer(c)
  /\ alone \ {u} \subseteq alone' /\ alone' \subseteq alone /\ clean' = clean

ClaimsInv == CleanInv /\ \A t \in alone : AloneInv(t)

LEMMA CalmKeeps ==
  ASSUME TypeOK, ClaimsInv, NEW u \in Threads, Calm(u)
  PROVE  ClaimsInv'
<1>1. \A v \in Threads : Claiming(v)' => Claiming(v) /\ v # u
  BY ZenonT(30) DEF Calm, Claiming
<1>2. ASSUME NEW t \in alone' PROVE AloneInv(t)'
  <2>1. t \in alone /\ t \in Threads /\ AloneInv(t)
    BY ZenonT(30) DEF Calm, ClaimsInv, TypeOK
  <2>2. t # u
    BY <2>1, ZenonT(30) DEF AloneInv, Calm
  <2>3. pc'[t] = pc[t] /\ work'[t] = work[t]
    BY <2>1, <2>2, ZenonT(30) DEF Calm
  <2>4. \A c \in People : Present(c)' => Fewer(c)
    BY DEF Calm
  <2>5. QED
    BY <1>1, <2>1, <2>3, <2>4, AloneFrame, ZenonT(30)
<1>3. \A c \in People : Present(c)' /\ IsMe(c)' => Present(c) /\ IsMe(c)
  BY ZenonT(30) DEF Calm, Fewer, IsMe
<1>4. ASSUME clean' PROVE \A t \in Threads : Claiming(t)' => t \in alone'
  <2>1. \A t \in Threads : Claiming(t) => t \in alone
    BY <1>4, ZenonT(30) DEF ClaimsInv, CleanInv, Calm
  <2>2. \A t \in alone : t # u => t \in alone'
    BY ZenonT(30) DEF Calm
  <2>3. QED
    BY <1>1, <2>1, <2>2, ZenonT(30)
<1>5. clean' => \A c, d \in People : Present(c)' /\ IsMe(c)' /\ Present(d)' /\ IsMe(d)' => c = d
  BY <1>3, ZenonT(30) DEF ClaimsInv, CleanInv, Calm
<1>6. QED
  BY <1>2, <1>4, <1>5, ZenonT(30) DEF ClaimsInv, CleanInv

\* What a thread does with contributors, or with identities but for a claim, is calm.
LEMMA CalmSteps ==
  ASSUME PeopleInv, NEW t \in Threads, NEW c,
         \/ Load(t, c) \/ Me(t, c) \/ Save(t, c) \/ DeleteDocument(t, c) \/ SetIsNotMe(t, c) \/ SetMe(t)
         \/ DeleteIdentity(t) /\ work[t].self = None
  PROVE  Calm(t)
<1> USE NoneAssumption
<1>t. /\ state \in [People -> States] /\ identities \in [Identities -> People \cup {None}]
      /\ pc \in [Threads -> Labels] /\ work \in [Threads -> Work] /\ alone \subseteq Threads
  BY DEF PeopleInv, TypeOK
<1>s. StateInv /\ \A u \in Threads : Suits(pc[u], work[u])
  BY DEF PeopleInv
<1>1. CASE Load(t, c) \/ Me(t, c) \/ Save(t, c) \/ DeleteDocument(t, c)
  <2>1. UNCHANGED <<identities, pc, work, alone, clean>> /\ pc[t] = "idle"
    BY <1>1, ZenonT(30) DEF Load, Me, Save, DeleteDocument, IdleIn, Idle, documents, history
  <2>2. \A d \in People : IdentitiesOf(d)' = IdentitiesOf(d)
    BY <2>1, ZenonT(30) DEF IdentitiesOf
  <2>3. CASE Me(t, c)
    <3>1. \A d \in People \ {c} : Present(d)' => Present(d)
      BY <1>t, <2>3 DEF Me, Present
    <3>2. state[c] = "none"
      BY <2>3 DEF Me
    <3>3. c \in People => IdentitiesOf(c) = {}
      BY <1>s, <3>2, ZenonT(30) DEF StateInv, IdentitiesOf
    <3>4. \A d \in People : Present(d)' => Fewer(d)
      BY <2>2, <3>1, <3>3, ZenonT(30) DEF Fewer
    <3>5. QED
      BY <2>1, <3>4, ZenonT(30) DEF Calm, Claiming
  <2>4. CASE Load(t, c) \/ Save(t, c) \/ DeleteDocument(t, c)
    <3>1. \A d \in People : Present(d)' => Present(d)
      BY <1>t, <2>4 DEF Load, Save, DeleteDocument, Present
    <3>2. \A d \in People : Present(d)' => Fewer(d)
      BY <2>2, <3>1, ZenonT(30) DEF Fewer
    <3>3. QED
      BY <2>1, <3>2, ZenonT(30) DEF Calm, Claiming
  <2>5. QED
    BY <1>1, <2>3, <2>4
<1>2. ASSUME NEW label \in {"idle", "delete"}, NEW w \in Work, w.self = None, Goto(t, label, w),
             ~Claiming(t), UNCHANGED state, \A i \in Identities : identities'[i] \in {identities[i], None},
             alone \ {t} \subseteq alone', alone' \subseteq alone, clean' = clean
      PROVE  Calm(t)
  <2>1. /\ \A v \in Threads \ {t} : pc'[v] = pc[v] /\ work'[v] = work[v]
        /\ pc'[t] = label /\ work'[t] = w
    BY <1>t, <1>2 DEF Goto
  <2>2. ~Claiming(t)'
    BY <1>2, <2>1 DEF Claiming
  <2>3. \A d \in People : Fewer(d) \/ ~Present(d)'
    BY <1>2, ZenonT(30) DEF Fewer, Present, IdentitiesOf
  <2>4. QED
    BY <1>2, <2>1, <2>2, <2>3, ZenonT(30) DEF Calm
<1>3. CASE SetIsNotMe(t, c)
  <2>1. PICK i \in IdentitiesOf(c) : Goto(t, "delete", [NoWork EXCEPT !.identity = i])
    BY <1>3, ZenonT(30) DEF SetIsNotMe
  <2> DEFINE w == [NoWork EXCEPT !.identity = i]
  <2>2. i \in Identities
    BY DEF IdentitiesOf
  <2>3. w \in Work /\ w.self = None
    BY <2>2, NoWorkType DEF Work
  <2>4. UNCHANGED <<state, identities, alone, clean>> /\ Goto(t, "delete", w) /\ ~Claiming(t)
    BY <1>3, <2>1, ZenonT(30) DEF SetIsNotMe, documents, contributors, history, Idle, Claiming
  <2> HIDE DEF w
  <2>5. QED
    BY <1>2, <2>3, <2>4, ZenonT(30)
<1>4. CASE SetMe(t)
  <2>1. UNCHANGED <<state, identities, alone, clean>> /\ Goto(t, "idle", NoWork) /\ ~Claiming(t)
    BY <1>4, ZenonT(30) DEF SetMe, documents, contributors, history, Claiming
  <2>2. QED
    BY <1>2, <2>1, NoWorkType, ZenonT(30)
<1>5. CASE DeleteIdentity(t) /\ work[t].self = None
  <2>1. UNCHANGED state /\ Goto(t, "idle", NoWork) /\ ~Claiming(t)
    BY <1>5, ZenonT(30) DEF DeleteIdentity, contributors, Claiming
  <2>2. identities' = identities \/ identities' = [identities EXCEPT ![work[t].identity] = None]
    BY <1>5, ZenonT(30) DEF DeleteIdentity
  <2>3. \A i \in Identities : identities'[i] \in {identities[i], None}
    BY <1>t, <2>2
  <2>4. clean \in BOOLEAN
    BY DEF PeopleInv, TypeOK
  <2>5. alone \ {t} \subseteq alone' /\ alone' \subseteq alone /\ clean' = clean
    BY <1>5, <2>4, ZenonT(30) DEF DeleteIdentity, history
  <2>6. QED
    BY <1>2, <2>1, <2>3, <2>5, NoWorkType, ZenonT(30)
<1>6. QED
  BY <1>1, <1>3, <1>4, <1>5

\* A step of a claim disturbs no other: if it is alone there is none.
LEMMA ClaimKeeps ==
  ASSUME TypeOK, ClaimsInv, NEW t \in Threads, Claiming(t), Claiming(t)', UNCHANGED <<state, alone, clean>>,
         \A v \in Threads \ {t} : pc'[v] = pc[v] /\ work'[v] = work[v],
         \A c \in People : IdentitiesOf(c)' \subseteq IdentitiesOf(c),
         t \in alone => \A c \in People : Present(c) => Covered(t, c)'
  PROVE  ClaimsInv'
<1>1. \A v \in Threads : Claiming(v)' => Claiming(v)
  BY ZenonT(30) DEF Claiming
<1>2. \A c \in People : (Present(c)' <=> Present(c)) /\ (IsMe(c)' => IsMe(c))
  BY ZenonT(30) DEF Present, IsMe
<1>3. ASSUME NEW v \in alone' PROVE AloneInv(v)'
  <2>1. v \in alone /\ AloneInv(v)
    BY ZenonT(30) DEF ClaimsInv
  <2>2. v = t
    BY <2>1, ZenonT(30) DEF AloneInv
  <2>3. \A u \in Threads : Claiming(u)' => u = t
    BY <1>1, <2>1, <2>2, ZenonT(30) DEF AloneInv
  <2>4. QED
    BY <1>2, <2>1, <2>2, <2>3, ZenonT(30) DEF AloneInv
<1>4. CleanInv'
  BY <1>1, <1>2, ZenonT(30) DEF ClaimsInv, CleanInv
<1>5. QED
  BY <1>3, <1>4, ZenonT(30) DEF ClaimsInv

\* -contributorsWithContributorIdentifier: has the contributor of every identity.
LEMMA ClaimFinds ==
  ASSUME PeopleInv, ClaimsInv, NEW t \in Threads, ExistingContributors(t)
  PROVE  ClaimsInv'
<1> USE NoneAssumption
<1> DEFINE found == [i \in Identities |-> IF Found(identities[i]) THEN identities[i] ELSE None]
<1>t. TypeOK /\ StateInv /\ work[t] \in Work /\ pc \in [Threads -> Labels] /\ work \in [Threads -> Work]
  BY DEF PeopleInv, TypeOK
<1>1. /\ pc[t] = "existing" /\ Goto(t, "find", [work[t] EXCEPT !.others = found])
      /\ UNCHANGED <<state, identities, alone, clean>>
  BY ZenonT(30) DEF ExistingContributors, documents, history
<1>2. [work[t] EXCEPT !.others = found].others = found
  BY <1>t DEF Work
<1> HIDE DEF found
<1>3. /\ \A v \in Threads \ {t} : pc'[v] = pc[v] /\ work'[v] = work[v]
      /\ pc'[t] = "find" /\ work'[t].others = found
  BY <1>1, <1>2, <1>t DEF Goto
<1>4. \A c \in People : IdentitiesOf(c)' = IdentitiesOf(c)
  BY <1>1, ZenonT(30) DEF IdentitiesOf
<1>5. ASSUME NEW c \in People, Present(c) PROVE Covered(t, c)'
  <2>1. Found(c)
    BY <1>5, <1>t DEF Present, StateInv, Found
  <2>2. \A i \in IdentitiesOf(c) : found[i] = c
    BY <2>1, ZenonT(30) DEF found, IdentitiesOf
  <2>3. Left(t, c)' \subseteq Todo(t, c)'
    BY <1>3, <1>4, <2>2, ZenonT(30) DEF Left, Todo, IdentitiesOf
  <2>4. Todo(t, c)' \subseteq Identities
    BY ZenonT(30) DEF Todo
  <2>5. IsFiniteSet(Todo(t, c)')
    BY <2>4, FiniteIdentities, ZenonT(30)
  <2>6. Cardinality(Left(t, c)') <= Cardinality(Todo(t, c)')
    BY <2>3, <2>5, FS_Subset, ZenonT(30)
  <2>7. QED
    BY <2>6 DEF Covered
<1>6. Claiming(t) /\ Claiming(t)'
  BY <1>1, <1>3 DEF Claiming
<1>7. \A c \in People : IdentitiesOf(c)' \subseteq IdentitiesOf(c)
  BY <1>4
<1>8. QED
  BY <1>1, <1>3, <1>5, <1>6, <1>7, <1>t, ClaimKeeps, ZenonT(30)

\* A contributor comes once less, and one of its identities is the next to go.
LEMMA ClaimTakes ==
  ASSUME PeopleInv, ClaimsInv, NEW t \in Threads, NEW i \in Identities, FindIdentity(t, i)
  PROVE  ClaimsInv'
<1> USE NoneAssumption
<1> DEFINE o == work[t].others
           rest == [work[t] EXCEPT !.others[i] = None]
<1>t. TypeOK /\ work[t] \in Work /\ pc \in [Threads -> Labels] /\ work \in [Threads -> Work]
  BY DEF PeopleInv, TypeOK
<1>w. o \in [Identities -> People \cup {None}] /\ work[t].self # None /\ work[t].identity = None
  BY <1>t, WorkType, ZenonT(30) DEF PeopleInv, Suits, FindIdentity
<1>1. pc[t] = "find" /\ o[i] # None /\ UNCHANGED <<state, identities, alone, clean>>
  BY ZenonT(30) DEF FindIdentity, documents, contributors, history
<1>2. rest \in Work /\ rest.self = work[t].self /\ rest.identity = None /\ rest.others = [o EXCEPT ![i] = None]
  BY <1>t, <1>w DEF Work
<1>4. \A c \in People : IdentitiesOf(c)' = IdentitiesOf(c) /\ IdentitiesOf(c) \subseteq Identities
  BY <1>1, ZenonT(30) DEF IdentitiesOf
<1>a. Claiming(t)
  BY <1>1 DEF Claiming
<1>b. ASSUME NEW j, \/ j \in IdentitiesOf(o[i]) /\ Goto(t, "delete", [rest EXCEPT !.identity = j])
                    \/ j = None /\ ~IsMe(o[i]) /\ Goto(t, "find", rest)
      PROVE  ClaimsInv'
  <2> HIDE DEF rest
  <2>1. /\ \A v \in Threads \ {t} : pc'[v] = pc[v] /\ work'[v] = work[v]
        /\ pc'[t] \in {"find", "delete"} /\ work'[t] \in {rest, [rest EXCEPT !.identity = j]}
    BY <1>b, <1>t DEF Goto
  <2>2. /\ work'[t].self # None /\ work'[t].others = [o EXCEPT ![i] = None]
        /\ work'[t].identity = j
    <3>1. CASE Goto(t, "find", rest) /\ j = None
      BY <1>2, <1>w, <1>t, <3>1 DEF Goto
    <3>2. CASE Goto(t, "delete", [rest EXCEPT !.identity = j])
      <4>1. work'[t] = [rest EXCEPT !.identity = j]
        BY <1>t, <3>2 DEF Goto
      <4>2. QED
        BY <1>2, <1>w, <4>1 DEF Work
    <3>3. QED
      BY <1>b, <3>1, <3>2, ZenonT(30)
  <2>3. Claiming(t)'
    BY <2>1, <2>2 DEF Claiming
  <2>4. ASSUME NEW c \in People, Present(c), t \in alone PROVE Covered(t, c)'
    <3>1. Cardinality(Left(t, c)) <= Cardinality(Todo(t, c))
      BY <1>1, <2>4 DEF ClaimsInv, AloneInv, Covered
    <3>2. Left(t, c) = IdentitiesOf(c) /\ Left(t, c)' = IdentitiesOf(c) \ {j}
      BY <1>4, <1>w, <2>2 DEF Left
    <3>3. Todo(t, c) \subseteq Identities
      BY ZenonT(30) DEF Todo
    <3>4. IsFiniteSet(Todo(t, c)) /\ IsFiniteSet(IdentitiesOf(c))
      BY <1>4, <3>3, FiniteIdentities, ZenonT(30)
    <3>5. CASE c # o[i]
      <4>1. Todo(t, c)' = Todo(t, c)
        BY <1>w, <2>2, <3>5 DEF Todo
      <4>2. IdentitiesOf(c) \ {j} \subseteq IdentitiesOf(c)
        OBVIOUS
      <4>3. Cardinality(IdentitiesOf(c) \ {j}) <= Cardinality(Todo(t, c))
        BY <3>1, <3>2, <3>4, <4>2, CountsKeep, ZenonT(30)
      <4>4. QED
        BY <3>2, <4>1, <4>3, ZenonT(30) DEF Covered
    <3>6. CASE c = o[i] /\ j \in IdentitiesOf(c)
      <4>1. Todo(t, c)' = Todo(t, c) \ {i} /\ i \in Todo(t, c)
        BY <1>w, <2>2, <3>6 DEF Todo
      <4>2. Cardinality(IdentitiesOf(c) \ {j}) <= Cardinality(Todo(t, c) \ {i})
        BY <3>1, <3>2, <3>4, <3>6, <4>1, CountsDrop, ZenonT(30)
      <4>3. QED
        BY <3>2, <4>1, <4>2, ZenonT(30) DEF Covered
    <3>7. CASE c = o[i] /\ IdentitiesOf(c) = {}
      <4>1. Left(t, c)' = {}
        BY <3>2, <3>7, ZenonT(30)
      <4>2. Todo(t, c)' \subseteq Identities
        BY ZenonT(30) DEF Todo
      <4>3. IsFiniteSet(Todo(t, c)')
        BY <4>2, FiniteIdentities, ZenonT(30)
      <4>4. Cardinality({}) <= Cardinality(Todo(t, c)')
        BY <4>3, FS_EmptySet, FS_CardinalityType
      <4>5. QED
        BY <4>1, <4>4, ZenonT(30) DEF Covered
    <3>8. QED
      BY <1>b, <3>5, <3>6, <3>7, ZenonT(30) DEF IsMe
  <2>5. \A c \in People : IdentitiesOf(c)' \subseteq IdentitiesOf(c)
    BY <1>4, ZenonT(30)
  <2>6. QED
    BY <1>1, <1>a, <1>t, <2>1, <2>3, <2>4, <2>5, ClaimKeeps, ZenonT(30)
<1>c. CASE IsMe(o[i])
  <2>1. PICK j \in IdentitiesOf(o[i]) : Goto(t, "delete", [rest EXCEPT !.identity = j])
    BY <1>c, ZenonT(30) DEF FindIdentity
  <2>2. QED
    BY <1>b, <2>1, ZenonT(30)
<1>d. CASE ~IsMe(o[i])
  <2>1. Goto(t, "find", rest)
    BY <1>d, ZenonT(30) DEF FindIdentity
  <2>2. QED
    BY <1>b, <1>d, <2>1, ZenonT(30)
<1>e. QED
  BY <1>c, <1>d

\* An identity that goes was no longer counted; if it does not, the claim is not
\* alone any more.
LEMMA ClaimDeletes ==
  ASSUME PeopleInv, ClaimsInv, NEW t \in Threads, DeleteIdentity(t), work[t].self # None
  PROVE  ClaimsInv'
<1> USE NoneAssumption
<1> DEFINE w == [work[t] EXCEPT !.identity = None]
<1>t. /\ TypeOK /\ work[t] \in Work /\ pc \in [Threads -> Labels] /\ work \in [Threads -> Work]
      /\ identities \in [Identities -> People \cup {None}] /\ alone \subseteq Threads
  BY DEF PeopleInv, TypeOK
<1>1. pc[t] = "delete" /\ UNCHANGED state /\ Goto(t, "find", w)
  BY ZenonT(30) DEF DeleteIdentity, contributors
<1>2. w.self = work[t].self /\ w.identity = None /\ w.others = work[t].others
  BY <1>t DEF Work
<1> HIDE DEF w
<1>3. /\ \A v \in Threads \ {t} : pc'[v] = pc[v] /\ work'[v] = work[v]
      /\ pc'[t] = "find" /\ work'[t] = w
  BY <1>1, <1>t DEF Goto
<1>4. Claiming(t) /\ Claiming(t)'
  BY <1>1, <1>3 DEF Claiming
<1>5. CASE identities' = [identities EXCEPT ![work[t].identity] = None] /\ UNCHANGED <<alone, clean>>
  <2>1. work[t].identity \in Identities
    BY <1>1, ZenonT(30) DEF PeopleInv, Suits
  <2>2. \A c \in People : IdentitiesOf(c)' = IdentitiesOf(c) \ {work[t].identity}
    BY <1>5, <1>t, <2>1 DEF IdentitiesOf
  <2>3. \A c \in People : IdentitiesOf(c) \subseteq Identities
    BY ZenonT(30) DEF IdentitiesOf
  <2>4. ASSUME NEW c \in People, Present(c), t \in alone PROVE Covered(t, c)'
    <3>1. Covered(t, c)
      BY <1>1, <2>4 DEF ClaimsInv, AloneInv
    <3>2. Left(t, c)' = Left(t, c)
      BY <1>2, <1>3, <2>2, <2>3 DEF Left
    <3>3. Todo(t, c)' = Todo(t, c)
      BY <1>2, <1>3, ZenonT(30) DEF Todo
    <3>4. QED
      BY <3>1, <3>2, <3>3, ZenonT(30) DEF Covered
  <2>5. \A c \in People : IdentitiesOf(c)' \subseteq IdentitiesOf(c)
    BY <2>2
  <2>6. QED
    BY <1>1, <1>3, <1>4, <1>5, <1>t, <2>4, <2>5, ClaimKeeps, ZenonT(30)
<1>6. CASE alone' = alone \ {t} /\ clean' = FALSE
  <2>1. alone' = {}
    BY <1>4, <1>6, ZenonT(30) DEF ClaimsInv, AloneInv
  <2>2. QED
    BY <1>6, <2>1 DEF ClaimsInv, CleanInv
<1>7. QED
  BY <1>5, <1>6, ZenonT(30) DEF DeleteIdentity, history

\* A claim begins: alone if there is no other.
LEMMA ClaimBegins ==
  ASSUME PeopleInv, ClaimsInv, NEW t \in Threads, NEW c \in People, SetIsMe(t, c)
  PROVE  ClaimsInv'
<1> DEFINE claimants == {u \in Threads : Claiming(u)}
<1>t. pc \in [Threads -> Labels] /\ work \in [Threads -> Work] /\ clean \in BOOLEAN
  BY DEF PeopleInv, TypeOK
<1>1. /\ UNCHANGED <<state, identities>> /\ Goto(t, "existing", [NoWork EXCEPT !.self = c])
      /\ alone' = IF claimants = {} THEN {t} ELSE {}
      /\ clean' = (clean /\ claimants = {})
  BY ZenonT(30) DEF SetIsMe, contributors, documents
<1>2. pc'[t] = "existing" /\ \A v \in Threads \ {t} : pc'[v] = pc[v] /\ work'[v] = work[v]
  BY <1>1, <1>t DEF Goto
<1>3. Claiming(t)' /\ \A v \in Threads \ {t} : Claiming(v)' <=> Claiming(v)
  BY <1>2, ZenonT(30) DEF Claiming
<1>4. \A d \in People : (Present(d)' <=> Present(d)) /\ (IsMe(d)' <=> IsMe(d))
  BY <1>1, ZenonT(30) DEF Present, IsMe, IdentitiesOf
<1>5. CASE claimants = {}
  <2>1. alone' = {t} /\ clean' = clean
    BY <1>1, <1>5, <1>t, ZenonT(30)
  <2>2. \A v \in Threads : Claiming(v)' => v = t
    BY <1>3, <1>5, ZenonT(30)
  <2>3. AloneInv(t)'
    BY <1>2, <1>3, <2>2, ZenonT(30) DEF AloneInv
  <2>4. CleanInv'
    BY <1>4, <2>1, <2>2, ZenonT(30) DEF ClaimsInv, CleanInv
  <2>5. QED
    BY <2>1, <2>3, <2>4, ZenonT(30) DEF ClaimsInv
<1>6. CASE claimants # {}
  <2>1. alone' = {} /\ clean' = FALSE
    BY <1>1, <1>6, <1>t, ZenonT(30)
  <2>2. QED
    BY <2>1 DEF ClaimsInv, CleanInv
<1>7. QED
  BY <1>5, <1>6

\* A claim ends: if it was alone, no contributor that is there has an identity but
\* the one that it is for.
LEMMA ClaimEnds ==
  ASSUME PeopleInv, ClaimsInv, NEW t \in Threads, NEW i \in Identities, SaveIdentity(t, i)
  PROVE  ClaimsInv'
<1> USE NoneAssumption
<1>t. /\ pc \in [Threads -> Labels] /\ work \in [Threads -> Work] /\ clean \in BOOLEAN
      /\ identities \in [Identities -> People \cup {None}]
  BY DEF PeopleInv, TypeOK
<1>1. /\ pc[t] = "find" /\ work[t].others = NoOthers /\ UNCHANGED state
      /\ identities' = identities \/ identities' = [identities EXCEPT ![i] = work[t].self]
      /\ Goto(t, "assign", work[t])
      /\ alone' = alone \ {t} /\ clean' = (clean \/ t \in alone)
  BY ZenonT(30) DEF SaveIdentity, contributors
<1>2. pc'[t] = "assign" /\ \A v \in Threads \ {t} : pc'[v] = pc[v] /\ work'[v] = work[v]
  BY <1>1, <1>t DEF Goto
<1>3. Claiming(t) /\ ~Claiming(t)' /\ \A v \in Threads : Claiming(v)' => Claiming(v) /\ v # t
  BY <1>1, <1>2, ZenonT(30) DEF Claiming
<1>4. alone' = {}
  BY <1>1, <1>3, ZenonT(30) DEF ClaimsInv, AloneInv
<1>5. CASE t \in alone
  <2>1. ASSUME NEW c \in People, Present(c) PROVE IdentitiesOf(c) = {}
    <3>1. Cardinality(Left(t, c)) <= Cardinality(Todo(t, c))
      BY <1>1, <1>5, <2>1 DEF ClaimsInv, AloneInv, Covered
    <3>2. Todo(t, c) = {}
      BY <1>1 DEF Todo, NoOthers
    <3>3. work[t].identity = None
      BY <1>1, ZenonT(30) DEF PeopleInv, Suits
    <3>4. Left(t, c) = IdentitiesOf(c) /\ IdentitiesOf(c) \subseteq Identities
      BY <3>3 DEF Left, IdentitiesOf
    <3>5. IsFiniteSet(IdentitiesOf(c))
      BY <3>4, FiniteIdentities, ZenonT(30)
    <3>6. Cardinality(IdentitiesOf(c)) <= Cardinality({})
      BY <3>1, <3>2, <3>4, ZenonT(30)
    <3>7. QED
      BY <3>5, <3>6, CountsEnd, ZenonT(30)
  <2>2. \A c \in People : IdentitiesOf(c) = {} /\ c # work[t].self => IdentitiesOf(c)' = {}
    BY <1>1, <1>t DEF IdentitiesOf
  <2>3. \A c \in People : Present(c)' /\ IsMe(c)' => c = work[t].self
    BY <1>1, <2>1, <2>2, ZenonT(30) DEF Present, IsMe
  <2>4. \A v \in Threads : ~Claiming(v)'
    BY <1>3, <1>5, ZenonT(30) DEF ClaimsInv, AloneInv
  <2>5. QED
    BY <1>4, <2>3, <2>4, ZenonT(30) DEF ClaimsInv, CleanInv
<1>6. CASE t \notin alone
  <2>1. ~clean
    BY <1>3, <1>6, ZenonT(30) DEF ClaimsInv, CleanInv
  <2>2. ~clean'
    BY <1>1, <1>6, <2>1, ZenonT(30)
  <2>3. QED
    BY <1>4, <2>2, ZenonT(30) DEF ClaimsInv, CleanInv
<1>7. QED
  BY <1>5, <1>6

\* One step per action.
LEMMA ClaimsStep ==
  ASSUME PeopleInv, ClaimsInv, [Next]_vars
  PROVE  ClaimsInv'
<1>t. TypeOK /\ state \in [People -> States]
  BY DEF PeopleInv, TypeOK
<1>1. CASE UNCHANGED vars
  <2>1. UNCHANGED <<state, identities, pc, work, alone, clean>>
    BY <1>1 DEF vars
  <2>2. /\ \A c \in People : (Present(c)' <=> Present(c)) /\ IdentitiesOf(c)' = IdentitiesOf(c)
        /\ \A u \in Threads : Claiming(u)' <=> Claiming(u)
    BY <2>1, ZenonT(30) DEF Present, IdentitiesOf, Claiming
  <2>3. \A c \in People : Present(c)' => Fewer(c)
    BY <2>2 DEF Fewer
  <2>4. ASSUME NEW t \in alone' PROVE AloneInv(t)'
    <3>1. t \in alone /\ AloneInv(t) /\ pc'[t] = pc[t] /\ work'[t] = work[t]
      BY <2>1, ZenonT(30) DEF ClaimsInv
    <3>2. QED
      BY <2>2, <2>3, <3>1, AloneFrame, ZenonT(30)
  <2>5. CleanInv'
    BY <2>1, <2>2, ZenonT(30) DEF ClaimsInv, CleanInv, IsMe
  <2>6. QED
    BY <2>4, <2>5, ZenonT(30) DEF ClaimsInv
<1>2. ASSUME NEW t \in Threads, NEW c \in People,
             \/ Load(t, c) \/ Me(t, c) \/ Save(t, c) \/ DeleteDocument(t, c) \/ SetIsNotMe(t, c)
      PROVE  ClaimsInv'
  BY <1>2, <1>t, CalmSteps, CalmKeeps, ZenonT(30)
<1>3. ASSUME NEW t \in Threads, SetMe(t) \/ DeleteIdentity(t) PROVE ClaimsInv'
  <2>1. CASE SetMe(t) \/ (DeleteIdentity(t) /\ work[t].self = None)
    BY <1>t, <2>1, CalmSteps, CalmKeeps, ZenonT(30)
  <2>2. QED
    BY <1>3, <2>1, ClaimDeletes, ZenonT(30)
<1>4. ASSUME NEW c \in People, PullRevision(c) PROVE ClaimsInv'
  <2>1. alone' = {} /\ clean' = FALSE
    BY <1>4 DEF PullRevision
  <2>2. QED
    BY <2>1 DEF ClaimsInv, CleanInv
<1>5. CASE Restart
  <2>1. alone' = {} /\ UNCHANGED <<identities, clean>> /\ \A t \in Threads : pc'[t] = "idle"
    BY <1>5 DEF Restart, documents
  <2>2. \A d \in People : Present(d)' => Present(d)
    BY <1>5, <1>t DEF Restart, Present
  <2>3. \A d \in People : IsMe(d)' => IsMe(d)
    BY <2>1, ZenonT(30) DEF IsMe, IdentitiesOf
  <2>4. \A t \in Threads : ~Claiming(t)'
    BY <2>1 DEF Claiming
  <2>5. QED
    BY <2>1, <2>2, <2>3, <2>4, ZenonT(30) DEF ClaimsInv, CleanInv
<1>6. QED
  BY <1>1, <1>2, <1>3, <1>4, <1>5, ClaimBegins, ClaimFinds, ClaimTakes, ClaimEnds, ZenonT(30) DEF Next, Step

\* One contributor at most is the user, for any number of contributors, identities
\* and threads, after a claim of -setIsMe: that no other claim, no deletion that
\* failed and no contributor that came back came between, whatever there was before,
\* and until one does.
THEOREM UserIsUnique == Spec => []OneMe
<1>1. Init => ClaimsInv
  <2> SUFFICES ASSUME Init PROVE ClaimsInv
    OBVIOUS
  <2>1. \A c \in People : ~IsMe(c)
    BY NoneAssumption DEF Init, IsMe, IdentitiesOf
  <2>2. alone = {} /\ \A t \in Threads : ~Claiming(t)
    BY DEF Init, Claiming
  <2>3. QED
    BY <2>1, <2>2, ZenonT(30) DEF ClaimsInv, CleanInv
<1>2. PeopleInv /\ ClaimsInv /\ [Next]_vars => PeopleInv' /\ ClaimsInv'
  BY PeopleStep, ClaimsStep
<1>3. ClaimsInv => OneMe
  BY DEF ClaimsInv, CleanInv, OneMe, AtMostOneMe, Present
<1>4. QED
  BY <1>1, <1>2, <1>3, PeopleInit, PTL DEF Spec
=============================================================================
