------------------------ MODULE OntologyServiceProofs ------------------------
(***************************************************************************)
(* Theorems about OntologyService, for any number of threads, reasoners and *)
(* users: types, exclusive reasoners, who can lose one, what a registration *)
(* leaves behind, and that the service implements ReasonerLending.          *)
(***************************************************************************)
EXTENDS OntologyService, FiniteSetTheorems, TLAPS

(* What the position of a thread says of its local variables. *)
Control ==
  \A t \in Thread :
    /\ pc[t] = "idle" => call[t] = "none" /\ user[t] = NoUser
    /\ pc[t] \in {"idle", "take"} => held[t] = NoReasoner
    /\ pc[t] = "take" => call[t] \in {"query", "list", "details"}
    /\ pc[t] = "work" => call[t] \in {"query", "list"}
    /\ pc[t] \in {"lookup", "find", "load", "body"} => call[t] \in UserCalls
    /\ pc[t] = "init" => call[t] \in UserCalls \cup {"register"}
    /\ pc[t] \in Registering => call[t] = "register"
    /\ call[t] \in {"user", "register"} => held[t] = NoReasoner
    /\ call[t] \in UserCalls \cup {"register"} => user[t] \in User

TypedControl == TypeOK /\ Control

LEMMA InitTypedControl == Init => TypedControl
  BY OntologyServiceAssumption DEF Init, TypedControl, TypeOK, Control, Calls, Inside, Registering, UserCalls

LEMMA NextTypedControl == TypedControl /\ [Next]_vars => TypedControl'
<1> SUFFICES ASSUME TypedControl, [Next]_vars PROVE TypedControl'
  OBVIOUS
<1> USE OntologyServiceAssumption DEF TypedControl, Calls, Inside, Registering, UserCalls
<1>1. ASSUME NEW t \in Thread, Arrive(t) PROVE TypedControl'
  <2>1. TypeOK'
    BY <1>1 DEF TypeOK, Arrive, BeginQuery, BeginUserCall, BeginRegistration, Begin
  <2>2. Control'
    BY <1>1 DEF TypeOK, Control, Arrive, BeginQuery, BeginUserCall, BeginRegistration, Begin
  <2>q. QED BY <2>1, <2>2
<1>2. ASSUME NEW t \in Thread, Take(t) PROVE TypedControl'
  <2>1. TypeOK'
    BY <1>2 DEF TypeOK, Take, GoTo
  <2>2. Control'
    BY <1>2 DEF TypeOK, Control, Take, GoTo
  <2>q. QED BY <2>1, <2>2
<1>3. ASSUME NEW t \in Thread, ListElement(t) \/ ElementDone(t) \/ FindReasoner(t) \/ FindOntology(t) \/ CheckName(t)
      PROVE  TypedControl'
  <2>1. TypeOK'
    BY <1>3 DEF TypeOK, ListElement, ElementDone, FindReasoner, FindOntology, CheckName, GoTo
  <2>2. Control'
    BY <1>3 DEF TypeOK, Control, ListElement, ElementDone, FindReasoner, FindOntology, CheckName, GoTo
  <2>q. QED BY <2>1, <2>2
<1>4. ASSUME NEW t \in Thread, Finish(t) PROVE TypedControl'
  <2>1. TypeOK'
    BY <1>4 DEF TypeOK, Finish, PutBack, DropReasoner, End
  <2>2. Control'
    BY <1>4 DEF TypeOK, Control, Finish, PutBack, DropReasoner, End
  <2>q. QED BY <2>1, <2>2
<1>5. ASSUME NEW t \in Thread, LoadFails(t) PROVE TypedControl'
  <2>1. TypeOK'
    BY <1>5 DEF TypeOK, LoadFails, PutBack, DropReasoner, End
  <2>2. Control'
    BY <1>5 DEF TypeOK, Control, LoadFails, PutBack, DropReasoner, End
  <2>q. QED BY <2>1, <2>2
<1>6. ASSUME NEW t \in Thread, Load(t) \/ InitReasoner(t) \/ CreateOntology(t) \/ SaveOntology(t)
      PROVE  TypedControl'
  <2>1. TypeOK'
    BY <1>6 DEF TypeOK, Control, Load, InitReasoner, CreateOntology, SaveOntology, GoTo
  <2>2. Control'
    BY <1>6 DEF TypeOK, Control, Load, InitReasoner, CreateOntology, SaveOntology, GoTo
  <2>q. QED BY <2>1, <2>2
<1>7. ASSUME NEW t \in Thread, NameTaken(t) \/ InsertUser(t) \/ RegistrationFails(t)
      PROVE  TypedControl'
  <2>1. TypeOK'
    BY <1>7 DEF TypeOK, Control, NameTaken, InsertUser, RegistrationFails, End
  <2>2. Control'
    BY <1>7 DEF TypeOK, Control, NameTaken, InsertUser, RegistrationFails, End
  <2>q. QED BY <2>1, <2>2
<1>8. ASSUME Restart PROVE TypedControl'
  BY <1>8 DEF TypeOK, Control, Restart
<1>9. ASSUME UNCHANGED vars PROVE TypedControl'
  BY <1>9 DEF vars, TypeOK, Control
<1>q. QED
  BY <1>1, <1>2, <1>3, <1>4, <1>5, <1>6, <1>7, <1>8, <1>9 DEF Next, Step

THEOREM TypedControlHolds == Spec => []TypedControl
  BY InitTypedControl, NextTypedControl, PTL DEF Spec

(* Every variable of the service keeps its type: in particular a call on     *)
(* behalf of a user always has one, and the queue holds only reasoners.      *)
THEOREM ServiceTypeCorrect == Spec => []TypeOK
<1>1. TypedControl => TypeOK
  BY DEF TypedControl
<1>q. QED BY <1>1, TypedControlHolds, PTL

(* No call waits for a reasoner while it has one, so calls cannot wait for   *)
(* each other in a circle.                                                 *)
THEOREM NobodyWaitsHolding == Spec => []NoWaitWhileHolding
<1>1. TypedControl => NoWaitWhileHolding
  BY DEF TypedControl, Control, NoWaitWhileHolding
<1>q. QED BY <1>1, TypedControlHolds, PTL

-----------------------------------------------------------------------------
(* Exclusive reasoners. *)

LEMMA InitExclusive == Init => Exclusive
  BY DEF Init, Exclusive

LEMMA NextExclusive == TypedControl /\ Exclusive /\ [Next]_vars => Exclusive'
<1> SUFFICES ASSUME TypedControl, Exclusive, [Next]_vars PROVE Exclusive'
  OBVIOUS
<1> USE OntologyServiceAssumption DEF TypedControl, TypeOK
<1>1. ASSUME NEW t \in Thread, Take(t) PROVE Exclusive'
  BY <1>1 DEF Exclusive, Take
<1>2. ASSUME NEW t \in Thread, Finish(t) \/ LoadFails(t) PROVE Exclusive'
  BY <1>2 DEF Exclusive, Finish, LoadFails, PutBack, DropReasoner
<1>3. ASSUME UNCHANGED pooled PROVE Exclusive'
  BY <1>3 DEF Exclusive, pooled
<1>4. ASSUME Restart PROVE Exclusive'
  BY <1>4 DEF Exclusive, Restart
<1>5. Restart \/ UNCHANGED pooled \/ \E t \in Thread : Take(t) \/ Finish(t) \/ LoadFails(t)
  BY DEF Next, Step, Arrive, BeginQuery, BeginUserCall, BeginRegistration, Begin,
         ListElement, ElementDone, FindReasoner, FindOntology, Load, InitReasoner, CheckName,
         NameTaken, CreateOntology, SaveOntology, InsertUser, RegistrationFails, pooled, vars
<1>q. QED BY <1>1, <1>2, <1>3, <1>4, <1>5

(* A reasoner in use is neither in the queue nor in another call, for any     *)
(* size of the pool and any number of threads.                              *)
THEOREM ReasonersAreExclusive == Spec => []Exclusive
  BY InitExclusive, NextExclusive, TypedControlHolds, PTL DEF Spec

-----------------------------------------------------------------------------
(* Lost reasoners. *)

LEMMA TakenNotLost ==
  ASSUME TypedControl, NEW t \in Thread, Take(t)
  PROVE  LostReasoners' \subseteq LostReasoners
<1>1. PICK r \in pool : pool' = pool \ {r} /\ held' = [held EXCEPT ![t] = r]
  BY DEF Take
<1>2. held[t] = NoReasoner
  BY DEF Take, TypedControl, Control
<1>3. SUFFICES ASSUME NEW s \in LostReasoners', s \notin LostReasoners PROVE FALSE
  OBVIOUS
<1>4. s \in Reasoner /\ s \notin pool' /\ \A x \in Thread : held'[x] # s
  BY DEF LostReasoners
<1>5. held'[t] = r
  BY <1>1 DEF TypedControl, TypeOK
<1>6. s \notin pool
  BY <1>1, <1>4, <1>5
<1>7. PICK x \in Thread : held[x] = s
  BY <1>3, <1>4, <1>6 DEF LostReasoners
<1>8. x # t
  BY <1>2, <1>4, <1>7, OntologyServiceAssumption
<1>9. held'[x] = s
  BY <1>1, <1>7, <1>8 DEF TypedControl, TypeOK
<1>q. QED BY <1>4, <1>9

LEMMA PutBackNotLost ==
  ASSUME TypedControl, NEW t \in Thread, PutBack(t)
  PROVE  LostReasoners' \subseteq LostReasoners
<1>1. SUFFICES ASSUME NEW s \in LostReasoners', s \notin LostReasoners PROVE FALSE
  OBVIOUS
<1>2. s \in Reasoner /\ s \notin pool' /\ \A x \in Thread : held'[x] # s
  BY DEF LostReasoners
<1>3. s \notin pool
  BY <1>2 DEF PutBack
<1>4. PICK x \in Thread : held[x] = s
  BY <1>1, <1>2, <1>3 DEF LostReasoners
<1>5. CASE x = t
  BY <1>2, <1>4, <1>5, OntologyServiceAssumption DEF PutBack
<1>6. CASE x # t
  BY <1>2, <1>4, <1>6 DEF PutBack, DropReasoner, TypedControl, TypeOK
<1>q. QED BY <1>5, <1>6

LEMMA DroppedOnlyByDetails ==
  ASSUME TypedControl, NEW t \in Thread, LoadFails(t), NEW r \in LostReasoners' \ LostReasoners
  PROVE  held[t] = r /\ call[t] = "details"
<1>1. call[t] # "list"
  BY PutBackNotLost DEF LoadFails
<1>2. held' = [held EXCEPT ![t] = NoReasoner] /\ pool' = pool
  BY <1>1 DEF LoadFails, DropReasoner
<1>3. r \in Reasoner /\ r \notin pool' /\ \A x \in Thread : held'[x] # r
  BY DEF LostReasoners
<1>4. PICK x \in Thread : held[x] = r
  BY <1>2, <1>3 DEF LostReasoners
<1>5. x = t
  BY <1>2, <1>3, <1>4 DEF TypedControl, TypeOK
<1>6. call[t] \in UserCalls /\ (call[t] = "user" => held[t] = NoReasoner)
  BY DEF LoadFails, TypedControl, Control
<1>q. QED BY <1>1, <1>3, <1>4, <1>5, <1>6, OntologyServiceAssumption DEF UserCalls

LEMMA NextLoss ==
  ASSUME TypedControl, [Next]_vars, NEW r \in LostReasoners' \ LostReasoners
  PROVE  \E t \in Thread :
           /\ held[t] = r /\ call[t] = "details" /\ pc[t] = "load"
           /\ user[t] \notin Shipped \/ user[t] \in ontologies
<1>1. ~ \E t \in Thread : Take(t)
  BY TakenNotLost
<1>2. ~ \E t \in Thread : Finish(t)
  BY PutBackNotLost DEF Finish
<1>3. ~ UNCHANGED pooled
  BY DEF LostReasoners, pooled
<1>4. ~ Restart
  BY DEF LostReasoners, Restart
<1>5. \E t \in Thread : LoadFails(t)
  BY <1>1, <1>2, <1>3, <1>4
     DEF Next, Step, Arrive, BeginQuery, BeginUserCall, BeginRegistration, Begin,
         ListElement, ElementDone, FindReasoner, FindOntology, Load, InitReasoner, CheckName,
         NameTaken, CreateOntology, SaveOntology, InsertUser, RegistrationFails, pooled, vars
<1>q. QED BY <1>5, DroppedOnlyByDetails DEF LoadFails

(* A reasoner is lost only by a request for the details of one element that   *)
(* fails at the load; no list, query or registration ever loses one.         *)
THEOREM OnlyDetailsLoseReasoners == Spec => LossIsByFailure
<1>1. TypedControl /\ [Next]_vars =>
        [\A r \in LostReasoners' \ LostReasoners :
           \E t \in Thread :
             /\ held[t] = r /\ call[t] = "details" /\ pc[t] = "load"
             /\ user[t] \notin Shipped \/ user[t] \in ontologies]_vars
  BY NextLoss
<1>q. QED BY <1>1, TypedControlHolds, PTL DEF Spec, LossIsByFailure

-----------------------------------------------------------------------------
(* What a registration leaves behind.  FreshUserIsServed and RegisteredHasFile *)
(* are not inductive alone: they say nothing of a registration that has passed *)
(* its file but not its row, nor of a call that has begun.                    *)

Prepared ==
  \A t \in Thread :
    /\ call[t] = "register" /\ pc[t] \in {"save", "init", "insert"} => user[t] \in ontologies
    /\ call[t] = "register" /\ pc[t] \in {"init", "insert"} => user[t] \in saved

Served ==
  \A t \in Thread : call[t] \in UserCalls /\ bootRows[user[t]] = 0 =>
    user[t] \in ontologies /\ pc[t] # "load"

RowsKept ==
  \A u \in User :
    /\ rows[u] >= bootRows[u]
    /\ rows[u] > bootRows[u] => u \in ontologies
    /\ rows[u] > 0 => u \in saved \cup Shipped

Registered == Prepared /\ Served /\ RowsKept

LEMMA InitRegistered == Init => Registered
  BY OntologyServiceAssumption DEF Init, Registered, Prepared, Served, RowsKept, UserCalls

LEMMA NextRegistered == TypedControl /\ Registered /\ [Next]_vars => Registered'
<1> SUFFICES ASSUME TypedControl, Registered, [Next]_vars PROVE Registered'
  OBVIOUS
<1> USE OntologyServiceAssumption
    DEF TypedControl, TypeOK, Registered, Calls, UserCalls, Inside, Registering
<1>1. ASSUME NEW t \in Thread, BeginQuery(t) \/ BeginRegistration(t) PROVE Registered'
  BY <1>1 DEF Prepared, Served, RowsKept, BeginQuery, BeginRegistration, Begin
<1>2. ASSUME NEW t \in Thread, BeginUserCall(t) PROVE Registered'
  <2>1. PICK u \in User, c \in UserCalls :
          CanLogIn(u) /\ Begin(t, c, u, IF c = "user" THEN "lookup" ELSE "take")
    BY <1>2 DEF BeginUserCall
  <2>2. bootRows[u] = 0 => u \in ontologies
    BY <2>1 DEF CanLogIn, RowsKept
  <2>3. Served'
    BY <2>1, <2>2 DEF Served, Begin
  <2>4. Prepared' /\ RowsKept'
    BY <2>1 DEF Prepared, RowsKept, Begin
  <2>q. QED BY <2>3, <2>4
<1>3. ASSUME NEW t \in Thread, Take(t) \/ ListElement(t) \/ ElementDone(t) \/ FindReasoner(t)
                               \/ FindOntology(t) \/ CheckName(t)
      PROVE  Registered'
  BY <1>3 DEF Control, Prepared, Served, RowsKept, Take, ListElement, ElementDone, FindReasoner,
              FindOntology, CheckName, GoTo
<1>4. ASSUME NEW t \in Thread, Load(t) \/ InitReasoner(t) \/ CreateOntology(t) \/ SaveOntology(t)
      PROVE  Registered'
  BY <1>4 DEF Control, Prepared, Served, RowsKept, Load, InitReasoner, CreateOntology,
              SaveOntology, GoTo
<1>5. ASSUME NEW t \in Thread, Finish(t) \/ LoadFails(t) \/ NameTaken(t) \/ RegistrationFails(t)
      PROVE  Registered'
  BY <1>5 DEF Control, Prepared, Served, RowsKept, Finish, LoadFails, NameTaken,
              RegistrationFails, End
<1>6. ASSUME NEW t \in Thread, InsertUser(t) PROVE Registered'
  BY <1>6 DEF Control, Prepared, Served, RowsKept, InsertUser, End
<1>7. ASSUME Restart PROVE Registered'
  BY <1>7 DEF Prepared, Served, RowsKept, Restart
<1>8. ASSUME UNCHANGED vars PROVE Registered'
  BY <1>8 DEF Prepared, Served, RowsKept, vars
<1>q. QED
  BY <1>1, <1>2, <1>3, <1>4, <1>5, <1>6, <1>7, <1>8 DEF Next, Arrive, Step

THEOREM RegisteredHolds == Spec => []Registered
  BY InitRegistered, NextRegistered, TypedControlHolds, PTL DEF Spec

(* A user registered since the start is served from memory.                  *)
THEOREM FreshUsersAreServed == Spec => []FreshUserIsServed
<1>1. TypedControl /\ Registered => FreshUserIsServed
  BY OntologyServiceAssumption
     DEF TypedControl, Control, Registered, Served, RowsKept, FreshUserIsServed
<1>q. QED BY <1>1, TypedControlHolds, RegisteredHolds, PTL

(* A row in the table of users implies an ontology file, in every state of    *)
(* every registration and after every restart.                              *)
THEOREM RowsHaveFiles == Spec => []RegisteredHasFile
<1>1. Registered => RegisteredHasFile
  BY DEF Registered, RowsKept, RegisteredHasFile
<1>q. QED BY <1>1, RegisteredHolds, PTL

-----------------------------------------------------------------------------
(* How often a name can be registered before the next start.  RowsPerStart is  *)
(* not inductive: it does not know of the registrations that have passed the  *)
(* test of the name and will still insert their row.                         *)

Admitted(u) ==
  {t \in Thread : call[t] = "register" /\ user[t] = u
                   /\ pc[t] \in {"create", "save", "init", "insert"}}

RowsToCome == \A u \in User : rows[u] - bootRows[u] + Cardinality(Admitted(u)) <= Cardinality(Thread)

(* A step that admits nobody and inserts nothing.                            *)
LEMMA NobodyAdmitted ==
  ASSUME TypeOK, RowsToCome, UNCHANGED <<rows, bootRows>>,
         \A u \in User : Admitted(u)' \subseteq Admitted(u)
  PROVE  RowsToCome'
<1> SUFFICES ASSUME NEW u \in User
             PROVE  rows[u] - bootRows[u] + Cardinality(Admitted(u)') <= Cardinality(Thread)
  BY DEF RowsToCome
<1>1. Admitted(u) \in SUBSET Thread /\ Admitted(u)' \in SUBSET Admitted(u)
  BY DEF Admitted
<1>2. IsFiniteSet(Thread) /\ IsFiniteSet(Admitted(u)) /\ IsFiniteSet(Admitted(u)')
  BY <1>1, OntologyServiceAssumption, FS_Subset
<1>3. Cardinality(Admitted(u)') <= Cardinality(Admitted(u))
  BY <1>1, <1>2, FS_Subset
<1>4. /\ Cardinality(Admitted(u)') \in Nat /\ Cardinality(Admitted(u)) \in Nat
      /\ Cardinality(Thread) \in Nat
  BY <1>2, FS_CardinalityType
<1>5. rows[u] \in Nat /\ bootRows[u] \in Nat
  BY DEF TypeOK
<1>6. rows[u] - bootRows[u] + Cardinality(Admitted(u)) <= Cardinality(Thread)
  BY DEF RowsToCome
<1>q. QED BY <1>3, <1>4, <1>5, <1>6

LEMMA InitRowsToCome == Init => RowsToCome
<1> SUFFICES ASSUME Init, NEW u \in User
             PROVE  rows[u] - bootRows[u] + Cardinality(Admitted(u)) <= Cardinality(Thread)
  BY DEF RowsToCome
<1>1. Admitted(u) = {} /\ rows[u] - bootRows[u] = 0
  BY DEF Init, Admitted
<1>q. QED BY <1>1, OntologyServiceAssumption, FS_EmptySet, FS_CardinalityType

LEMMA NextRowsToCome ==
  TypedControl /\ Registered /\ RowsToCome /\ [Next]_vars => RowsToCome'
<1> SUFFICES ASSUME TypedControl, Registered, RowsToCome, [Next]_vars PROVE RowsToCome'
  OBVIOUS
<1> USE DEF TypedControl, TypeOK, Calls, UserCalls, Inside, Registering
<1>0. IsFiniteSet(Thread) /\ Cardinality(Thread) \in Nat
  BY OntologyServiceAssumption, FS_CardinalityType
<1>1. ASSUME NEW t \in Thread, Arrive(t) PROVE RowsToCome'
  <2>1. \A u \in User : Admitted(u)' \subseteq Admitted(u)
    BY <1>1 DEF Admitted, Arrive, BeginQuery, BeginUserCall, BeginRegistration, Begin
  <2>2. UNCHANGED <<rows, bootRows>>
    BY <1>1 DEF Arrive, BeginQuery, BeginUserCall, BeginRegistration, Begin
  <2>q. QED BY <2>1, <2>2, NobodyAdmitted
<1>2. ASSUME NEW t \in Thread,
             \/ Take(t) \/ ListElement(t) \/ ElementDone(t) \/ FindReasoner(t)
             \/ FindOntology(t) \/ Load(t) \/ InitReasoner(t)
             \/ CreateOntology(t) \/ SaveOntology(t)
      PROVE  RowsToCome'
  <2>1. \A u \in User : Admitted(u)' \subseteq Admitted(u)
    BY <1>2 DEF Control, Admitted, Take, ListElement, ElementDone, FindReasoner, FindOntology,
                Load, InitReasoner, CreateOntology, SaveOntology, GoTo
  <2>2. UNCHANGED <<rows, bootRows>>
    BY <1>2 DEF Take, ListElement, ElementDone, FindReasoner, FindOntology, Load, InitReasoner,
                CreateOntology, SaveOntology
  <2>q. QED BY <2>1, <2>2, NobodyAdmitted
<1>3. ASSUME NEW t \in Thread,
             Finish(t) \/ LoadFails(t) \/ NameTaken(t) \/ RegistrationFails(t)
      PROVE  RowsToCome'
  <2>1. \A u \in User : Admitted(u)' \subseteq Admitted(u)
    BY <1>3 DEF Admitted, Finish, LoadFails, NameTaken, RegistrationFails, End
  <2>2. UNCHANGED <<rows, bootRows>>
    BY <1>3 DEF Finish, LoadFails, NameTaken, RegistrationFails
  <2>q. QED BY <2>1, <2>2, NobodyAdmitted
<1>4. ASSUME NEW t \in Thread, CheckName(t) PROVE RowsToCome'
  <2> SUFFICES ASSUME NEW u \in User
               PROVE  rows[u] - bootRows[u] + Cardinality(Admitted(u)') <= Cardinality(Thread)
    BY <1>4 DEF RowsToCome, CheckName
  <2>1. CASE u = user[t]
    \* The ontology is not there, so no row has been inserted since the start.
    <3>1. rows[u] - bootRows[u] = 0
      BY <1>4, <2>1 DEF CheckName, Registered, RowsKept
    <3>2. Admitted(u)' \in SUBSET Thread
      BY DEF Admitted
    <3>3. Cardinality(Admitted(u)') \in Nat /\ Cardinality(Admitted(u)') <= Cardinality(Thread)
      BY <3>2, <1>0, FS_Subset, FS_CardinalityType
    <3>q. QED BY <3>1, <3>3, <1>0
  <2>2. CASE u # user[t]
    <3>1. Admitted(u)' = Admitted(u)
      BY <1>4, <2>2 DEF Admitted, CheckName, GoTo
    <3>q. QED BY <3>1 DEF RowsToCome
  <2>q. QED BY <2>1, <2>2
<1>5. ASSUME NEW t \in Thread, InsertUser(t) PROVE RowsToCome'
  <2> SUFFICES ASSUME NEW u \in User
               PROVE  rows'[u] - bootRows[u] + Cardinality(Admitted(u)') <= Cardinality(Thread)
    BY <1>5 DEF RowsToCome, InsertUser
  <2>0. rows[u] - bootRows[u] + Cardinality(Admitted(u)) <= Cardinality(Thread)
    BY DEF RowsToCome
  <2>1. CASE u = user[t]
    <3>1. t \in Admitted(u) /\ Admitted(u)' = Admitted(u) \ {t}
      BY <1>5, <2>1, OntologyServiceAssumption DEF Control, Admitted, InsertUser, End
    <3>2. IsFiniteSet(Admitted(u))
      BY <1>0, FS_Subset DEF Admitted
    <3>3. Cardinality(Admitted(u)') = Cardinality(Admitted(u)) - 1
      BY <3>1, <3>2, FS_RemoveElement
    <3>4. Cardinality(Admitted(u)) \in Nat
      BY <3>2, FS_CardinalityType
    <3>5. rows'[u] = rows[u] + 1 /\ rows[u] \in Nat /\ bootRows[u] \in Nat
      BY <1>5, <2>1 DEF InsertUser
    <3>q. QED BY <1>0, <2>0, <3>3, <3>4, <3>5
  <2>2. CASE u # user[t]
    <3>1. Admitted(u)' = Admitted(u) /\ rows'[u] = rows[u]
      BY <1>5, <2>2, OntologyServiceAssumption DEF Admitted, InsertUser, End
    <3>q. QED BY <3>1, <2>0
  <2>q. QED BY <2>1, <2>2
<1>6. ASSUME Restart PROVE RowsToCome'
  <2> SUFFICES ASSUME NEW u \in User
               PROVE  rows'[u] - bootRows'[u] + Cardinality(Admitted(u)') <= Cardinality(Thread)
    BY DEF RowsToCome
  <2>1. Admitted(u)' = {} /\ rows'[u] - bootRows'[u] = 0
    BY <1>6 DEF Restart, Admitted
  <2>q. QED BY <2>1, <1>0, FS_EmptySet
<1>7. ASSUME UNCHANGED vars PROVE RowsToCome'
  <2>1. \A u \in User : Admitted(u)' \subseteq Admitted(u)
    BY <1>7 DEF Admitted, vars
  <2>q. QED BY <1>7, <2>1, NobodyAdmitted DEF vars
<1>q. QED
  BY <1>1, <1>2, <1>3, <1>4, <1>5, <1>6, <1>7 DEF Next, Step

(* Between two starts a name gets at most as many rows as there are threads  *)
(* to register it, however often and with whatever failures it is tried.     *)
THEOREM RowsAreLimited == Spec => []RowsPerStart
<1>1. TypedControl /\ RowsToCome => RowsPerStart
  <2> SUFFICES ASSUME TypeOK, RowsToCome, NEW u \in User
               PROVE  rows[u] - bootRows[u] <= Cardinality(Thread)
    BY DEF RowsPerStart, TypedControl
  <2>1. IsFiniteSet(Thread) /\ IsFiniteSet(Admitted(u))
    BY OntologyServiceAssumption, FS_Subset DEF Admitted
  <2>2. Cardinality(Thread) \in Nat /\ Cardinality(Admitted(u)) \in Nat
    BY <2>1, FS_CardinalityType
  <2>3. rows[u] - bootRows[u] + Cardinality(Admitted(u)) <= Cardinality(Thread)
    BY DEF RowsToCome
  <2>q. QED BY <2>2, <2>3 DEF TypeOK
<1>q. QED
  BY <1>1, TypedControlHolds, RegisteredHolds, InitRowsToCome, NextRowsToCome, PTL DEF Spec

-----------------------------------------------------------------------------
(* The service implements ReasonerLending. *)

(* With exclusive reasoners the CHOOSE of Owner has one candidate. *)
OwnerIsHolder ==
  \A r \in Reasoner :
    /\ r \in pool => Owner[r] = Free
    /\ \A t \in Thread : held[t] = r => Owner[r] = t
    /\ r \notin pool /\ (\A t \in Thread : held[t] # r) => Owner[r] = Lost

LEMMA OwnerOfHeld == Exclusive => OwnerIsHolder
<1> SUFFICES ASSUME Exclusive, NEW r \in Reasoner
             PROVE  /\ r \in pool => Owner[r] = Free
                    /\ \A t \in Thread : held[t] = r => Owner[r] = t
                    /\ r \notin pool /\ (\A t \in Thread : held[t] # r) => Owner[r] = Lost
  BY DEF OwnerIsHolder
<1>1. ASSUME NEW t \in Thread, held[t] = r PROVE Owner[r] = t
  <2>1. r \notin pool /\ \A s \in Thread : held[s] = r => s = t
    BY <1>1, OntologyServiceAssumption DEF Exclusive
  <2>2. (CHOOSE x \in Thread : held[x] = r) = t
    BY <1>1, <2>1
  <2>q. QED BY <1>1, <2>1, <2>2 DEF Owner
<1>q. QED BY <1>1 DEF Owner

LEMMA OwnerOfHeldPrimed == Exclusive' => OwnerIsHolder'
  BY OwnerOfHeld, PTL

(* A step that moves one reasoner moves no other. *)
LEMMA OthersKeepOwner ==
  ASSUME OwnerIsHolder, OwnerIsHolder', NEW r \in Reasoner, NEW v, Owner'[r] = v,
         \A s \in Reasoner \ {r} :
           (s \in pool' <=> s \in pool) /\ \A x \in Thread : held'[x] = s <=> held[x] = s
  PROVE  Owner' = [Owner EXCEPT ![r] = v]
<1>1. ASSUME NEW s \in Reasoner \ {r} PROVE Owner'[s] = Owner[s]
  BY DEF OwnerIsHolder
<1>2. Owner = [s \in Reasoner |-> Owner[s]] /\ Owner' = [s \in Reasoner |-> Owner'[s]]
  BY DEF Owner
<1>q. QED BY <1>1, <1>2

LEMMA InitLending == Init => Lending!Init
  BY DEF Init, Lending!Init, Owner

LEMMA TakeLends ==
  ASSUME TypedControl, OwnerIsHolder, OwnerIsHolder', NEW t \in Thread, Take(t)
  PROVE  \E r \in Reasoner : Lending!Lend(r, t)
<1> USE OntologyServiceAssumption DEF TypedControl, TypeOK
<1>1. PICK r \in pool : pool' = pool \ {r} /\ held' = [held EXCEPT ![t] = r]
  BY DEF Take
<1>2. r \in Reasoner /\ Owner[r] = Free
  BY DEF OwnerIsHolder
<1>3. held[t] = NoReasoner
  BY DEF Take, Control
<1>4. ASSUME NEW s \in Reasoner PROVE Owner[s] # t
  <2>1. s \in pool => Owner[s] = Free
    BY DEF OwnerIsHolder
  <2>2. ASSUME NEW x \in Thread, held[x] = s PROVE Owner[s] = x /\ x # t
    BY <1>3, <2>2 DEF OwnerIsHolder
  <2>3. s \notin pool /\ (\A x \in Thread : held[x] # s) => Owner[s] = Lost
    BY DEF OwnerIsHolder
  <2>q. QED BY <2>1, <2>2, <2>3
<1>5. Owner'[r] = t
  BY <1>1 DEF OwnerIsHolder
<1>6. Owner' = [Owner EXCEPT ![r] = t]
  BY <1>1, <1>2, <1>3, <1>5, OthersKeepOwner
<1>q. QED BY <1>2, <1>4, <1>6 DEF Lending!Lend

LEMMA PutBackGivesBack ==
  ASSUME TypedControl, OwnerIsHolder, OwnerIsHolder', NEW t \in Thread, PutBack(t)
  PROVE  UNCHANGED Owner \/ \E r \in Reasoner : Lending!GiveBack(r)
<1> USE OntologyServiceAssumption DEF TypedControl, TypeOK
<1>1. CASE held[t] = NoReasoner
  <2>1. UNCHANGED pooled
    BY <1>1 DEF PutBack, DropReasoner, pooled
  <2>q. QED BY <2>1 DEF pooled, Owner
<1>2. CASE held[t] \in Reasoner
  <2>1. Owner[held[t]] = t
    BY <1>2 DEF OwnerIsHolder
  <2>2. pool' = pool \cup {held[t]} /\ held' = [held EXCEPT ![t] = NoReasoner]
    BY <1>2 DEF PutBack, DropReasoner
  <2>3. Owner'[held[t]] = Free
    BY <1>2, <2>2 DEF OwnerIsHolder
  <2>4. Owner' = [Owner EXCEPT ![held[t]] = Free]
    BY <1>2, <2>2, <2>3, OthersKeepOwner
  <2>q. QED BY <1>2, <2>1, <2>4 DEF Lending!GiveBack
<1>q. QED BY <1>1, <1>2

LEMMA DropLoses ==
  ASSUME TypedControl, Exclusive, OwnerIsHolder, OwnerIsHolder',
         NEW t \in Thread, DropReasoner(t), pool' = pool
  PROVE  UNCHANGED Owner \/ \E r \in Reasoner : Lending!Lose(r)
<1> USE OntologyServiceAssumption DEF TypedControl, TypeOK
<1>1. CASE held[t] = NoReasoner
  <2>1. UNCHANGED pooled
    BY <1>1 DEF DropReasoner, pooled
  <2>q. QED BY <2>1 DEF pooled, Owner
<1>2. CASE held[t] \in Reasoner
  <2>1. Owner[held[t]] = t
    BY <1>2 DEF OwnerIsHolder
  <2>2. held[t] \notin pool' /\ \A x \in Thread : held'[x] # held[t]
    BY <1>2 DEF DropReasoner, Exclusive
  <2>3. Owner'[held[t]] = Lost
    BY <1>2, <2>2 DEF OwnerIsHolder
  <2>4. Owner' = [Owner EXCEPT ![held[t]] = Lost]
    BY <1>2, <2>3, OthersKeepOwner DEF DropReasoner
  <2>q. QED BY <1>2, <2>1, <2>4 DEF Lending!Lose
<1>q. QED BY <1>1, <1>2

LEMMA NextLending ==
  ASSUME TypedControl, Exclusive, Exclusive', [Next]_vars
  PROVE  [Lending!Next]_Owner
<1> USE OwnerOfHeld, OwnerOfHeldPrimed
<1>1. ASSUME NEW t \in Thread, Take(t) PROVE [Lending!Next]_Owner
  BY <1>1, TakeLends DEF Lending!Next
<1>2. ASSUME NEW t \in Thread, Finish(t) PROVE [Lending!Next]_Owner
  BY <1>2, PutBackGivesBack DEF Finish, Lending!Next
<1>3. ASSUME NEW t \in Thread, LoadFails(t) PROVE [Lending!Next]_Owner
  BY <1>3, PutBackGivesBack, DropLoses DEF LoadFails, Lending!Next
<1>4. ASSUME Restart PROVE [Lending!Next]_Owner
  BY <1>4 DEF Restart, Owner, Lending!Next, Lending!Renew
<1>5. ASSUME UNCHANGED pooled PROVE [Lending!Next]_Owner
  BY <1>5 DEF pooled, Owner
<1>6. Restart \/ UNCHANGED pooled \/ \E t \in Thread : Take(t) \/ Finish(t) \/ LoadFails(t)
  BY DEF Next, Step, Arrive, BeginQuery, BeginUserCall, BeginRegistration, Begin,
         ListElement, ElementDone, FindReasoner, FindOntology, Load, InitReasoner, CheckName,
         NameTaken, CreateOntology, SaveOntology, InsertUser, RegistrationFails, pooled, vars
<1>q. QED BY <1>1, <1>2, <1>3, <1>4, <1>5, <1>6

(* Every behaviour of the service is one of ReasonerLending: a take lends, a  *)
(* finally block gives back, a failed load outside the try block loses, and   *)
(* every other step leaves the reasoners where they are.                    *)
THEOREM ServiceLendsReasoners == Spec => ImplementsLending
<1>1. TypedControl /\ Exclusive /\ Exclusive' /\ [Next]_vars => [Lending!Next]_Owner
  BY NextLending
<1>q. QED
  BY <1>1, InitLending, TypedControlHolds, ReasonersAreExclusive, PTL
     DEF Spec, ImplementsLending, Lending!Spec
=============================================================================
