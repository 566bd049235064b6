--------------------------- MODULE OntologyService ---------------------------
(***************************************************************************)
(* OWLServiceImpl as its callers share it, with the registration of users   *)
(* (LoginController.createNewUser) that writes to it.                       *)
(*                                                                         *)
(* The service owns a pool of reasoners on the base ontology, an OWL        *)
(* manager with the ontologies loaded so far, and a map with one reasoner   *)
(* per user.  None of them is locked; a request is a thread that calls      *)
(* methods of the service one after the other.  The model has one thread    *)
(* per call in progress.  The calls differ in what they share:              *)
(*   "query"    takes a reasoner, asks it, gives it back (getTriggerServices,*)
(*              triggers, getSubClasses, getDirectClasses, getTechnology...)*)
(*   "list"     does the same and reads the details of each element with the *)
(*              reasoner it has (getTrigger, getTriggers, getAction,         *)
(*              getActions)                                                 *)
(*   "details"  takes a reasoner for the details of one element             *)
(*              (getTriggerDetails and getActionDetails with null)          *)
(*   "user"     asks the user's own reasoner only (getIoTEntityByUrl,        *)
(*              getCommands, getServicesByIoTEntity, ...)                   *)
(*   "register" creates a user                                              *)
(* What the reasoners answer is left out.                                   *)
(***************************************************************************)
EXTENDS Integers, FiniteSets

CONSTANTS
  Thread,      \* threads that serve requests
  Reasoner,    \* the queueSize reasoners of the constructor
  User,        \* user names
  Shipped,     \* users whose ontology file comes with the service
  NoReasoner,  \* local variable reasoner without a value
  NoUser,      \* a call on behalf of nobody
  Free, Lost,  \* owners of a reasoner that no call has (for ReasonerLending)
  MaxRows      \* bound on the rows of one name

ASSUME OntologyServiceAssumption ==
  /\ IsFiniteSet(Thread)
  /\ Shipped \subseteq User
  /\ NoReasoner \notin Reasoner
  /\ NoUser \notin User
  /\ Free \notin Thread /\ Lost \notin Thread
  /\ MaxRows \in Nat \ {0}

VARIABLES
  pool,           \* reasoners in the queue
  held,           \* reasoner a call took from the queue
  pc, call, user, \* where a thread is, in which call, for which user
  ontologies,     \* users whose ontology the OWL manager has
  userReasoners,  \* keys of the map userReasoners
  saved,          \* users whose ontology addOntology wrote to a file
  rows,           \* rows of a name in the table of users
  bootRows        \* rows of a name when the service was started (history)

pooled == <<pool, held>>
threads == <<pc, call, user>>
memory == <<ontologies, userReasoners>>
disk == <<saved, rows, bootRows>>
vars == <<pool, held, pc, call, user, ontologies, userReasoners, saved, rows, bootRows>>

UserCalls == {"list", "details", "user"}
Calls == UserCalls \cup {"none", "query", "register"}
Registering == {"check", "create", "save", "insert"}
Inside == {"work", "lookup", "find", "load", "init", "body"}

Init ==
  /\ pool = Reasoner
  /\ held = [t \in Thread |-> NoReasoner]
  /\ pc = [t \in Thread |-> "idle"]
  /\ call = [t \in Thread |-> "none"]
  /\ user = [t \in Thread |-> NoUser]
  /\ ontologies = {}
  /\ userReasoners = {}
  /\ saved = {}
  /\ rows = [u \in User |-> IF u \in Shipped THEN 1 ELSE 0]
  /\ bootRows = rows

-----------------------------------------------------------------------------
(* How a call begins and ends. *)

Begin(t, c, u, at) ==
  /\ pc[t] = "idle"
  /\ pc' = [pc EXCEPT ![t] = at]
  /\ call' = [call EXCEPT ![t] = c]
  /\ user' = [user EXCEPT ![t] = u]
  /\ UNCHANGED <<pool, held, ontologies, userReasoners, saved, rows, bootRows>>

GoTo(t, at) == pc' = [pc EXCEPT ![t] = at] /\ UNCHANGED <<call, user>>

End(t) ==
  /\ pc' = [pc EXCEPT ![t] = "idle"]
  /\ call' = [call EXCEPT ![t] = "none"]
  /\ user' = [user EXCEPT ![t] = NoUser]

DropReasoner(t) == held' = [held EXCEPT ![t] = NoReasoner]
\* Faulty variant: the finally block does not test for null.
PutBackNull(t) == pool' = pool \cup {held[t]} /\ DropReasoner(t)
PutBack(t) == pool' = pool \cup ({held[t]} \ {NoReasoner}) /\ DropReasoner(t)

BeginQuery(t) == Begin(t, "query", NoUser, "take")

(* findByUsername answers for a name with one row, and throws when there are more. *)
CanLogIn(u) == rows[u] = 1

BeginUserCall(t) ==
  \E u \in User, c \in UserCalls :
    CanLogIn(u) /\ Begin(t, c, u, IF c = "user" THEN "lookup" ELSE "take")

RegistrationsOf(u) == {t \in Thread : call[t] = "register" /\ user[t] = u}

BeginRegistration(t) ==
  \E u \in User :
    /\ rows[u] + Cardinality(RegistrationsOf(u)) < MaxRows
    /\ Begin(t, "register", u, "check")

-----------------------------------------------------------------------------
(* Calls on the base ontology.  "work" is the try block of a "query" or a   *)
(* "list", "body" the one of getTriggerDetails and getActionDetails or the  *)
(* part of a "user" call that has the user's reasoner.  The second lookups  *)
(* inside a body find what the first one left in the map.                   *)

Take(t) ==
  /\ pc[t] = "take"
  /\ \E r \in pool :
       /\ pool' = pool \ {r}
       /\ held' = [held EXCEPT ![t] = r]
  /\ GoTo(t, IF call[t] = "details" THEN "lookup" ELSE "work")
  /\ UNCHANGED <<ontologies, userReasoners, saved, rows, bootRows>>

\* Faulty variant: the nested call is made with null and takes another reasoner.
ListElementAsks(t) ==
  /\ pc[t] = "work" /\ call[t] = "list"
  /\ GoTo(t, "take")
  /\ UNCHANGED <<pool, held, ontologies, userReasoners, saved, rows, bootRows>>

(* The next element of a list: its details are read with the same reasoner. *)
ListElement(t) ==
  /\ pc[t] = "work" /\ call[t] = "list"
  /\ GoTo(t, "lookup")
  /\ UNCHANGED <<pool, held, ontologies, userReasoners, saved, rows, bootRows>>

\* Faulty variant: the nested call's finally block does not look at taken.
ElementDoneGivesBack(t) ==
  /\ pc[t] = "body" /\ call[t] = "list"
  /\ pool' = pool \cup {held[t]}
  /\ GoTo(t, "work")
  /\ UNCHANGED <<held, ontologies, userReasoners, saved, rows, bootRows>>

ElementDone(t) ==
  /\ pc[t] = "body" /\ call[t] = "list"
  /\ GoTo(t, "work")
  /\ UNCHANGED <<pool, held, ontologies, userReasoners, saved, rows, bootRows>>

(* The finally block, after the last statement or an exception of the queries. *)
Finish(t) ==
  /\ pc[t] \in {"work", "body"}
  /\ PutBack(t)
  /\ End(t)
  /\ UNCHANGED <<ontologies, userReasoners, saved, rows, bootRows>>

-----------------------------------------------------------------------------
(* The reasoner of the user, looked up in the same way by seven methods.    *)

(* Another thread is at its put into the HashMap, whose effect on this map  *)
(* operation is undefined: an entry may be missed or lost.                  *)
PutInProgress(t) == \E s \in Thread \ {t} : pc[s] = "init"

FindReasoner(t) ==
  /\ pc[t] = "lookup"
  /\ \/ user[t] \in userReasoners /\ GoTo(t, "body")
     \/ (user[t] \notin userReasoners \/ PutInProgress(t)) /\ GoTo(t, "find")
  /\ UNCHANGED <<pool, held, ontologies, userReasoners, saved, rows, bootRows>>

FindOntology(t) ==
  /\ pc[t] = "find"
  /\ GoTo(t, IF user[t] \in ontologies THEN "init" ELSE "load")
  /\ UNCHANGED <<pool, held, ontologies, userReasoners, saved, rows, bootRows>>

(* loadFromFile looks into the directory of the shipped ontologies only. *)
Load(t) ==
  /\ pc[t] = "load"
  /\ user[t] \in Shipped
  /\ ontologies' = ontologies \cup {user[t]}
  /\ GoTo(t, "init")
  /\ UNCHANGED <<pool, held, userReasoners, saved, rows, bootRows>>

\* Faulty variant: a "list" has no finally block either.
LoadFailsLosing(t) ==
  /\ pc[t] = "load"
  /\ user[t] \notin Shipped \/ user[t] \in ontologies
  /\ DropReasoner(t)
  /\ End(t)
  /\ UNCHANGED <<pool, ontologies, userReasoners, saved, rows, bootRows>>

\* Faulty variant: a failed load is tried again.
LoadFailsRetried(t) ==
  /\ pc[t] = "load"
  /\ user[t] \notin Shipped \/ user[t] \in ontologies
  /\ GoTo(t, "find")
  /\ UNCHANGED <<pool, held, ontologies, userReasoners, saved, rows, bootRows>>

(* No such file, or another thread has brought the ontology in meanwhile,   *)
(* which the manager may refuse.  A "list" gives its reasoner back; the      *)
(* "details" calls are not yet in the try block that would do so.           *)
LoadFails(t) ==
  /\ pc[t] = "load"
  /\ user[t] \notin Shipped \/ user[t] \in ontologies
  /\ \/ call[t] = "list" /\ PutBack(t)
     \/ call[t] # "list" /\ DropReasoner(t) /\ UNCHANGED pool
  /\ End(t)
  /\ UNCHANGED <<ontologies, userReasoners, saved, rows, bootRows>>

(* initHermiTReasoner and userReasoners.put, for lookups and registrations. *)
InitReasoner(t) ==
  /\ pc[t] = "init"
  /\ \/ userReasoners' = userReasoners \cup {user[t]}
     \/ PutInProgress(t) /\ UNCHANGED userReasoners
  /\ GoTo(t, IF call[t] = "register" THEN "insert" ELSE "body")
  /\ UNCHANGED <<pool, held, ontologies, saved, rows, bootRows>>

-----------------------------------------------------------------------------
(* Registration: the ontology first (addOntology), then the row (saveUser).  *)
(* createOntology of the manager tests and adds in two steps, without a lock. *)

\* Faulty variant: no test of the name.
CheckNameBlind(t) ==
  /\ pc[t] = "check"
  /\ GoTo(t, "create")
  /\ UNCHANGED <<pool, held, ontologies, userReasoners, saved, rows, bootRows>>

CheckName(t) ==
  /\ pc[t] = "check"
  /\ user[t] \notin ontologies
  /\ GoTo(t, "create")
  /\ UNCHANGED <<pool, held, ontologies, userReasoners, saved, rows, bootRows>>

NameTaken(t) ==
  /\ pc[t] = "check"
  /\ user[t] \in ontologies
  /\ End(t)
  /\ UNCHANGED <<pool, held, ontologies, userReasoners, saved, rows, bootRows>>

\* Faulty variant: the ontology is not saved.
CreateOntologyUnsaved(t) ==
  /\ pc[t] = "create"
  /\ ontologies' = ontologies \cup {user[t]}
  /\ GoTo(t, "init")
  /\ UNCHANGED <<pool, held, userReasoners, saved, rows, bootRows>>

CreateOntology(t) ==
  /\ pc[t] = "create"
  /\ ontologies' = ontologies \cup {user[t]}
  /\ GoTo(t, "save")
  /\ UNCHANGED <<pool, held, userReasoners, saved, rows, bootRows>>

SaveOntology(t) ==
  /\ pc[t] = "save"
  /\ saved' = saved \cup {user[t]}
  /\ GoTo(t, "init")
  /\ UNCHANGED <<pool, held, ontologies, userReasoners, rows, bootRows>>

(* The table has no unique key on the name. *)
InsertUser(t) ==
  /\ pc[t] = "insert"
  /\ rows' = [rows EXCEPT ![user[t]] = @ + 1]
  /\ End(t)
  /\ UNCHANGED <<pool, held, ontologies, userReasoners, saved, bootRows>>

\* Faulty variant: a failed registration takes its ontology away again.
RegistrationFailsUndone(t) ==
  /\ pc[t] \in {"save", "insert"}
  /\ ontologies' = ontologies \ {user[t]}
  /\ End(t)
  /\ UNCHANGED <<pool, held, userReasoners, saved, rows, bootRows>>

(* The file cannot be written, or the table refuses the row (its key on the *)
(* password, an empty field).  Nothing undoes the earlier steps.            *)
RegistrationFails(t) ==
  /\ pc[t] \in {"save", "insert"}
  /\ End(t)
  /\ UNCHANGED <<pool, held, ontologies, userReasoners, saved, rows, bootRows>>

-----------------------------------------------------------------------------
(* A new process: the constructor fills the pool and starts without users'  *)
(* ontologies; files and rows stay.                                         *)
Restart ==
  /\ pool' = Reasoner
  /\ held' = [t \in Thread |-> NoReasoner]
  /\ pc' = [t \in Thread |-> "idle"]
  /\ call' = [t \in Thread |-> "none"]
  /\ user' = [t \in Thread |-> NoUser]
  /\ ontologies' = {}
  /\ userReasoners' = {}
  /\ bootRows' = rows
  /\ UNCHANGED <<saved, rows>>

Arrive(t) == BeginQuery(t) \/ BeginUserCall(t) \/ BeginRegistration(t)

Step(t) ==
  \/ Take(t) \/ ListElement(t) \/ ElementDone(t) \/ Finish(t)
  \/ FindReasoner(t) \/ FindOntology(t) \/ Load(t) \/ LoadFails(t) \/ InitReasoner(t)
  \/ CheckName(t) \/ NameTaken(t) \/ CreateOntology(t) \/ SaveOntology(t)
  \/ InsertUser(t) \/ RegistrationFails(t)

Next == (\E t \in Thread : Arrive(t) \/ Step(t)) \/ Restart

(* A thread that can go on does; a list is finite, so a call that can end    *)
(* again and again ends.  Requests and restarts need not come.              *)
Fairness == \A t \in Thread : WF_vars(Step(t)) /\ SF_vars(Finish(t))

Spec == Init /\ [][Next]_vars
FairSpec == Spec /\ Fairness

-----------------------------------------------------------------------------
(* Correctness. *)

TypeOK ==
  /\ pool \subseteq Reasoner
  /\ held \in [Thread -> Reasoner \cup {NoReasoner}]
  /\ pc \in [Thread -> {"idle", "take"} \cup Inside \cup Registering]
  /\ call \in [Thread -> Calls]
  /\ user \in [Thread -> User \cup {NoUser}]
  /\ ontologies \subseteq User
  /\ userReasoners \subseteq User
  /\ saved \subseteq User
  /\ rows \in [User -> Nat]
  /\ bootRows \in [User -> Nat]

(* HermiT reasoners are not thread-safe: one that a call uses is neither in   *)
(* the pool nor in the hands of another call.  (reasoners.take and put)       *)
Exclusive ==
  \A t \in Thread : held[t] # NoReasoner =>
    /\ held[t] \notin pool
    /\ \A s \in Thread : held[s] = held[t] => s = t

(* A call that waits for a reasoner has none: the nested getTriggerDetails   *)
(* and getActionDetails use the caller's, so five lists at once do not wait  *)
(* for each other.                                                         *)
NoWaitWhileHolding == \A t \in Thread : pc[t] = "take" => held[t] = NoReasoner

LostReasoners == Reasoner \ (pool \cup {held[t] : t \in Thread})

(* A reasoner is lost only by a request for the details of one element whose *)
(* user's ontology cannot be loaded or was brought in by another thread       *)
(* between the lookup and the load; a "list" never loses its reasoner.       *)
LossIsByFailure ==
  [][\A r \in LostReasoners' \ LostReasoners :
       \E t \in Thread :
         /\ held[t] = r /\ call[t] = "details" /\ pc[t] = "load"
         /\ user[t] \notin Shipped \/ user[t] \in ontologies]_vars

(* A user registered since the last start is served from memory: whatever    *)
(* calls came between, the manager still has the ontology, and no call of a   *)
(* user unknown at the start gets as far as loading a file, which would be    *)
(* looked for in the wrong place (addOntology before saveUser).             *)
FreshUserIsServed ==
  \A u \in User : rows[u] > bootRows[u] =>
    /\ u \in ontologies
    /\ bootRows[u] = 0 => \A t \in Thread : user[t] = u => pc[t] # "load"

(* No row without an ontology file, also when a registration stops halfway   *)
(* or the service is restarted (addOntology before saveUser).               *)
RegisteredHasFile == \A u \in User : rows[u] > 0 => u \in saved \cup Shipped

(* The manager's refusal of a second ontology is all that keeps names apart: *)
(* within one run of the service a name gets at most as many rows as calls    *)
(* can pass the test together, however often it is registered.               *)
RowsPerStart == \A u \in User : rows[u] - bootRows[u] <= Cardinality(Thread)

(* A call that got past the queue ends: its loads, lookups and exceptions     *)
(* all lead to the end of the method.                                       *)
CallEnds == \A t \in Thread : (pc[t] \notin {"idle", "take"}) ~> (pc[t] = "idle")

(* The pool is never empty for good unless every reasoner has been lost.     *)
PoolRefills == []<>(pool # {} \/ LostReasoners = Reasoner)

(* What one would expect of the service, and what it does not keep:          *)
(* with nobody using a reasoner, there is one for the next request;          *)
PoolServesNext == (\A t \in Thread : held[t] = NoReasoner) => pool # {}
(* the ontology of a user who can log in is found in memory or on file.       *)
OntologyIsFound == \A t \in Thread : pc[t] = "load" => user[t] \in Shipped \cup ontologies

-----------------------------------------------------------------------------
(* The service implements ReasonerLending. *)
Owner ==
  [r \in Reasoner |->
     IF r \in pool THEN Free
     ELSE IF \E t \in Thread : held[t] = r THEN CHOOSE t \in Thread : held[t] = r
     ELSE Lost]

Lending == INSTANCE ReasonerLending WITH owner <- Owner

(* Whatever the calls do, each reasoner is lent, given back or lost as        *)
(* ReasonerLending says.                                                   *)
ImplementsLending == Lending!Spec
=============================================================================
