--------------------------- MODULE ReasonerLending ---------------------------
(***************************************************************************)
(* What the reasoner pool of OWLServiceImpl promises, without requests,    *)
(* ontologies or a queue: a reasoner is lent to one thread at a time, a     *)
(* thread borrows one at a time, and what was borrowed comes back or is     *)
(* lost.  A restart of the service makes all reasoners anew.                *)
(***************************************************************************)
CONSTANTS
  Thread,    \* threads that serve requests
  Reasoner,  \* reasoners on the base ontology
  Free,      \* owner of a reasoner in the pool
  Lost       \* owner of a reasoner nobody can reach any more

VARIABLE owner  \* who has a reasoner

Init == owner = [r \in Reasoner |-> Free]

Lend(r, t) ==
  /\ owner[r] = Free
  /\ \A s \in Reasoner : owner[s] # t
  /\ owner' = [owner EXCEPT ![r] = t]

GiveBack(r) ==
  /\ owner[r] \in Thread
  /\ owner' = [owner EXCEPT ![r] = Free]

Lose(r) ==
  /\ owner[r] \in Thread
  /\ owner' = [owner EXCEPT ![r] = Lost]

Renew == owner' = [r \in Reasoner |-> Free]

Next ==
  \/ \E r \in Reasoner : (\E t \in Thread : Lend(r, t)) \/ GiveBack(r) \/ Lose(r)
  \/ Renew

Spec == Init /\ [][Next]_owner
=============================================================================
