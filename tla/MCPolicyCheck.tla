--------------------------- MODULE MCPolicyCheck ---------------------------
(***************************************************************************)
(* A small home for PolicyCheck.  Init stores every subset of the four     *)
(* policies and checks each of them, stored or not: with and without the   *)
(* loop, with a root or none, in one component and in two.                 *)
(***************************************************************************)
EXTENDS PolicyCheckRefinement, TLC

CONSTANTS r1, r2, r3, r4, t1, t2, t3, a1, a2, a3, a4, lamp, tv

\* t1 -> {a1, a2}: two policies with one trigger.
MCTrigOf == (r1 :> t1) @@ (r2 :> t1) @@ (r3 :> t2) @@ (r4 :> t3)
MCActOf == (r1 :> a1) @@ (r2 :> a2) @@ (r3 :> a3) @@ (r4 :> a4)

\* t1 is a time of day, t2 is observed on the lamp and t3 on the television.
MCServiceOf == [x \in Trigger \cup Action |-> "devices"]
MCEntitiesOf ==
  (t1 :> {}) @@ (t2 :> {lamp}) @@ (t3 :> {tv})
    @@ (a1 :> {tv}) @@ (a2 :> {lamp, tv}) @@ (a3 :> {tv}) @@ (a4 :> {lamp})

\* a1 causes t3, a2 both t2 and t3, a3 t3 and a4 t2: r3 and r4 are a loop.
\* <<a1, t2>> is in the ontology but the two share no device.
MCOwlTriggers ==
  {<<a1, t2>>, <<a1, t3>>, <<a2, t2>>, <<a2, t3>>, <<a3, t3>>, <<a4, t2>>}
============================================================================
