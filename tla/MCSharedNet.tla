---------------------------- MODULE MCSharedNet ----------------------------
(***************************************************************************)
(* A policy that causes another one, and a third with the other's action;  *)
(* the first, or all, may be deleted between the two checks.               *)
(***************************************************************************)
EXTENDS SharedNet, TLC

CONSTANTS c1, c2, r1, r2, r3, t1, t2, t3, a1, a2, lamp, tv, door

Symmetry == Permutations(Check)

\* t1 -> a1 ~> t2 -> a2, t3 -> a2.
MCTrigOf == (r1 :> t1) @@ (r2 :> t2) @@ (r3 :> t3)
MCActOf == (r1 :> a1) @@ (r2 :> a2) @@ (r3 :> a2)
MCServiceOf == [x \in Trigger \cup Action |-> "devices"]
MCEntitiesOf ==
  (t1 :> {}) @@ (t2 :> {lamp}) @@ (t3 :> {door}) @@ (a1 :> {lamp}) @@ (a2 :> {tv})
\* <<a1, t3>> is in the ontology, but on different devices.
MCTriggers == {<<a1, t2>>, <<a1, t3>>}

MCRuleSets == {Rule, Rule \ {r1}, {}}
==============================================================================
