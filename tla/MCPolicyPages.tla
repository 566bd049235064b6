--------------------------- MODULE MCPolicyPages ---------------------------
(***************************************************************************)
(* Each stored policy has a trigger of its own, and so has the draft.      *)
(***************************************************************************)
EXTENDS PolicyPages, TLC

CONSTANTS a1, Deny, marketplace, s1, s2

Made(t, i) ==
  [trigger |-> t, triggerDetails |-> t, action |-> a1, actionDetails |-> a1,
   effect |-> Deny, subject |-> marketplace, dbId |-> i]

\* The places for requests are alike.
Symmetry == Permutations(Slots)

MCTrigger == 0 .. 2
MCTable == [i \in Id |-> Made(i, i)]
MCDraft == Made(0, None)
=============================================================================
