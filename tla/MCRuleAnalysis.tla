---------------------------- MODULE MCRuleAnalysis ----------------------------
(***************************************************************************)
(* RuleAnalysis in a home like that of MCPolicyCheck.  Here a2 switches the *)
(* tv too: r5 loops with itself, downstream of r1 and r2, and without r5     *)
(* both r1 and r2 lead to r3 and r4, which are then executed twice.          *)
(***************************************************************************)
EXTENDS RuleAnalysis, TLC

CONSTANTS r1, r2, r3, r4, r5, t1, t2, t3, a1, a2, a3, lamp, tv, door, light, alarm

MCTrigOf == (r1 :> t1) @@ (r2 :> t1) @@ (r3 :> t2) @@ (r4 :> t3) @@ (r5 :> t3)
MCActOf == (r1 :> a1) @@ (r2 :> a2) @@ (r3 :> a3) @@ (r4 :> a3) @@ (r5 :> a2)
MCServiceOf == [x \in Trigger \cup Action |-> "devices"]
MCEntitiesOf ==
  (t1 :> {}) @@ (t2 :> {lamp}) @@ (t3 :> {tv}) @@ (a1 :> {lamp, tv})
    @@ (a2 :> {lamp, tv}) @@ (a3 :> {lamp, door})
MCOwlTriggers == {<<a1, t2>>, <<a1, t3>>, <<a2, t2>>, <<a2, t3>>}

\* a1 shares a class with a2 and a2 one with a3, but not a1 with a3.
MCClassesOf == (a1 :> {light}) @@ (a2 :> {light, alarm}) @@ (a3 :> {alarm})
=============================================================================
