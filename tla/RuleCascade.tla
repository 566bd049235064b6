----------------------------- MODULE RuleCascade -----------------------------
(***************************************************************************)
(* What the simulation of a rule set promises, without a net: an occurring *)
(* trigger makes each of its rules due once, executing a due rule takes    *)
(* one off and makes each rule its action triggers due once more.          *)
(***************************************************************************)
EXTENDS RuleNet, Sequences

VARIABLES
  rules,    \* the rule set
  due,      \* how many executions each rule owes
  history   \* the rules executed, in order

Init ==
  /\ rules \in SUBSET Rule
  /\ due = [r \in Rule |-> 0]
  /\ history = <<>>

\* The one external occurrence, at the start.
Occur(t) ==
  /\ history = <<>> /\ \A r \in Rule : due[r] = 0
  /\ due' = [r \in Rule |-> IF r \in RulesByTrigger(rules, t) THEN 1 ELSE 0]
  /\ UNCHANGED <<rules, history>>

Execute(r) ==
  /\ due[r] > 0
  /\ due' = [s \in Rule |->
               (IF s = r THEN due[s] - 1 ELSE due[s])
                 + (IF s \in TriggeredRules(rules, ActOf[r]) THEN 1 ELSE 0)]
  /\ history' = Append(history, r)
  /\ UNCHANGED rules

Next == (\E t \in NetTriggers(rules) : Occur(t)) \/ (\E r \in rules : Execute(r))

Spec == Init /\ [][Next]_<<rules, due, history>>
==============================================================================
