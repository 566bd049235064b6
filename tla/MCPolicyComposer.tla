-------------------------- MODULE MCPolicyComposer --------------------------
(***************************************************************************)
(* Two triggers, two actions and a policy that is stored already.          *)
(***************************************************************************)
EXTENDS PolicyComposer

CONSTANTS t1, t2, a1, a2, Deny, marketplace

MCTable ==
  [i \in Id |-> [trigger |-> t1, triggerDetails |-> t1, action |-> a1, actionDetails |-> a1,
                effect |-> Deny, subject |-> marketplace, dbId |-> i]]
=============================================================================
