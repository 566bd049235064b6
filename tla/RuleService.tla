---------------------------- MODULE RuleService ----------------------------
(***************************************************************************)
(* The front end's service for the policy in the making (class vn of       *)
(* main.*.js).  The pages of the Angular application share one instance:   *)
(* the policy lives in its field `rule`, and every setter also writes a    *)
(* key of localStorage, from which the getters take what the memory lost   *)
(* when the page was reloaded.                                             *)
(*                                                                         *)
(* A service is a record of memory and storage; each method is an operator *)
(* from service to service.  The details of a trigger or action are the    *)
(* values its user entered: they are represented by the trigger or action  *)
(* whose fields were filled in, Blank being a list without values.         *)
(***************************************************************************)

CONSTANTS
  Trigger, Action,   \* what the pages offer
  Effect, Subject,   \* "Permit" or "Deny"; whom the policy is about
  Id,                \* database ids of policies
  None,              \* null or undefined
  Blank              \* details without a value

ASSUME RuleServiceAssumption ==
  /\ None \notin Trigger \cup Action \cup Effect \cup Subject \cup Id
  /\ Blank \notin Trigger \cup Action \cup {None}

\* A policy as the service keeps it.
Rule ==
  [trigger : Trigger \cup {None}, triggerDetails : Trigger \cup {Blank, None},
   action : Action \cup {None}, actionDetails : Action \cup {Blank, None},
   effect : Effect \cup {None}, subject : Subject \cup {None}, dbId : Id \cup {None}]

NewRule ==
  [trigger |-> None, triggerDetails |-> None, action |-> None, actionDetails |-> None,
   effect |-> None, subject |-> None, dbId |-> None]

\* The memory is lost with the page, localStorage is not.  A rule of None is
\* what setRule(null) leaves behind: every method that reads it throws then.
Service ==
  [rule : Rule \cup {None}, problems : Id \cup {None},
   local : Rule, localProblems : Id \cup {None}]

FreshService ==
  [rule |-> NewRule, problems |-> None, local |-> NewRule, localProblems |-> None]

Reloaded(s) == [s EXCEPT !.rule = NewRule, !.problems = None]

(***************************************************************************)
(* Setters.  A trigger or action from a list comes with empty fields.      *)
(***************************************************************************)
\* Faulty variant: localStorage is forgotten (as in SetActionDetailsInMemory).
SetSubjectInMemory(s, x) == [s EXCEPT !.rule.subject = x]
SetSubject(s, x) == [s EXCEPT !.rule.subject = x, !.local.subject = x]
SetEffect(s, e) == [s EXCEPT !.rule.effect = e, !.local.effect = e]

SetTrigger(s, t) ==
  [s EXCEPT !.rule.trigger = t, !.rule.triggerDetails = Blank, !.local.trigger = t]
SetTriggerDetails(s, d) ==
  [s EXCEPT !.rule.triggerDetails = d, !.local.triggerDetails = d]
SetAction(s, a) ==
  [s EXCEPT !.rule.action = a, !.rule.actionDetails = Blank, !.local.action = a]
SetActionDetailsInMemory(s, d) == [s EXCEPT !.rule.actionDetails = d]
SetActionDetails(s, d) ==
  [s EXCEPT !.rule.actionDetails = d, !.local.actionDetails = d]

\* setRule keeps the whole policy in memory and only its id in localStorage;
\* without a policy it overwrites the memory, then throws.
SetRule(s, r) ==
  IF r = None THEN [s EXCEPT !.rule = None]
              ELSE [s EXCEPT !.rule = r, !.local.dbId = r.dbId]

SetRuleProblems(s, p) == [s EXCEPT !.problems = p, !.localProblems = p]

\* clear() empties localStorage and the policy, not the problems in memory.
Clear(s) == [s EXCEPT !.rule = NewRule, !.local = NewRule, !.localProblems = None]

(***************************************************************************)
(* Getters, which restore.                                                 *)
(***************************************************************************)
RestoreTrigger(s) ==
  [s EXCEPT !.rule.trigger = s.local.trigger,
            !.rule.triggerDetails =
               IF s.local.trigger = None THEN None ELSE s.local.triggerDetails]

RestoreAction(s) ==
  [s EXCEPT !.rule.action = s.local.action,
            !.rule.actionDetails =
               IF s.local.action = None THEN None ELSE s.local.actionDetails]

GetTrigger(s) == IF s.rule.trigger = None THEN RestoreTrigger(s) ELSE s

GetTriggerDetails(s) ==
  IF s.rule.trigger # None /\ s.rule.triggerDetails = None THEN RestoreTrigger(s) ELSE s

GetAction(s) ==
  IF s.rule.action = None THEN RestoreAction(RestoreTrigger(s)) ELSE s

GetActionDetails(s) ==
  IF s.rule.action # None /\ s.rule.actionDetails = None
  THEN RestoreAction(RestoreTrigger(s)) ELSE s

\* The value in memory, or else the one in localStorage.
Either(x, y) == IF x = None THEN y ELSE x

\* Faulty variant: localStorage comes first.
GetStoredRule(s) == IF s.local.trigger = None THEN s ELSE RestoreTrigger(s)

\* getRule: trigger and action as a whole, the other fields one by one.
GetRule(s) ==
  LET t == IF s.rule.trigger = None \/ s.rule.triggerDetails = None
           THEN RestoreTrigger(s) ELSE s
      a == IF t.rule.action = None \/ t.rule.actionDetails = None
           THEN RestoreAction(t) ELSE t
  IN [a EXCEPT !.rule.dbId = Either(a.rule.dbId, a.local.dbId),
               !.rule.effect = Either(a.rule.effect, a.local.effect),
               !.rule.subject = Either(a.rule.subject, a.local.subject)]

GetRuleProblems(s) ==
  IF s.problems = None THEN SetRuleProblems(s, s.localProblems) ELSE s
=============================================================================
