--------------------------- MODULE PolicyComposer ---------------------------
(***************************************************************************)
(* Composing a policy in the browser: the pages from START to FINISH, the  *)
(* browser's history and reload button, and the answers of checks that the *)
(* user asked for on the list page before and that arrive on any page.     *)
(*                                                                         *)
(* Pages that only show something and lead on are merged with the next one:*)
(* "trigger" stands for composition/:type, if and if/trigger, "action" for *)
(* if/check, then and then/action.                                         *)
(***************************************************************************)
EXTENDS RuleService, Sequences, Naturals

CONSTANTS
  Table,        \* the policies in the rule table when the session starts, by id
  MaxHistory,   \* bound on the entries of the browser's history
  MaxSaved      \* bound on the policies saved

ComposerPages ==
  {"start", "trigger", "triggerDetails", "action", "actionDetails", "review",
   "list", "problems"}

VARIABLES
  svc,       \* the service shared by the pages
  history,   \* the browser's history: a sequence of pages
  pos,       \* the entry that is shown
  filled,    \* the fields of a details page have arrived
  shown,     \* the policy as the page read it when it was opened
  checks,    \* policies whose check has been asked for and not answered
  saved,     \* how many policies have been saved
  disturbed, \* history: since the service was last cleared a check's answer has
             \* taken the place of the policy in memory, or the user has turned to
             \* a page of an earlier composition
  own,       \* history: the entries made since it was cleared, none if disturbed
  overtaken  \* history: a check's answer came in since the page was opened

tableVars == <<checks, saved>>
tabVars == <<svc, history, pos, filled, shown>>
ghostVars == <<disturbed, own, overtaken>>
vars == <<tabVars, tableVars, ghostVars>>

page == history[pos]

ASSUME ComposerAssumption ==
  /\ Table \in [Id -> Rule] /\ \A i \in Id : Table[i].dbId = i
  /\ MaxHistory \in Nat \ {0} /\ MaxSaved \in Nat

TypeOK ==
  /\ svc \in Service
  /\ history \in Seq(ComposerPages) /\ pos \in DOMAIN history
  /\ filled \in BOOLEAN /\ (filled => page \in {"triggerDetails", "actionDetails"})
  /\ shown \in Rule
  /\ checks \subseteq Id /\ saved \in 0 .. MaxSaved
  /\ disturbed \in BOOLEAN /\ own \subseteq 1 .. MaxHistory /\ overtaken \in BOOLEAN

\* The user comes to the list page.
Init ==
  /\ svc = FreshService
  /\ history = <<"list">> /\ pos = 1
  /\ filled = FALSE /\ shown = NewRule
  /\ checks = {} /\ saved = 0
  /\ disturbed = FALSE /\ own = {} /\ overtaken = FALSE

(***************************************************************************)
(* Opening a page: its constructor and ngOnInit read the service.          *)
(***************************************************************************)
\* What reading does to the service.
Loaded(p, s) ==
  CASE p \in {"triggerDetails", "action"} -> GetTrigger(s)
    [] p = "actionDetails" -> GetAction(s)
    [] p = "review" ->
         LET a == GetActionDetails(GetAction(s))
         IN IF None \in {a.rule.action, a.rule.actionDetails} THEN a
            ELSE GetTriggerDetails(GetTrigger(a))
    [] p = "problems" -> GetRuleProblems(GetRule(s))
    [] OTHER -> s

\* What the page keeps for itself of a service it has loaded.
View(p, s) ==
  CASE p = "triggerDetails" -> [NewRule EXCEPT !.trigger = s.rule.trigger]
    [] p = "actionDetails" -> [NewRule EXCEPT !.action = s.rule.action]
    [] p = "review" -> [s.rule EXCEPT !.effect = Either(s.rule.effect, s.local.effect),
                                     !.subject = Either(s.rule.subject, s.local.subject),
                                     !.dbId = None]
    [] OTHER -> NewRule

\* A page whose ngOnInit threw on a missing part shows no button that works.
Works(p, v) ==
  CASE p = "triggerDetails" -> v.trigger # None
    [] p = "actionDetails" -> v.action # None
    [] p = "review" -> /\ None \notin {v.action, v.actionDetails}
                       /\ v.trigger # None => v.triggerDetails # None
    [] OTHER -> TRUE

\* Faulty variant: the fields of the page before are kept.
OpenWithFields(p, s) ==
  /\ s.rule # None \/ p \in {"start", "list"}
  /\ svc' = Loaded(p, s) /\ shown' = View(p, svc')
  /\ UNCHANGED filled /\ overtaken' = FALSE

\* Without a policy in memory only the pages that read none come up.
Open(p, s) ==
  /\ s.rule # None \/ p \in {"start", "list"}
  /\ svc' = Loaded(p, s)
  /\ shown' = View(p, Loaded(p, s))
  /\ filled' = FALSE
  /\ overtaken' = FALSE

\* router.navigate: a new entry, which cuts off those after the present one.
Visit(p, s) ==
  /\ pos < MaxHistory
  /\ history' = Append(SubSeq(history, 1, pos), p)
  /\ pos' = pos + 1
  /\ Open(p, s)

\* Navigating to the address that is shown opens nothing.
Stay(s) == svc' = s /\ UNCHANGED <<history, pos, filled, shown>>

Go(p, s) == IF p = page THEN Stay(s) /\ UNCHANGED overtaken ELSE Visit(p, s)

\* An entry made belongs to the composition.
Continues ==
  /\ own' = IF disturbed \/ pos' = pos THEN own ELSE (own \cap 1 .. pos) \cup {pos'}
  /\ UNCHANGED disturbed

Disturbs == disturbed' = TRUE /\ own' = {}

(***************************************************************************)
(* The header and the browser.                                             *)
(***************************************************************************)
NewPolicy ==
  /\ Go("start", Clear(svc))
  /\ disturbed' = FALSE /\ own' = {pos'}
  /\ UNCHANGED tableVars

MyPolicies ==
  /\ Go("list", svc)
  /\ Continues /\ UNCHANGED tableVars

\* goBack and the browser's buttons.
Turn ==
  /\ pos' \in {pos - 1, pos + 1} \cap DOMAIN history
  /\ Open(history[pos'], svc)
  /\ IF pos' \notin own /\ history[pos'] \notin {"list", "problems"}
     THEN Disturbs ELSE UNCHANGED <<disturbed, own>>
  /\ UNCHANGED <<history, tableVars>>

Reload ==
  /\ Open(page, Reloaded(svc))
  /\ UNCHANGED <<history, pos, tableVars, disturbed, own>>

(***************************************************************************)
(* The pages of the composition.  A handler that finds no policy in memory *)
(* throws at its first assignment.                                         *)
(***************************************************************************)
\* A button of page p whose handler ends on another page.
On(p) == page = p /\ svc.rule # None /\ Works(p, shown)

StartDefinition ==
  /\ On("start")
  /\ \E x \in Subject : Go("trigger", SetSubject(svc, x))
  /\ Continues /\ UNCHANGED tableVars

SelectTrigger ==
  /\ On("trigger")
  /\ \E t \in Trigger : Go("triggerDetails", SetTrigger(svc, t))
  /\ Continues /\ UNCHANGED tableVars

\* The answer with the fields; the buttons do not wait for it.
FieldsArrive ==
  /\ page \in {"triggerDetails", "actionDetails"} /\ Works(page, shown) /\ ~filled
  /\ filled' = TRUE
  /\ UNCHANGED <<svc, history, pos, shown, tableVars, ghostVars>>

CompleteTrigger ==
  /\ On("triggerDetails") /\ svc.rule.trigger # None
  /\ LET d == IF filled THEN shown.trigger ELSE Blank
     IN Go("action", SetTriggerDetails(svc, d))
  /\ Continues /\ UNCHANGED tableVars

SelectAction ==
  /\ On("action")
  /\ \E a \in Action : Go("actionDetails", SetAction(svc, a))
  /\ Continues /\ UNCHANGED tableVars

CompleteAction ==
  /\ On("actionDetails") /\ svc.rule.action # None
  /\ \E e \in Effect :
       LET d == IF filled THEN shown.action ELSE Blank
       IN Go("review", SetEffect(SetActionDetails(svc, d), e))
  /\ Continues /\ UNCHANGED tableVars

\* saveRule of the server fails on a policy without trigger, action or details.
Storable(r) ==
  None \notin {r.trigger, r.triggerDetails, r.action, r.actionDetails}

\* What FINISH sends.
Posted == [GetRule(svc).rule EXCEPT !.dbId = None]

\* The policy is saved and the answer leads to the list, or it gets lost and
\* FINISH can be clicked again.
FinishSaves ==
  /\ On("review") /\ Storable(Posted)
  /\ saved < MaxSaved /\ saved' = saved + 1
  /\ \/ Go("list", GetRule(svc))
     \/ Stay(GetRule(svc)) /\ UNCHANGED overtaken
  /\ Continues /\ UNCHANGED checks

FinishFails ==
  /\ On("review")
  /\ Stay(GetRule(svc))
  /\ UNCHANGED <<tableVars, ghostVars>>

(***************************************************************************)
(* Checks, whose answers outlive the list page.                            *)
(***************************************************************************)
Check ==
  /\ page = "list"
  /\ \E i \in Id \ checks : checks' = checks \cup {i}
  /\ UNCHANGED <<saved, tabVars, ghostVars>>

\* "No problems detected!", or an answer without the policy, which throws: the
\* server finds no policy that was deleted meanwhile, nor one of an id above 127
\* (checkRule compares the ids by reference).
CheckAnswered(i) ==
  /\ i \in checks /\ checks' = checks \ {i}
  /\ \E r \in {Table[i], None} : Stay(SetRule(svc, r))
  /\ Disturbs /\ overtaken' = TRUE
  /\ UNCHANGED saved

CheckFindsProblems(i) ==
  /\ i \in checks /\ checks' = checks \ {i}
  /\ Go("problems", SetRuleProblems(SetRule(svc, Table[i]), i))
  /\ Disturbs
  /\ UNCHANGED saved

CheckFails(i) ==
  /\ i \in checks /\ checks' = checks \ {i}
  /\ UNCHANGED <<saved, tabVars, ghostVars>>

Compose ==
  \/ StartDefinition \/ SelectTrigger \/ FieldsArrive \/ CompleteTrigger
  \/ SelectAction \/ CompleteAction \/ FinishSaves \/ FinishFails

Next ==
  \/ NewPolicy \/ MyPolicies \/ Turn \/ Reload \/ Compose \/ Check
  \/ \E i \in Id : CheckAnswered(i) \/ CheckFindsProblems(i) \/ CheckFails(i)

Spec == Init /\ [][Next]_vars

(***************************************************************************)
(* Properties.                                                             *)
(***************************************************************************)
Saved == saved' # saved

\* FINISH saves the policy the review page shows, whatever way through the
\* history and however many reloads led there, unless a check's answer has
\* come in since the page was opened: such an answer replaces the policy in
\* memory, and FINISH saves that one.
SavedAsShownUnlessOvertaken == [][Saved /\ ~overtaken => Posted = shown]_vars

\* A policy saved within one composition fits together: its details are those of
\* its trigger and action, and it has an effect and a subject, whatever mixture of
\* memory and localStorage getRule has put it together from.
SavedFits ==
  [][Saved /\ ~disturbed =>
       /\ Posted.triggerDetails \in {Posted.trigger, Blank}
       /\ Posted.actionDetails \in {Posted.action, Blank}
       /\ None \notin {Posted.effect, Posted.subject}]_vars

\* Within one composition reloading the review page does not change what FINISH
\* would save, although the memory is lost: localStorage has every part of it
\* (restore methods).
ReloadKeepsPolicy ==
  [][Reload /\ page = "review" /\ ~disturbed => Posted' = Posted]_vars
=============================================================================
