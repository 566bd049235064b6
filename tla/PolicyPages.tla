----------------------------- MODULE PolicyPages -----------------------------
(***************************************************************************)
(* My Policies: the list, the page with the problems of a policy and its   *)
(* explanation (classes of app-rule-list, app-rule-problems and            *)
(* app-problem-explanation in main.*.js), the requests they have in flight *)
(* and the rule table behind them.                                         *)
(*                                                                         *)
(* Nothing cancels a request: its answer is worked on when it arrives,     *)
(* whatever page is open by then, and answers may arrive in any order.     *)
(***************************************************************************)
EXTENDS RuleService, Sequences, Naturals

CONSTANTS
  Table,       \* the policies by id
  Draft,       \* the policy a user composes in between
  BigIds,      \* ids that checkRule, comparing by reference, does not find
  Slots,       \* bound: places for requests in flight
  MaxHistory   \* how many entries the browser's history keeps

PolicyPageNames == {"list", "problems", "explanation", "start"}

VARIABLES
  table,      \* ids of the policies in the rule table
  requests,   \* what each slot holds
  svc,        \* the service shared by the pages
  history,    \* the browser's history
  pos,        \* the entry that is shown
  listed,     \* rules of the list page
  shown,      \* rule and problems of the problems page
  apart,      \* history: policy and problems in memory may differ in policy
  mixed,      \* history: they might when the page that is shown was opened
  gone,       \* history: policies this browser knows to be deleted
  raced       \* history: it learnt so while this page's list was under way

browserVars == <<svc, history, pos, listed, shown>>
ghostVars == <<apart, mixed, gone, raced>>
vars == <<table, requests, browserVars, ghostVars>>

page == history[pos]

\* What a policy that saveRule has stored is never without.
Content(r) == <<r.trigger, r.triggerDetails, r.action, r.actionDetails>>

ASSUME PagesAssumption ==
  /\ Table \in [Id -> Rule]
  /\ \A i \in Id : /\ Table[i].dbId = i
                   /\ None \notin {Table[i].trigger, Table[i].triggerDetails,
                                  Table[i].action, Table[i].actionDetails}
  /\ Draft \in Rule /\ Draft.dbId = None
  /\ BigIds \subseteq Id
  /\ MaxHistory \in Nat \ {0}

Request ==
  [kind : {"list", "delete", "deleteShown", "check"}, id : Id \cup {None},
   status : {"sent", "ok", "failed", "problems"}, ids : SUBSET Id, alive : BOOLEAN]

\* What the problems page reads when it is opened.
Shown == [rule : Rule, problems : Id \cup {None}]
Nothing == [rule |-> NewRule, problems |-> None]

TypeOK ==
  /\ table \subseteq Id
  /\ requests \in [Slots -> Request \cup {None}]
  /\ svc \in Service
  /\ history \in Seq(PolicyPageNames) /\ pos \in DOMAIN history
  /\ listed \subseteq Id /\ (page # "list" => listed = {})
  /\ shown \in Shown
  /\ apart \in BOOLEAN /\ mixed \in BOOLEAN
  /\ gone \subseteq Id /\ raced \in BOOLEAN

(***************************************************************************)
(* Requests.                                                               *)
(***************************************************************************)
Sent(kind, i) ==
  [kind |-> kind, id |-> i, status |-> "sent", ids |-> {}, alive |-> TRUE]

\* Faulty variant: a list works on for the next list page.
KeptAlive(rs) == rs

\* Leaving a page destroys it; the requests it made go on without it.
Orphaned(rs) ==
  [q \in Slots |-> IF rs[q] = None THEN None ELSE [rs[q] EXCEPT !.alive = FALSE]]

\* A list for the page that is shown is under way.
ListAsked == \E q \in Slots : /\ requests[q] # None
                              /\ requests[q].kind = "list" /\ requests[q].alive

Init ==
  /\ table = Id
  /\ \E q \in Slots :
       requests = [p \in Slots |-> IF p = q THEN Sent("list", None) ELSE None]
  /\ svc = FreshService
  /\ history = <<"list">> /\ pos = 1
  /\ listed = {} /\ shown = Nothing
  /\ apart = FALSE /\ mixed = FALSE /\ gone = {} /\ raced = FALSE

(***************************************************************************)
(* The server works on one request at a time.                              *)
(***************************************************************************)
Serve(q) ==
  /\ requests[q] # None /\ requests[q].status = "sent"
  /\ LET r == requests[q]
         i == r.id
         Reply(st, ids) == requests' = [requests EXCEPT ![q].status = st, ![q].ids = ids]
     IN \/ r.kind = "list" /\ Reply("ok", table) /\ UNCHANGED table
        \/ /\ r.kind \in {"delete", "deleteShown"} /\ i \in table
           /\ Reply("ok", {}) /\ table' = table \ {i}
        \/ /\ r.kind \in {"delete", "deleteShown"} /\ i \notin table
           /\ Reply("failed", {}) /\ UNCHANGED table
        \/ /\ r.kind = "check"
           /\ \E st \in {"ok", "problems"} : Reply(st, ({i} \cap table) \ BigIds)
           /\ UNCHANGED table
        \/ Reply("failed", {}) /\ UNCHANGED table
  /\ UNCHANGED <<browserVars, ghostVars>>

\* The same account in another browser.
DeletedElsewhere ==
  /\ \E i \in table : table' = table \ {i}
  /\ UNCHANGED <<requests, browserVars, ghostVars>>

(***************************************************************************)
(* Opening a page.  rs are the requests without those of the page before;  *)
(* the list page asks for the policies.  What problemService hands to the  *)
(* explanation is left out: nothing here reads it.                         *)
(***************************************************************************)
Loaded(p, s) == IF p = "problems" THEN GetRuleProblems(GetRule(s)) ELSE s

Asking(rs, rs2, kind, i) ==
  \E q \in Slots : rs[q] = None /\ rs2 = [rs EXCEPT ![q] = Sent(kind, i)]

\* Only the list and the start page come up without a policy in memory.
Open(p, s, rs) ==
  /\ s.rule # None \/ p # "problems"
  /\ svc' = Loaded(p, s)
  /\ shown' = IF p = "problems" THEN [rule |-> svc'.rule, problems |-> svc'.problems]
                                ELSE Nothing
  /\ listed' = {}
  /\ mixed' = apart' /\ raced' = FALSE
  /\ IF p = "list" THEN Asking(Orphaned(rs), requests', "list", None)
                   ELSE requests' = Orphaned(rs)

\* A new entry cuts off those after the present one; a full history loses its
\* oldest entry.
Visit(p, s, rs) ==
  /\ history' = Append(SubSeq(history, IF pos = MaxHistory THEN 2 ELSE 1, pos), p)
  /\ pos' = Len(history')
  /\ Open(p, s, rs)

\* Navigating to the address that is shown opens nothing.
Stay(s, rs) ==
  /\ svc' = s /\ requests' = rs
  /\ UNCHANGED <<history, pos, listed, shown, mixed>>

Go(p, s, rs) == IF p = page THEN Stay(s, rs) /\ UNCHANGED raced ELSE Visit(p, s, rs)

(***************************************************************************)
(* The user.                                                               *)
(***************************************************************************)
NewPolicy ==
  /\ apart' = TRUE
  /\ Go("start", Clear(svc), requests)
  /\ UNCHANGED <<table, gone>>

\* The composing pages (module PolicyComposer) in one step.
Compose ==
  /\ page = "start" /\ svc.rule # None
  /\ LET begun == SetTriggerDetails(SetTrigger(SetSubject(svc, Draft.subject), Draft.trigger),
                                    Draft.triggerDetails)
     IN Stay(SetEffect(SetActionDetails(SetAction(begun, Draft.action), Draft.actionDetails),
                       Draft.effect), requests)
  /\ apart' = TRUE
  /\ UNCHANGED <<table, gone, raced>>

MyPolicies ==
  /\ UNCHANGED <<table, apart, gone>>
  /\ Go("list", svc, requests)

Turn ==
  /\ pos' \in {pos - 1, pos + 1} \cap DOMAIN history
  /\ UNCHANGED <<history, table, apart, gone>>
  /\ Open(history[pos'], svc, requests)

\* A reload drops the answers to come.  A deletion that was sent is still carried
\* out, which DeletedElsewhere stands for from then on.
Reload ==
  /\ apart' = TRUE
  /\ Open(page, Reloaded(svc), [q \in Slots |-> None])
  /\ UNCHANGED <<history, pos, table, gone>>

Ask(kind, i) ==
  /\ Asking(requests, requests', kind, i)
  /\ UNCHANGED <<table, browserVars, ghostVars>>

DeleteRule == page = "list" /\ \E i \in listed : Ask("delete", i)
CheckRule == page = "list" /\ \E i \in listed : Ask("check", i)

\* The boxes of the problems page, with their buttons, are drawn for problems
\* and a policy that has a trigger and an action.
BoxesDrawn ==
  page = "problems" /\ shown.problems # None
    /\ None \notin {shown.rule.trigger, shown.rule.action}

DeleteShown == BoxesDrawn /\ Ask("deleteShown", shown.problems)

OpenExplanation ==
  /\ BoxesDrawn
  /\ UNCHANGED <<table, apart, gone>>
  /\ Visit("explanation", svc, requests)

\* Its buttons lead back, and so does a reload, which leaves nothing to explain.
LeaveExplanation ==
  /\ page = "explanation"
  /\ UNCHANGED <<table, apart, gone>>
  /\ Go("problems", svc, requests)

(***************************************************************************)
(* Answers.                                                                *)
(***************************************************************************)
Freed(q) == [requests EXCEPT ![q] = None]

\* Faulty variant: a list is taken by whatever page is open.
TakeList(q) ==
  /\ requests[q].kind = "list" /\ requests[q].status = "ok"
  /\ requests' = Freed(q) /\ listed' = requests[q].ids
  /\ UNCHANGED <<svc, history, pos, shown, ghostVars>>

\* The callbacks of a list change a page only if it is still there.
ReceiveList(q) ==
  /\ requests[q].kind = "list" /\ requests[q].status = "ok"
  /\ requests' = Freed(q)
  /\ listed' = IF requests[q].alive THEN requests[q].ids ELSE listed
  /\ UNCHANGED <<svc, history, pos, shown, ghostVars>>

\* After a deletion the list is shown; if it is shown already it stays as it is.
ListAfterDelete(q, rs) ==
  /\ gone' = gone \cup {requests[q].id}
  /\ UNCHANGED <<apart>>
  /\ IF page = "list" THEN Stay(svc, rs) /\ raced' = (raced \/ ListAsked)
                      ELSE Visit("list", svc, rs)

\* deleteRule of the list first asks for the list again.
ReceiveDelete(q) ==
  /\ requests[q].kind = "delete" /\ requests[q].status = "ok"
  /\ ListAfterDelete(q, [requests EXCEPT ![q] = [Sent("list", None) EXCEPT !.alive = requests[q].alive]])

ReceiveDeleteShown(q) ==
  /\ requests[q].kind = "deleteShown" /\ requests[q].status = "ok"
  /\ ListAfterDelete(q, Freed(q))

\* The answer's rule becomes the policy in memory; without one setRule throws.
\* Problems are kept and shown, "No problems detected!" keeps those before.
ReceiveCheck(q) ==
  /\ requests[q].kind = "check" /\ requests[q].status \in {"ok", "problems"}
  /\ UNCHANGED <<gone>>
  /\ LET i == requests[q].id
         s == SetRule(svc, Table[i])
     IN \/ /\ requests[q].ids = {}
           /\ apart' = TRUE
           /\ Stay(SetRule(svc, None), Freed(q)) /\ UNCHANGED raced
        \/ /\ requests[q].ids # {} /\ requests[q].status = "ok"
           /\ apart' = TRUE
           /\ Stay(s, Freed(q)) /\ UNCHANGED raced
        \/ /\ requests[q].ids # {} /\ requests[q].status = "problems"
           /\ apart' = FALSE
           /\ Go("problems", SetRuleProblems(s, i), Freed(q))

\* "OPS, something goes wrong!"
ReceiveError(q) ==
  /\ requests[q].status = "failed"
  /\ requests' = Freed(q)
  /\ UNCHANGED <<browserVars, ghostVars>>

Receive(q) ==
  /\ requests[q] # None
  /\ \/ ReceiveList(q) \/ ReceiveDelete(q) \/ ReceiveDeleteShown(q)
     \/ ReceiveCheck(q) \/ ReceiveError(q)
  /\ UNCHANGED table

User ==
  \/ NewPolicy \/ Compose \/ MyPolicies \/ Turn \/ Reload
  \/ DeleteRule \/ CheckRule \/ DeleteShown \/ OpenExplanation \/ LeaveExplanation

Next ==
  \/ User \/ DeletedElsewhere
  \/ \E q \in Slots : Serve(q) \/ Receive(q)

Spec == Init /\ [][Next]_vars

(***************************************************************************)
(* Properties.                                                             *)
(***************************************************************************)
\* The policy and the problems of the problems page belong together.
OfOnePolicy(v) == v.problems # None => Content(v.rule) = Content(Table[v.problems])

\* The problems page shows the problems of the policy it shows, so that "Delete
\* Rule", which takes the id from the problems, deletes that policy, if the
\* last answer of a check brought them both to memory and neither a reload nor a
\* composition came between.  The pages' history, late answers and localStorage
\* put no older problems or policy in their place.
ProblemsOfShownRule == page = "problems" /\ ~mixed => OfOnePolicy(shown)

\* A list that arrives does not bring back a policy of which this browser was
\* told that it is deleted, unless it was told while the list was under way.
DeletedStaysOut == [][listed' # listed => listed' \cap gone = {} \/ raced]_vars

\* "The selected policy might generate some problems ... Are you sure you want
\* to keep it?" asks the problems page (main.*.js), and "Delete Rule" should
\* delete the policy it shows.  After a reload, or after "No problems detected!"
\* for another policy, it deletes the policy whose problems are kept.
DeletesShownRule == [][DeleteShown => OfOnePolicy(shown)]_vars
=============================================================================
