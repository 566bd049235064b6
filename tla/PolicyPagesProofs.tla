-------------------------- MODULE PolicyPagesProofs --------------------------
(***************************************************************************)
(* Theorems about PolicyPages, for any policies, any number of requests in *)
(* flight and any length of the history: types, that the problems page     *)
(* shows a policy with its own problems, and that a deleted policy stays   *)
(* out of the list.                                                        *)
(***************************************************************************)
EXTENDS PolicyPages, TLAPS

(***************************************************************************)
(* The service.                                                            *)
(***************************************************************************)
LEMMA ServiceFields ==
  ASSUME NEW s \in Service
  PROVE  /\ s.problems \in Id \cup {None} /\ s.localProblems \in Id \cup {None}
         /\ s.local \in Rule /\ s.rule \in Rule \cup {None}
  BY DEF Service

LEMMA SettersTyped ==
  ASSUME NEW s \in Service
  PROVE  /\ Clear(s) \in Service /\ Clear(s).rule \in Rule
         /\ Reloaded(s) \in Service /\ Reloaded(s).rule \in Rule
         /\ \A p \in Id \cup {None} : SetRuleProblems(s, p) \in Service
         /\ \A r \in Rule \cup {None} : SetRule(s, r) \in Service
<1>1. NewRule \in Rule
  BY DEF NewRule, Rule
<1>2. Clear(s) \in Service /\ Clear(s).rule \in Rule
  BY <1>1 DEF Clear, Service
<1>3. Reloaded(s) \in Service /\ Reloaded(s).rule \in Rule
  BY <1>1 DEF Reloaded, Service
<1>4. \A p \in Id \cup {None} : SetRuleProblems(s, p) \in Service
  BY DEF SetRuleProblems, Service
<1>5. ASSUME NEW r \in Rule \cup {None} PROVE SetRule(s, r) \in Service
  <2>1. CASE r = None
    BY <2>1 DEF SetRule, Service
  <2>2. CASE r # None
    <3>1. r \in Rule /\ r.dbId \in Id \cup {None}
      BY <2>2 DEF Rule
    <3>2. [s.local EXCEPT !.dbId = r.dbId] \in Rule
      BY <3>1, ServiceFields DEF Rule
    <3>q. QED BY <2>2, <3>1, <3>2 DEF SetRule, Service
  <2>q. QED BY <2>1, <2>2
<1>q. QED BY <1>2, <1>3, <1>4, <1>5

\* A change of the policy in memory alone.
LEMMA RuleChanged ==
  ASSUME NEW s \in Service, NEW r \in Rule
  PROVE  /\ [s EXCEPT !.rule = r] \in Service
         /\ [s EXCEPT !.rule = r].rule = r
         /\ [s EXCEPT !.rule = r].problems = s.problems
         /\ [s EXCEPT !.rule = r].localProblems = s.localProblems
         /\ [s EXCEPT !.rule = r].local = s.local
  BY DEF Service

LEMMA RestoreTyped ==
  ASSUME NEW s \in Service, s.rule \in Rule
  PROVE  /\ \E r \in Rule : RestoreTrigger(s) = [s EXCEPT !.rule = r]
         /\ \E r \in Rule : RestoreAction(s) = [s EXCEPT !.rule = r]
<1>1. s.local.trigger \in Trigger \cup {None}
      /\ s.local.triggerDetails \in Trigger \cup {Blank, None}
      /\ s.local.action \in Action \cup {None}
      /\ s.local.actionDetails \in Action \cup {Blank, None}
  BY ServiceFields DEF Rule
<1> DEFINE td == IF s.local.trigger = None THEN None ELSE s.local.triggerDetails
<1> DEFINE ad == IF s.local.action = None THEN None ELSE s.local.actionDetails
<1> DEFINE rt == [s.rule EXCEPT !.trigger = s.local.trigger, !.triggerDetails = td]
<1> DEFINE ra == [s.rule EXCEPT !.action = s.local.action, !.actionDetails = ad]
<1>2. rt \in Rule /\ ra \in Rule
  <2>1. td \in Trigger \cup {Blank, None} /\ ad \in Action \cup {Blank, None}
    BY <1>1
  <2> HIDE DEF td, ad
  <2>2. rt \in Rule
    BY <1>1, <2>1 DEF Rule
  <2>3. ra \in Rule
    BY <1>1, <2>1 DEF Rule
  <2>q. QED BY <2>2, <2>3
<1>3. RestoreTrigger(s) = [s EXCEPT !.rule = rt]
  BY DEF RestoreTrigger, Service, Rule
<1>4. RestoreAction(s) = [s EXCEPT !.rule = ra]
  BY DEF RestoreAction, Service, Rule
<1>q. QED BY <1>2, <1>3, <1>4

\* getRule changes the policy in memory only, and not what it has of a trigger
\* and an action if they are complete.
LEMMA GetRuleTyped ==
  ASSUME NEW s \in Service, s.rule \in Rule
  PROVE  \E r \in Rule :
           /\ GetRule(s) = [s EXCEPT !.rule = r]
           /\ (/\ s.rule.trigger # None /\ s.rule.triggerDetails # None
               /\ s.rule.action # None /\ s.rule.actionDetails # None)
                => Content(r) = Content(s.rule)
<1> DEFINE Whole == /\ s.rule.trigger # None /\ s.rule.triggerDetails # None
                    /\ s.rule.action # None /\ s.rule.actionDetails # None
<1> DEFINE t == IF s.rule.trigger = None \/ s.rule.triggerDetails = None
                THEN RestoreTrigger(s) ELSE s
<1> DEFINE a == IF t.rule.action = None \/ t.rule.actionDetails = None
                THEN RestoreAction(t) ELSE t
<1> DEFINE e == [a.rule EXCEPT !.dbId = Either(a.rule.dbId, a.local.dbId),
                               !.effect = Either(a.rule.effect, a.local.effect),
                               !.subject = Either(a.rule.subject, a.local.subject)]
<1>1. /\ \E r \in Rule : t = [s EXCEPT !.rule = r]
      /\ Whole => t = s
  <2>1. s = [s EXCEPT !.rule = s.rule]
    BY DEF Service
  <2>q. QED BY <2>1, RestoreTyped
<1>2. t \in Service /\ t.rule \in Rule /\ t.local = s.local
  BY <1>1, RuleChanged
<1>3. /\ \E r \in Rule : a = [t EXCEPT !.rule = r]
      /\ Whole => a = s
  <2>1. t = [t EXCEPT !.rule = t.rule]
    BY <1>2 DEF Service
  <2> HIDE DEF t
  <2>2. \E r \in Rule : a = [t EXCEPT !.rule = r]
    BY <1>2, <2>1, RestoreTyped
  <2>3. Whole => a = t
    BY <1>1
  <2>q. QED BY <1>1, <2>2, <2>3
<1>4. \E r \in Rule : a = [s EXCEPT !.rule = r]
  <2>1. PICK r1 \in Rule : t = [s EXCEPT !.rule = r1]
    BY <1>1
  <2>2. PICK r2 \in Rule : a = [t EXCEPT !.rule = r2]
    BY <1>3
  <2> HIDE DEF t, a
  <2>3. a = [s EXCEPT !.rule = r2]
    BY <2>1, <2>2 DEF Service
  <2>q. QED BY <2>3
<1>5. a \in Service /\ a.rule \in Rule /\ a.local \in Rule
  <2> HIDE DEF a
  <2>q. QED BY <1>4, RuleChanged, ServiceFields
<1>6. e \in Rule
  <2> DEFINE i == Either(a.rule.dbId, a.local.dbId)
             f == Either(a.rule.effect, a.local.effect)
             b == Either(a.rule.subject, a.local.subject)
  <2> HIDE DEF a
  <2>1. i \in Id \cup {None} /\ f \in Effect \cup {None} /\ b \in Subject \cup {None}
    BY <1>5 DEF Rule, Either
  <2> HIDE DEF i, f, b
  <2>2. [a.rule EXCEPT !.dbId = i, !.effect = f, !.subject = b] \in Rule
    BY <1>5, <2>1 DEF Rule
  <2>q. QED BY <2>2 DEF i, f, b
<1>7. GetRule(s) = [a EXCEPT !.rule = e]
  <2>1. GetRule(s) = [a EXCEPT !.rule.dbId = Either(a.rule.dbId, a.local.dbId),
                               !.rule.effect = Either(a.rule.effect, a.local.effect),
                               !.rule.subject = Either(a.rule.subject, a.local.subject)]
    BY DEF GetRule
  <2> HIDE DEF a
  <2>q. QED BY <1>5, <2>1 DEF Service, Rule
<1>8. GetRule(s) = [s EXCEPT !.rule = e]
  <2> HIDE DEF a, e
  <2>q. QED BY <1>4, <1>7 DEF Service
<1>9. Whole => Content(e) = Content(s.rule)
  <2> SUFFICES ASSUME Whole PROVE Content(e) = Content(s.rule)
    OBVIOUS
  <2>1. a = s
    BY <1>3
  <2> HIDE DEF a
  <2>2. /\ e.trigger = s.rule.trigger /\ e.triggerDetails = s.rule.triggerDetails
        /\ e.action = s.rule.action /\ e.actionDetails = s.rule.actionDetails
    BY <2>1 DEF Rule
  <2>q. QED BY <2>2 DEF Content
<1> HIDE DEF e
<1>q. QED BY <1>6, <1>8, <1>9

LEMMA LoadedTyped ==
  ASSUME NEW s \in Service, NEW p \in PolicyPageNames, p = "problems" => s.rule \in Rule
  PROVE  /\ Loaded(p, s) \in Service
         /\ p = "problems" => Loaded(p, s).rule \in Rule
<1>1. CASE p # "problems"
  BY <1>1 DEF Loaded
<1>2. CASE p = "problems"
  <2>1. PICK r \in Rule : GetRule(s) = [s EXCEPT !.rule = r]
    BY <1>2, GetRuleTyped
  <2> DEFINE g == GetRule(s)
  <2>2. g \in Service /\ g.rule \in Rule
    BY <2>1, RuleChanged
  <2> HIDE DEF g
  <2>3. GetRuleProblems(g) \in Service /\ GetRuleProblems(g).rule = g.rule
    BY <2>2, ServiceFields, SettersTyped DEF GetRuleProblems, SetRuleProblems, Service
  <2>q. QED BY <1>2, <2>2, <2>3 DEF Loaded, g
<1>q. QED BY <1>1, <1>2

(***************************************************************************)
(* The problems in memory are those of the policy in memory, unless there  *)
(* are none, neither here nor in localStorage.                             *)
(***************************************************************************)
Fits(s) ==
  /\ s.problems = None => s.localProblems = None
  /\ s.problems # None => Content(s.rule) = Content(Table[s.problems])

LEMMA LoadedFits ==
  ASSUME NEW s \in Service, s.rule \in Rule, Fits(s)
  PROVE  Fits(GetRuleProblems(GetRule(s)))
<1>1. PICK r \in Rule :
        /\ GetRule(s) = [s EXCEPT !.rule = r]
        /\ (/\ s.rule.trigger # None /\ s.rule.triggerDetails # None
            /\ s.rule.action # None /\ s.rule.actionDetails # None)
             => Content(r) = Content(s.rule)
  BY GetRuleTyped
<1> DEFINE g == GetRule(s)
<1>2. /\ g \in Service /\ g.rule = r
      /\ g.problems = s.problems /\ g.localProblems = s.localProblems
  BY <1>1, RuleChanged
<1>3. CASE s.problems = None
  <2> HIDE DEF g
  <2>1. GetRuleProblems(g).problems = None /\ GetRuleProblems(g).localProblems = None
    BY <1>2, <1>3 DEF Fits, GetRuleProblems, SetRuleProblems, Service
  <2>q. QED BY <2>1 DEF Fits, g
<1>4. CASE s.problems # None
  <2>1. s.problems \in Id
    BY <1>4, ServiceFields
  <2> DEFINE w == Table[s.problems]
  <2>2. Content(s.rule) = Content(w)
    BY <1>4 DEF Fits
  <2>3. None \notin {w.trigger, w.triggerDetails, w.action, w.actionDetails}
    BY <2>1, PagesAssumption
  <2>4. /\ s.rule.trigger # None /\ s.rule.triggerDetails # None
        /\ s.rule.action # None /\ s.rule.actionDetails # None
    BY <2>2, <2>3 DEF Content
  <2>5. Content(g.rule) = Content(w)
    BY <1>1, <1>2, <2>2, <2>4
  <2> HIDE DEF g
  <2>6. GetRuleProblems(g) = g
    BY <1>2, <1>4 DEF GetRuleProblems
  <2>q. QED BY <1>2, <1>4, <2>5, <2>6 DEF Fits, g
<1>q. QED BY <1>3, <1>4

(***************************************************************************)
(* What opening a page does.                                               *)
(***************************************************************************)
\* A request whose page is gone.
Orphan(r) == [r EXCEPT !.alive = FALSE]

LEMMA OrphanTyped ==
  ASSUME NEW r \in Request
  PROVE  /\ Orphan(r) \in Request /\ ~Orphan(r).alive
         /\ Orphan(r).kind = r.kind /\ Orphan(r).id = r.id /\ Orphan(r).status = r.status
  BY DEF Orphan, Request

LEMMA OrphanedRequests ==
  ASSUME NEW rs \in [Slots -> Request \cup {None}]
  PROVE  /\ Orphaned(rs) \in [Slots -> Request \cup {None}]
         /\ \A q \in Slots : \/ Orphaned(rs)[q] = None
                             \/ rs[q] # None /\ Orphaned(rs)[q] = Orphan(rs[q])
<1>1. Orphaned(rs) = [q \in Slots |-> IF rs[q] = None THEN None ELSE Orphan(rs[q])]
  BY DEF Orphaned, Orphan
<1>2. \A q \in Slots : (IF rs[q] = None THEN None ELSE Orphan(rs[q])) \in Request \cup {None}
  BY OrphanTyped
<1>q. QED BY <1>1, <1>2

\* The requests that are left are those of the page before, orphaned, and the
\* list page's own.
LEMMA OpenRequests ==
  ASSUME NEW p, NEW s, NEW rs \in [Slots -> Request \cup {None}], Open(p, s, rs)
  PROVE  /\ requests' \in [Slots -> Request \cup {None}]
         /\ \A q \in Slots :
              \/ requests'[q] = None
              \/ p = "list" /\ requests'[q] = Sent("list", None)
              \/ rs[q] # None /\ requests'[q] = Orphan(rs[q])
<1>2. Sent("list", None) \in Request
  BY DEF Sent, Request
<1> DEFINE os == Orphaned(rs)
<1>3. /\ os \in [Slots -> Request \cup {None}]
      /\ \A q \in Slots : \/ os[q] = None
                          \/ rs[q] # None /\ os[q] = Orphan(rs[q])
  BY OrphanedRequests
<1>4. CASE p = "list"
  <2>1. \E q \in Slots : requests' = [os EXCEPT ![q] = Sent("list", None)]
    BY <1>4 DEF Open, Asking
  <2> HIDE DEF os
  <2>q. QED BY <1>2, <1>3, <1>4, <2>1
<1>5. CASE p # "list"
  <2>1. requests' = os
    BY <1>5 DEF Open
  <2> HIDE DEF os
  <2>q. QED BY <1>3, <2>1
<1>q. QED BY <1>4, <1>5

LEMMA OpenTypes ==
  ASSUME NEW p \in PolicyPageNames, NEW s \in Service, NEW rs, Open(p, s, rs),
         apart' \in BOOLEAN
  PROVE  /\ svc' \in Service /\ shown' \in Shown /\ listed' = {}
         /\ mixed' \in BOOLEAN /\ raced' = FALSE
<1>1. /\ svc' = Loaded(p, s) /\ listed' = {} /\ mixed' = apart' /\ raced' = FALSE
      /\ shown' = IF p = "problems" THEN [rule |-> svc'.rule, problems |-> svc'.problems]
                                    ELSE Nothing
      /\ s.rule # None \/ p # "problems"
  BY DEF Open
<1>2. p = "problems" => s.rule \in Rule
  BY <1>1, ServiceFields
<1>3. svc' \in Service /\ (p = "problems" => svc'.rule \in Rule)
  BY <1>1, <1>2, LoadedTyped
<1>4. svc'.problems \in Id \cup {None}
  BY <1>3, ServiceFields
<1>5. Nothing \in Shown
  BY DEF Nothing, Shown, NewRule, Rule
<1>q. QED BY <1>1, <1>3, <1>4, <1>5 DEF Shown

LEMMA VisitHistory ==
  ASSUME TypeOK, NEW p \in PolicyPageNames, NEW s, NEW rs, Visit(p, s, rs)
  PROVE  /\ history' \in Seq(PolicyPageNames) /\ pos' \in DOMAIN history'
         /\ page' = p /\ Open(p, s, rs)
<1> DEFINE m == IF pos = MaxHistory THEN 2 ELSE 1
<1>1. /\ history' = Append(SubSeq(history, m, pos), p) /\ pos' = Len(history')
      /\ Open(p, s, rs)
  BY DEF Visit
<1>2. /\ history \in Seq(PolicyPageNames) /\ pos \in 1 .. Len(history)
      /\ m \in Nat /\ 1 <= m
  BY DEF TypeOK
<1> HIDE DEF m
<1> DEFINE kept == SubSeq(history, m, pos)
<1>3. kept \in Seq(PolicyPageNames)
  BY <1>2
<1> HIDE DEF kept
<1>4. /\ Append(kept, p) \in Seq(PolicyPageNames) /\ Len(Append(kept, p)) = Len(kept) + 1
      /\ Append(kept, p)[Len(kept) + 1] = p /\ Len(kept) \in Nat
  BY <1>3
<1>5. history' = Append(kept, p)
  BY <1>1 DEF kept
<1>6. pos' = Len(kept) + 1
  BY <1>1, <1>4, <1>5
<1>7. page' = p
  BY <1>4, <1>5, <1>6 DEF page
<1>q. QED BY <1>1, <1>4, <1>5, <1>6, <1>7

(***************************************************************************)
(* Types.  Requests for a policy have one, and a list or a deletion still  *)
(* belongs to its page only while that is the list page.                   *)
(***************************************************************************)
Fitting(rs, p) ==
  \A q \in Slots : rs[q] # None =>
    /\ rs[q].kind # "list" => rs[q].id \in Id
    /\ rs[q].kind \in {"list", "delete"} /\ rs[q].alive => p = "list"

Typed == TypeOK /\ Fitting(requests, page)

LEMMA PageTyped == ASSUME TypeOK PROVE page \in PolicyPageNames
  BY DEF TypeOK, page

LEMMA OpenKeepsTypes ==
  ASSUME NEW p \in PolicyPageNames, NEW s \in Service,
         NEW rs \in [Slots -> Request \cup {None}], NEW v, Fitting(rs, v),
         Open(p, s, rs), page' = p,
         history' \in Seq(PolicyPageNames), pos' \in DOMAIN history',
         apart' \in BOOLEAN, table' \subseteq Id, gone' \subseteq Id
  PROVE  Typed'
<1>1. /\ svc' \in Service /\ shown' \in Shown /\ listed' = {}
      /\ mixed' \in BOOLEAN /\ raced' = FALSE
  BY OpenTypes
<1>2. /\ requests' \in [Slots -> Request \cup {None}]
      /\ \A q \in Slots :
           \/ requests'[q] = None
           \/ p = "list" /\ requests'[q] = Sent("list", None)
           \/ rs[q] # None /\ requests'[q] = Orphan(rs[q])
  BY OpenRequests
<1>3. ASSUME NEW q \in Slots, requests'[q] # None
      PROVE  /\ requests'[q].kind # "list" => requests'[q].id \in Id
             /\ requests'[q].kind \in {"list", "delete"} /\ requests'[q].alive => page' = "list"
  <2>1. CASE p = "list" /\ requests'[q] = Sent("list", None)
    BY <2>1 DEF Sent
  <2>2. CASE rs[q] # None /\ requests'[q] = Orphan(rs[q])
    <3>1. rs[q] \in Request
      BY <2>2
    <3>2. requests'[q].kind = rs[q].kind /\ requests'[q].id = rs[q].id /\ ~requests'[q].alive
      BY <2>2, <3>1, OrphanTyped
    <3>q. QED BY <2>2, <3>2 DEF Fitting
  <2>q. QED BY <1>2, <1>3, <2>1, <2>2
<1>4. Fitting(requests, page)'
  BY <1>3 DEF Fitting
<1>5. TypeOK'
  BY <1>1, <1>2 DEF TypeOK
<1>q. QED BY <1>4, <1>5 DEF Typed

LEMMA StayKeepsTypes ==
  ASSUME Typed, NEW s \in Service, NEW rs \in [Slots -> Request \cup {None}],
         Fitting(rs, page), Stay(s, rs), raced' \in BOOLEAN,
         apart' \in BOOLEAN, table' \subseteq Id, gone' \subseteq Id
  PROVE  Typed'
<1>1. /\ svc' = s /\ requests' = rs
      /\ UNCHANGED <<history, pos, listed, shown, mixed>>
  BY DEF Stay
<1>2. TypeOK'
  BY <1>1 DEF Typed, TypeOK, page
<1>3. Fitting(requests, page)'
  BY <1>1 DEF Fitting, page
<1>q. QED BY <1>2, <1>3 DEF Typed

LEMMA GoKeepsTypes ==
  ASSUME Typed, NEW p \in PolicyPageNames, NEW s \in Service,
         NEW rs \in [Slots -> Request \cup {None}], Fitting(rs, page), Go(p, s, rs),
         apart' \in BOOLEAN, table' \subseteq Id, gone' \subseteq Id
  PROVE  Typed'
<1>1. CASE p = page
  <2>1. Stay(s, rs) /\ raced' = raced
    BY <1>1 DEF Go
  <2>2. raced' \in BOOLEAN
    BY <2>1 DEF Typed, TypeOK
  <2>q. QED BY <2>1, <2>2, StayKeepsTypes
<1>2. CASE p # page
  <2>1. Visit(p, s, rs)
    BY <1>2 DEF Go
  <2>2. /\ history' \in Seq(PolicyPageNames) /\ pos' \in DOMAIN history'
        /\ page' = p /\ Open(p, s, rs)
    BY <2>1, VisitHistory DEF Typed
  <2>3. PICK v : v = page
    OBVIOUS
  <2>4. Fitting(rs, v)
    BY <2>3
  <2>q. QED BY <2>2, <2>4, OpenKeepsTypes
<1>q. QED BY <1>1, <1>2

LEMMA InitTyped == Init => Typed
<1> SUFFICES ASSUME Init PROVE Typed
  OBVIOUS
<1>1. Sent("list", None) \in Request /\ Sent("list", None).kind = "list"
  BY DEF Sent, Request
<1>2. /\ requests \in [Slots -> Request \cup {None}]
      /\ \A q \in Slots : requests[q] \in {None, Sent("list", None)}
  BY <1>1 DEF Init
<1>3. NewRule \in Rule
  BY DEF NewRule, Rule
<1>4. svc \in Service /\ shown \in Shown
  BY <1>3 DEF Init, FreshService, Service, Nothing, Shown
<1>5. history \in Seq(PolicyPageNames) /\ pos \in DOMAIN history /\ page = "list"
  BY DEF Init, page, PolicyPageNames
<1>6. TypeOK
  BY <1>2, <1>4, <1>5 DEF Init, TypeOK
<1>7. Fitting(requests, page)
  BY <1>1, <1>2, <1>5 DEF Fitting
<1>q. QED BY <1>6, <1>7 DEF Typed

\* Every step keeps types.
LEMMA ServeTypes ==
  ASSUME Typed, NEW q \in Slots, Serve(q)
  PROVE  Typed'
<1>1. requests[q] \in Request
  BY DEF Serve, Typed, TypeOK
<1>2. table' \subseteq Id /\ UNCHANGED <<browserVars, ghostVars>>
  BY DEF Serve, Typed, TypeOK
<1>3. PICK st \in {"ok", "failed", "problems"}, ids \in SUBSET Id :
        requests' = [requests EXCEPT ![q].status = st, ![q].ids = ids]
  BY <1>1 DEF Serve, Typed, TypeOK
<1> DEFINE r == [requests[q] EXCEPT !.status = st, !.ids = ids]
<1>4. /\ r \in Request
      /\ r.kind = requests[q].kind /\ r.id = requests[q].id /\ r.alive = requests[q].alive
  BY <1>1 DEF Request
<1>5. requests' = [requests EXCEPT ![q] = r]
  BY <1>3 DEF Typed, TypeOK
<1> HIDE DEF r
<1>6. requests' \in [Slots -> Request \cup {None}]
  BY <1>4, <1>5 DEF Typed, TypeOK
<1>7. page' = page
  BY <1>2 DEF page, browserVars
<1>8. Fitting(requests, page)'
  BY <1>4, <1>5, <1>7 DEF Typed, TypeOK, Fitting, Serve
<1>9. TypeOK'
  BY <1>2, <1>6 DEF Typed, TypeOK, browserVars, ghostVars, page
<1>q. QED BY <1>8, <1>9 DEF Typed

LEMMA AskTypes ==
  ASSUME Typed, NEW kind \in {"delete", "deleteShown", "check"}, NEW i \in Id,
         kind = "delete" => page = "list", Ask(kind, i)
  PROVE  Typed'
<1>1. UNCHANGED <<table, browserVars, ghostVars>>
  BY DEF Ask
<1>2. PICK q \in Slots : requests' = [requests EXCEPT ![q] = Sent(kind, i)]
  BY DEF Ask, Asking
<1>3. /\ Sent(kind, i) \in Request
      /\ Sent(kind, i).kind = kind /\ Sent(kind, i).id = i
  BY DEF Sent, Request
<1>4. requests' \in [Slots -> Request \cup {None}]
  BY <1>2, <1>3 DEF Typed, TypeOK
<1>5. page' = page
  BY <1>1 DEF page, browserVars
<1>6. Fitting(requests, page)'
  BY <1>2, <1>3, <1>5 DEF Typed, TypeOK, Fitting
<1>7. TypeOK'
  BY <1>1, <1>4 DEF Typed, TypeOK, browserVars, ghostVars, page
<1>q. QED BY <1>6, <1>7 DEF Typed

LEMMA FreedTyped ==
  ASSUME Typed, NEW q \in Slots
  PROVE  Freed(q) \in [Slots -> Request \cup {None}] /\ Fitting(Freed(q), page)
  BY DEF Typed, TypeOK, Freed, Fitting

LEMMA BothChanged ==
  ASSUME NEW s \in Service, NEW r \in Rule, NEW l \in Rule
  PROVE  /\ [s EXCEPT !.rule = r, !.local = l] \in Service
         /\ [s EXCEPT !.rule = r, !.local = l].rule = r
  BY DEF Service

LEMMA ComposedTyped ==
  ASSUME NEW s \in Service, s.rule \in Rule
  PROVE  LET begun == SetTriggerDetails(SetTrigger(SetSubject(s, Draft.subject), Draft.trigger),
                                        Draft.triggerDetails)
         IN SetEffect(SetActionDetails(SetAction(begun, Draft.action), Draft.actionDetails),
                      Draft.effect) \in Service
<1>1. ASSUME NEW v \in Service, v.rule \in Rule, NEW x \in Subject \cup {None}
      PROVE  SetSubject(v, x) \in Service /\ SetSubject(v, x).rule \in Rule
  <2> DEFINE r == [v.rule EXCEPT !.subject = x]
             l == [v.local EXCEPT !.subject = x]
             w == [v EXCEPT !.rule = r, !.local = l]
  <2>1. r \in Rule
    BY <1>1 DEF Rule
  <2>2. l \in Rule
    BY <1>1, ServiceFields DEF Rule
  <2>3. SetSubject(v, x) = w
    BY <1>1, ServiceFields DEF SetSubject, Service, Rule
  <2> HIDE DEF r, l
  <2>4. w \in Service /\ w.rule = r
    BY <1>1, <2>1, <2>2, BothChanged
  <2> HIDE DEF w
  <2>q. QED BY <2>1, <2>3, <2>4
<1>2. ASSUME NEW v \in Service, v.rule \in Rule, NEW x \in Trigger \cup {None}
      PROVE  SetTrigger(v, x) \in Service /\ SetTrigger(v, x).rule \in Rule
  <2> DEFINE r == [v.rule EXCEPT !.trigger = x, !.triggerDetails = Blank]
             l == [v.local EXCEPT !.trigger = x]
             w == [v EXCEPT !.rule = r, !.local = l]
  <2>1. r \in Rule
    BY <1>2 DEF Rule
  <2>2. l \in Rule
    BY <1>2, ServiceFields DEF Rule
  <2>3. SetTrigger(v, x) = w
    BY <1>2, ServiceFields DEF SetTrigger, Service, Rule
  <2> HIDE DEF r, l
  <2>4. w \in Service /\ w.rule = r
    BY <1>2, <2>1, <2>2, BothChanged
  <2> HIDE DEF w
  <2>q. QED BY <2>1, <2>3, <2>4
<1>3. ASSUME NEW v \in Service, v.rule \in Rule, NEW x \in Trigger \cup {Blank, None}
      PROVE  SetTriggerDetails(v, x) \in Service /\ SetTriggerDetails(v, x).rule \in Rule
  <2> DEFINE r == [v.rule EXCEPT !.triggerDetails = x]
             l == [v.local EXCEPT !.triggerDetails = x]
             w == [v EXCEPT !.rule = r, !.local = l]
  <2>1. r \in Rule
    BY <1>3 DEF Rule
  <2>2. l \in Rule
    BY <1>3, ServiceFields DEF Rule
  <2>3. SetTriggerDetails(v, x) = w
    BY <1>3, ServiceFields DEF SetTriggerDetails, Service, Rule
  <2> HIDE DEF r, l
  <2>4. w \in Service /\ w.rule = r
    BY <1>3, <2>1, <2>2, BothChanged
  <2> HIDE DEF w
  <2>q. QED BY <2>1, <2>3, <2>4
<1>4. ASSUME NEW v \in Service, v.rule \in Rule, NEW x \in Action \cup {None}
      PROVE  SetAction(v, x) \in Service /\ SetAction(v, x).rule \in Rule
  <2> DEFINE r == [v.rule EXCEPT !.action = x, !.actionDetails = Blank]
             l == [v.local EXCEPT !.action = x]
             w == [v EXCEPT !.rule = r, !.local = l]
  <2>1. r \in Rule
    BY <1>4 DEF Rule
  <2>2. l \in Rule
    BY <1>4, ServiceFields DEF Rule
  <2>3. SetAction(v, x) = w
    BY <1>4, ServiceFields DEF SetAction, Service, Rule
  <2> HIDE DEF r, l
  <2>4. w \in Service /\ w.rule = r
    BY <1>4, <2>1, <2>2, BothChanged
  <2> HIDE DEF w
  <2>q. QED BY <2>1, <2>3, <2>4
<1>5. ASSUME NEW v \in Service, v.rule \in Rule, NEW x \in Action \cup {Blank, None}
      PROVE  SetActionDetails(v, x) \in Service /\ SetActionDetails(v, x).rule \in Rule
  <2> DEFINE r == [v.rule EXCEPT !.actionDetails = x]
             l == [v.local EXCEPT !.actionDetails = x]
             w == [v EXCEPT !.rule = r, !.local = l]
  <2>1. r \in Rule
    BY <1>5 DEF Rule
  <2>2. l \in Rule
    BY <1>5, ServiceFields DEF Rule
  <2>3. SetActionDetails(v, x) = w
    BY <1>5, ServiceFields DEF SetActionDetails, Service, Rule
  <2> HIDE DEF r, l
  <2>4. w \in Service /\ w.rule = r
    BY <1>5, <2>1, <2>2, BothChanged
  <2> HIDE DEF w
  <2>q. QED BY <2>1, <2>3, <2>4
<1>6. ASSUME NEW v \in Service, v.rule \in Rule, NEW x \in Effect \cup {None}
      PROVE  SetEffect(v, x) \in Service /\ SetEffect(v, x).rule \in Rule
  <2> DEFINE r == [v.rule EXCEPT !.effect = x]
             l == [v.local EXCEPT !.effect = x]
             w == [v EXCEPT !.rule = r, !.local = l]
  <2>1. r \in Rule
    BY <1>6 DEF Rule
  <2>2. l \in Rule
    BY <1>6, ServiceFields DEF Rule
  <2>3. SetEffect(v, x) = w
    BY <1>6, ServiceFields DEF SetEffect, Service, Rule
  <2> HIDE DEF r, l
  <2>4. w \in Service /\ w.rule = r
    BY <1>6, <2>1, <2>2, BothChanged
  <2> HIDE DEF w
  <2>q. QED BY <2>1, <2>3, <2>4
<1>7. /\ Draft.subject \in Subject \cup {None} /\ Draft.effect \in Effect \cup {None}
      /\ Draft.trigger \in Trigger \cup {None} /\ Draft.action \in Action \cup {None}
      /\ Draft.triggerDetails \in Trigger \cup {Blank, None}
      /\ Draft.actionDetails \in Action \cup {Blank, None}
  BY PagesAssumption DEF Rule
<1>q. QED BY <1>1, <1>2, <1>3, <1>4, <1>5, <1>6, <1>7

\* A step that shows page p in a new entry of the history.
LEMMA VisitKeepsTypes ==
  ASSUME Typed, NEW p \in PolicyPageNames, NEW s \in Service,
         NEW rs \in [Slots -> Request \cup {None}], Fitting(rs, page), Visit(p, s, rs),
         apart' \in BOOLEAN, table' \subseteq Id, gone' \subseteq Id
  PROVE  Typed'
<1>1. /\ history' \in Seq(PolicyPageNames) /\ pos' \in DOMAIN history'
      /\ page' = p /\ Open(p, s, rs)
  BY VisitHistory DEF Typed
<1>2. PICK v : v = page
  OBVIOUS
<1>3. Fitting(rs, v)
  BY <1>2
<1>q. QED BY <1>1, <1>3, OpenKeepsTypes

LEMMA UserTypes ==
  ASSUME Typed, User
  PROVE  Typed'
<1>0. /\ apart \in BOOLEAN /\ table \subseteq Id /\ gone \subseteq Id /\ raced \in BOOLEAN
      /\ svc \in Service /\ requests \in [Slots -> Request \cup {None}]
      /\ Fitting(requests, page) /\ page \in PolicyPageNames /\ listed \subseteq Id
      /\ shown \in Shown
  BY PageTyped DEF Typed, TypeOK
<1>1. CASE NewPolicy
  <2>1. PICK s : s = Clear(svc)
    OBVIOUS
  <2>2. s \in Service /\ Go("start", s, requests)
    BY <1>0, <1>1, <2>1, SettersTyped DEF NewPolicy
  <2>3. apart' \in BOOLEAN /\ table' \subseteq Id /\ gone' \subseteq Id
    BY <1>0, <1>1 DEF NewPolicy
  <2>4. PICK rs : rs = requests
    OBVIOUS
  <2>q. QED BY <1>0, <2>2, <2>3, <2>4, GoKeepsTypes DEF PolicyPageNames
<1>2. CASE Compose
  <2>1. svc.rule \in Rule
    BY <1>0, <1>2, ServiceFields DEF Compose
  <2>2. \E s \in Service : Stay(s, requests)
    BY <1>0, <1>2, <2>1, ComposedTyped DEF Compose
  <2>3. /\ apart' \in BOOLEAN /\ table' \subseteq Id /\ gone' \subseteq Id
        /\ raced' \in BOOLEAN
    BY <1>0, <1>2 DEF Compose
  <2>4. PICK rs : rs = requests
    OBVIOUS
  <2>q. QED BY <1>0, <2>2, <2>3, <2>4, StayKeepsTypes
<1>3. CASE MyPolicies
  <2>1. PICK s, rs : s = svc /\ rs = requests
    OBVIOUS
  <2>2. Go("list", s, rs) /\ apart' \in BOOLEAN /\ table' \subseteq Id /\ gone' \subseteq Id
    BY <1>0, <1>3, <2>1 DEF MyPolicies
  <2>q. QED BY <1>0, <2>1, <2>2, GoKeepsTypes DEF PolicyPageNames
<1>4. CASE Turn
  <2>1. PICK s, rs, v, p : s = svc /\ rs = requests /\ v = page /\ p = history[pos']
    OBVIOUS
  <2>2. pos' \in DOMAIN history /\ history' = history
    BY <1>4 DEF Turn
  <2>3. /\ p \in PolicyPageNames /\ page' = p
        /\ history' \in Seq(PolicyPageNames) /\ pos' \in DOMAIN history'
    BY <2>1, <2>2 DEF Typed, TypeOK, page
  <2>4. /\ Open(p, s, rs) /\ apart' \in BOOLEAN /\ table' \subseteq Id
        /\ gone' \subseteq Id
    BY <1>0, <1>4, <2>1 DEF Turn
  <2>5. Fitting(rs, v)
    BY <1>0, <2>1
  <2>q. QED BY <1>0, <2>1, <2>3, <2>4, <2>5, OpenKeepsTypes
<1>5. CASE Reload
  <2>1. PICK s, rs, v, p :
          s = Reloaded(svc) /\ rs = [q \in Slots |-> None] /\ v = page /\ p = page
    OBVIOUS
  <2>2. s \in Service /\ rs \in [Slots -> Request \cup {None}] /\ Fitting(rs, v)
    BY <1>0, <2>1, SettersTyped DEF Fitting
  <2>3. /\ p \in PolicyPageNames /\ page' = p
        /\ history' \in Seq(PolicyPageNames) /\ pos' \in DOMAIN history'
    BY <1>0, <1>5, <2>1 DEF Typed, TypeOK, page, Reload
  <2>4. /\ Open(p, s, rs) /\ apart' \in BOOLEAN /\ table' \subseteq Id
        /\ gone' \subseteq Id
    BY <1>0, <1>5, <2>1 DEF Reload
  <2>q. QED BY <2>2, <2>3, <2>4, OpenKeepsTypes
<1>6. CASE DeleteRule
  <2>1. PICK i \in listed : Ask("delete", i)
    BY <1>6 DEF DeleteRule
  <2>2. i \in Id /\ page = "list"
    BY <1>0, <1>6 DEF DeleteRule
  <2>q. QED BY <2>1, <2>2, AskTypes
<1>7. CASE CheckRule
  <2>1. PICK i \in listed : Ask("check", i)
    BY <1>7 DEF CheckRule
  <2>q. QED BY <1>0, <2>1, AskTypes
<1>8. CASE DeleteShown
  <2>1. PICK i : i = shown.problems
    OBVIOUS
  <2>2. i \in Id /\ Ask("deleteShown", i)
    BY <1>0, <1>8, <2>1 DEF DeleteShown, BoxesDrawn, Shown
  <2>q. QED BY <2>2, AskTypes
<1>9. CASE OpenExplanation
  <2>1. PICK s, rs : s = svc /\ rs = requests
    OBVIOUS
  <2>2. /\ Visit("explanation", s, rs) /\ apart' \in BOOLEAN /\ table' \subseteq Id
        /\ gone' \subseteq Id
    BY <1>0, <1>9, <2>1 DEF OpenExplanation
  <2>q. QED BY <1>0, <2>1, <2>2, VisitKeepsTypes DEF PolicyPageNames
<1>10. CASE LeaveExplanation
  <2>1. PICK s, rs : s = svc /\ rs = requests
    OBVIOUS
  <2>2. /\ Go("problems", s, rs) /\ apart' \in BOOLEAN /\ table' \subseteq Id
        /\ gone' \subseteq Id
    BY <1>0, <1>10, <2>1 DEF LeaveExplanation
  <2>q. QED BY <1>0, <2>1, <2>2, GoKeepsTypes DEF PolicyPageNames
<1>q. QED BY <1>1, <1>2, <1>3, <1>4, <1>5, <1>6, <1>7, <1>8, <1>9, <1>10 DEF User

LEMMA ReceiveTypes ==
  ASSUME Typed, NEW q \in Slots, Receive(q)
  PROVE  Typed'
<1>0. /\ apart \in BOOLEAN /\ table \subseteq Id /\ gone \subseteq Id /\ raced \in BOOLEAN
      /\ svc \in Service /\ Fitting(requests, page) /\ listed \subseteq Id
      /\ page \in PolicyPageNames
  BY PageTyped DEF Typed, TypeOK
<1>1. /\ requests[q] # None /\ requests[q] \in Request /\ table' = table
      /\ requests[q].kind # "list" => requests[q].id \in Id
      /\ requests[q].kind \in {"list", "delete"} /\ requests[q].alive => page = "list"
  BY DEF Receive, Typed, TypeOK, Fitting
<1>2. Freed(q) \in [Slots -> Request \cup {None}] /\ Fitting(Freed(q), page)
  BY FreedTyped
<1>3. ASSUME ListAfterDelete(q, Freed(q)) \/ \E rs \in [Slots -> Request \cup {None}] :
               Fitting(rs, page) /\ ListAfterDelete(q, rs),
             requests[q].id \in Id
      PROVE  Typed'
  <2>1. PICK rs \in [Slots -> Request \cup {None}] :
          Fitting(rs, page) /\ ListAfterDelete(q, rs)
    BY <1>2, <1>3
  <2>2. apart' \in BOOLEAN /\ gone' \subseteq Id /\ table' \subseteq Id
    BY <1>0, <1>1, <1>3, <2>1 DEF ListAfterDelete
  <2>3. PICK s : s = svc
    OBVIOUS
  <2>4. CASE page = "list"
    <3>1. Stay(s, rs) /\ raced' = (raced \/ ListAsked)
      BY <2>1, <2>3, <2>4 DEF ListAfterDelete
    <3>2. raced' \in BOOLEAN
      BY <3>1
    <3>q. QED BY <1>0, <2>1, <2>2, <2>3, <3>1, <3>2, StayKeepsTypes
  <2>5. CASE page # "list"
    <3>1. Visit("list", s, rs)
      BY <2>1, <2>3, <2>5 DEF ListAfterDelete
    <3>q. QED BY <1>0, <2>1, <2>2, <2>3, <3>1, VisitKeepsTypes DEF PolicyPageNames
  <2>q. QED BY <2>4, <2>5
<1>4. CASE ReceiveList(q)
  <2>1. /\ requests' = Freed(q) /\ UNCHANGED <<svc, history, pos, shown, ghostVars>>
        /\ requests[q].kind = "list"
        /\ listed' = IF requests[q].alive THEN requests[q].ids ELSE listed
    BY <1>4 DEF ReceiveList
  <2>2. page' = page
    BY <2>1 DEF page
  <2>3. listed' \subseteq Id /\ (page # "list" => listed' = {})
    BY <1>0, <1>1, <2>1 DEF Typed, TypeOK, Request
  <2>4. Fitting(requests, page)'
    BY <1>2, <2>1, <2>2 DEF Fitting
  <2>5. TypeOK'
    BY <1>1, <1>2, <2>1, <2>2, <2>3 DEF Typed, TypeOK, ghostVars
  <2>q. QED BY <2>4, <2>5 DEF Typed
<1>5. CASE ReceiveDelete(q)
  <2> DEFINE r == [Sent("list", None) EXCEPT !.alive = requests[q].alive]
             rs == [requests EXCEPT ![q] = r]
  <2>1. requests[q].kind = "delete" /\ ListAfterDelete(q, rs)
    BY <1>5 DEF ReceiveDelete
  <2>2. r \in Request /\ r.kind = "list" /\ (r.alive => page = "list")
    BY <1>1, <2>1 DEF Sent, Request
  <2> HIDE DEF r
  <2>3. rs \in [Slots -> Request \cup {None}]
    BY <2>2 DEF Typed, TypeOK
  <2>4. Fitting(rs, page)
    BY <1>0, <2>2 DEF Typed, TypeOK, Fitting
  <2> HIDE DEF rs
  <2>q. QED BY <1>1, <1>3, <2>1, <2>3, <2>4
<1>6. CASE ReceiveDeleteShown(q)
  BY <1>1, <1>3, <1>6 DEF ReceiveDeleteShown
<1>7. CASE ReceiveCheck(q)
  <2> DEFINE i == requests[q].id
  <2>1. gone' = gone /\ i \in Id /\ Table[i] \in Rule
    BY <1>1, <1>7, PagesAssumption DEF ReceiveCheck
  <2>2. SetRule(svc, None) \in Service /\ SetRule(svc, Table[i]) \in Service
    BY <1>0, <2>1, SettersTyped
  <2>3. SetRuleProblems(SetRule(svc, Table[i]), i) \in Service
    BY <2>1, <2>2, SettersTyped
  <2>4. \/ /\ \E s \in Service : Stay(s, Freed(q))
           /\ apart' \in BOOLEAN /\ raced' = raced
        \/ /\ \E s \in Service : Go("problems", s, Freed(q))
           /\ apart' \in BOOLEAN
    BY <1>7, <2>2, <2>3 DEF ReceiveCheck
  <2>5. PICK rs : rs = Freed(q)
    OBVIOUS
  <2>6. rs \in [Slots -> Request \cup {None}] /\ Fitting(rs, page)
    BY <1>2, <2>5
  <2>q. QED BY <1>0, <1>1, <2>1, <2>4, <2>5, <2>6, StayKeepsTypes, GoKeepsTypes
            DEF PolicyPageNames
<1>8. CASE ReceiveError(q)
  <2>1. requests' = Freed(q) /\ UNCHANGED <<browserVars, ghostVars>>
    BY <1>8 DEF ReceiveError
  <2>2. page' = page
    BY <2>1 DEF page, browserVars
  <2>3. Fitting(requests, page)'
    BY <1>2, <2>1, <2>2 DEF Fitting
  <2>4. TypeOK'
    BY <1>1, <1>2, <2>1, <2>2 DEF Typed, TypeOK, browserVars, ghostVars
  <2>q. QED BY <2>3, <2>4 DEF Typed
<1>q. QED BY <1>4, <1>5, <1>6, <1>7, <1>8 DEF Receive

LEMMA NextTyped == Typed /\ [Next]_vars => Typed'
<1> SUFFICES ASSUME Typed, [Next]_vars PROVE Typed'
  OBVIOUS
<1>1. CASE User
  BY <1>1, UserTypes
<1>2. CASE DeletedElsewhere
  <2>1. table' \subseteq Id /\ UNCHANGED <<requests, browserVars, ghostVars>>
    BY <1>2 DEF DeletedElsewhere, Typed, TypeOK
  <2>q. QED BY <2>1 DEF Typed, TypeOK, Fitting, page, browserVars, ghostVars
<1>3. CASE \E q \in Slots : Serve(q) \/ Receive(q)
  BY <1>3, ServeTypes, ReceiveTypes
<1>4. CASE UNCHANGED vars
  BY <1>4 DEF Typed, TypeOK, Fitting, page, vars, browserVars, ghostVars
<1>q. QED BY <1>1, <1>2, <1>3, <1>4 DEF Next

\* The variables keep their types (TypeOK of the run Pages), whatever the policies,
\* the number of requests in flight and the length of the history.
THEOREM PagesTyped == Spec => []TypeOK
<1>1. Spec => []Typed
  BY InitTyped, NextTyped, PTL DEF Spec
<1>2. Typed => TypeOK
  BY DEF Typed
<1>q. QED BY <1>1, <1>2, PTL

(***************************************************************************)
(* The problems page.  ProblemsOfShownRule speaks of what the page has     *)
(* read; inductive with it is that memory, from which the page reads,      *)
(* holds a policy with its own problems as long as `apart` is false.       *)
(***************************************************************************)
Together(s) == s.rule \in Rule /\ Fits(s)

Memory ==
  /\ ~apart => Together(svc)
  /\ ProblemsOfShownRule

LEMMA OpenKeepsMemory ==
  ASSUME NEW p \in PolicyPageNames, NEW s \in Service, NEW rs, Open(p, s, rs),
         page' = p, ~apart' => Together(s)
  PROVE  Memory'
<1>1. /\ svc' = Loaded(p, s) /\ mixed' = apart'
      /\ p = "problems" => shown' = [rule |-> svc'.rule, problems |-> svc'.problems]
  BY DEF Open
<1>2. ~apart' => Together(svc')
  <2> SUFFICES ASSUME ~apart' PROVE Together(Loaded(p, s))
    BY <1>1
  <2>1. s.rule \in Rule /\ Fits(s)
    BY DEF Together
  <2>2. CASE p # "problems"
    BY <2>1, <2>2 DEF Together, Loaded
  <2>3. CASE p = "problems"
    <3>1. Loaded(p, s).rule \in Rule
      BY <2>1, <2>3, LoadedTyped
    <3>2. Fits(GetRuleProblems(GetRule(s)))
      BY <2>1, LoadedFits
    <3>q. QED BY <2>3, <3>1, <3>2 DEF Together, Loaded
  <2>q. QED BY <2>2, <2>3
<1>3. ASSUME page' = "problems", ~mixed' PROVE OfOnePolicy(shown)'
  <2>1. Fits(svc')
    BY <1>1, <1>2, <1>3 DEF Together
  <2>2. shown'.rule = svc'.rule /\ shown'.problems = svc'.problems
    BY <1>1, <1>3
  <2>q. QED BY <2>1, <2>2 DEF Fits, OfOnePolicy
<1>q. QED BY <1>2, <1>3 DEF Memory, ProblemsOfShownRule

LEMMA StayKeepsMemory ==
  ASSUME Memory, NEW s, NEW rs, Stay(s, rs), ~apart' => Together(s)
  PROVE  Memory'
<1>1. svc' = s /\ UNCHANGED <<history, pos, shown, mixed>>
  BY DEF Stay
<1>q. QED BY <1>1 DEF Memory, ProblemsOfShownRule, OfOnePolicy, page

LEMMA VisitKeepsMemory ==
  ASSUME Typed, NEW p \in PolicyPageNames, NEW s \in Service, NEW rs, Visit(p, s, rs),
         ~apart' => Together(s)
  PROVE  Memory'
  BY VisitHistory, OpenKeepsMemory DEF Typed

LEMMA GoKeepsMemory ==
  ASSUME Typed, Memory, NEW p \in PolicyPageNames, NEW s \in Service, NEW rs, Go(p, s, rs),
         ~apart' => Together(s)
  PROVE  Memory'
  BY StayKeepsMemory, VisitKeepsMemory DEF Go

LEMMA InitMemory == Init => Memory
<1>1. NewRule \in Rule
  BY DEF NewRule, Rule
<1>q. QED BY <1>1 DEF Init, FreshService, Memory, Together, Fits, ProblemsOfShownRule, page

LEMMA UserMemory ==
  ASSUME Typed, Memory, User
  PROVE  Memory'
<1>0. /\ svc \in Service /\ page \in PolicyPageNames
      /\ "start" \in PolicyPageNames /\ "list" \in PolicyPageNames
      /\ "explanation" \in PolicyPageNames /\ "problems" \in PolicyPageNames
  BY PageTyped DEF Typed, TypeOK, PolicyPageNames
<1>1. CASE NewPolicy
  <2>1. PICK s, rs : s = Clear(svc) /\ rs = requests
    OBVIOUS
  <2>2. s \in Service /\ Go("start", s, rs) /\ apart'
    BY <1>0, <1>1, <2>1, SettersTyped DEF NewPolicy
  <2>q. QED BY <1>0, <2>2, GoKeepsMemory
<1>2. CASE Compose
  <2>1. (\E s : Stay(s, requests)) /\ apart'
    BY <1>2 DEF Compose
  <2>2. PICK rs : rs = requests
    OBVIOUS
  <2>q. QED BY <2>1, <2>2, StayKeepsMemory
<1>3. CASE MyPolicies
  <2>1. PICK s, rs : s = svc /\ rs = requests
    OBVIOUS
  <2>2. Go("list", s, rs) /\ (~apart' => Together(s))
    BY <1>3, <2>1 DEF MyPolicies, Memory
  <2>q. QED BY <1>0, <2>1, <2>2, GoKeepsMemory
<1>4. CASE Turn
  <2>1. PICK s, rs, p : s = svc /\ rs = requests /\ p = history[pos']
    OBVIOUS
  <2>2. p \in PolicyPageNames /\ page' = p
    BY <1>4, <2>1 DEF Turn, Typed, TypeOK, page
  <2>3. Open(p, s, rs) /\ (~apart' => Together(s))
    BY <1>4, <2>1 DEF Turn, Memory
  <2>q. QED BY <1>0, <2>1, <2>2, <2>3, OpenKeepsMemory
<1>5. CASE Reload
  <2>1. PICK s, rs, p : s = Reloaded(svc) /\ rs = [q \in Slots |-> None] /\ p = page
    OBVIOUS
  <2>2. s \in Service /\ page' = p /\ p \in PolicyPageNames
    BY <1>0, <1>5, <2>1, SettersTyped DEF Reload, page
  <2>3. Open(p, s, rs) /\ apart'
    BY <1>5, <2>1 DEF Reload
  <2>q. QED BY <2>2, <2>3, OpenKeepsMemory
<1>6. CASE DeleteRule \/ CheckRule \/ DeleteShown
  <2>1. UNCHANGED <<browserVars, ghostVars>>
    BY <1>6 DEF DeleteRule, CheckRule, DeleteShown, Ask
  <2>q. QED BY <2>1 DEF browserVars, ghostVars, Memory, ProblemsOfShownRule, OfOnePolicy, page
<1>9. CASE OpenExplanation
  <2>1. PICK s, rs : s = svc /\ rs = requests
    OBVIOUS
  <2>2. Visit("explanation", s, rs) /\ (~apart' => Together(s))
    BY <1>9, <2>1 DEF OpenExplanation, Memory
  <2>q. QED BY <1>0, <2>1, <2>2, VisitKeepsMemory
<1>10. CASE LeaveExplanation
  <2>1. PICK s, rs : s = svc /\ rs = requests
    OBVIOUS
  <2>2. Go("problems", s, rs) /\ (~apart' => Together(s))
    BY <1>10, <2>1 DEF LeaveExplanation, Memory
  <2>q. QED BY <1>0, <2>1, <2>2, GoKeepsMemory
<1>q. QED BY <1>1, <1>2, <1>3, <1>4, <1>5, <1>6, <1>9, <1>10 DEF User

\* The answer of a check brings policy and problems together.
LEMMA AnswerTogether ==
  ASSUME Typed, NEW i \in Id
  PROVE  /\ SetRuleProblems(SetRule(svc, Table[i]), i) \in Service
         /\ Together(SetRuleProblems(SetRule(svc, Table[i]), i))
<1>1. svc \in Service /\ Table[i] \in Rule /\ i # None
  BY PagesAssumption, RuleServiceAssumption DEF Typed, TypeOK
<1> DEFINE s == SetRule(svc, Table[i])
<1>2. s \in Service
  BY <1>1, SettersTyped
<1>3. Table[i] # None => s.rule = Table[i]
  BY <1>1 DEF SetRule, Service
<1>4. Table[i] = None => s.rule = None
  BY <1>1 DEF SetRule, Service
<1>5. s.rule = Table[i]
  BY <1>3, <1>4
<1> HIDE DEF s
<1> DEFINE w == SetRuleProblems(s, i)
<1>6. w \in Service /\ w.rule = Table[i] /\ w.problems = i
  <2>1. w \in Service
    BY <1>2, SettersTyped
  <2>2. w.rule = s.rule /\ w.problems = i
    BY <1>2 DEF SetRuleProblems, Service
  <2>q. QED BY <1>5, <2>1, <2>2
<1> HIDE DEF w
<1>7. Together(w)
  BY <1>1, <1>6 DEF Together, Fits
<1>q. QED BY <1>6, <1>7 DEF w, s

LEMMA ReceiveMemory ==
  ASSUME Typed, Memory, NEW q \in Slots, Receive(q)
  PROVE  Memory'
<1>0. svc \in Service /\ "list" \in PolicyPageNames /\ "problems" \in PolicyPageNames
  BY DEF Typed, TypeOK, PolicyPageNames
<1>1. ASSUME NEW rs, ListAfterDelete(q, rs) PROVE Memory'
  <2>1. apart' = apart /\ (Stay(svc, rs) \/ Visit("list", svc, rs))
    BY <1>1 DEF ListAfterDelete
  <2>2. PICK s : s = svc
    OBVIOUS
  <2>3. ~apart' => Together(s)
    BY <2>1, <2>2 DEF Memory
  <2>q. QED BY <1>0, <2>1, <2>2, <2>3, StayKeepsMemory, VisitKeepsMemory
<1>2. CASE ReceiveList(q) \/ ReceiveError(q)
  <2>1. UNCHANGED <<svc, history, pos, shown, ghostVars>>
    BY <1>2 DEF ReceiveList, ReceiveError, browserVars
  <2>q. QED BY <2>1 DEF ghostVars, Memory, ProblemsOfShownRule, OfOnePolicy, page
<1>3. CASE ReceiveDelete(q) \/ ReceiveDeleteShown(q)
  <2>1. \E rs : ListAfterDelete(q, rs)
    BY <1>3 DEF ReceiveDelete, ReceiveDeleteShown
  <2>q. QED BY <1>1, <2>1
<1>4. CASE ReceiveCheck(q)
  <2>1. PICK i, rs : i = requests[q].id /\ rs = Freed(q)
    OBVIOUS
  <2>2. i \in Id
    BY <1>4, <2>1 DEF ReceiveCheck, Receive, Typed, Fitting
  <2>3. \/ (\E s : Stay(s, rs)) /\ apart'
        \/ Go("problems", SetRuleProblems(SetRule(svc, Table[i]), i), rs) /\ ~apart'
    BY <1>4, <2>1 DEF ReceiveCheck
  <2>4. CASE (\E s : Stay(s, rs)) /\ apart'
    BY <2>4, StayKeepsMemory
  <2>5. CASE Go("problems", SetRuleProblems(SetRule(svc, Table[i]), i), rs) /\ ~apart'
    <3>1. PICK s : s = SetRuleProblems(SetRule(svc, Table[i]), i)
      OBVIOUS
    <3>2. Go("problems", s, rs) /\ s \in Service /\ Together(s)
      BY <2>2, <2>5, <3>1, AnswerTogether
    <3>q. QED BY <1>0, <3>2, GoKeepsMemory
  <2>q. QED BY <2>3, <2>4, <2>5
<1>q. QED BY <1>2, <1>3, <1>4 DEF Receive

LEMMA NextMemory == Typed /\ Memory /\ [Next]_vars => Memory'
<1> SUFFICES ASSUME Typed, Memory, [Next]_vars PROVE Memory'
  OBVIOUS
<1>1. CASE User
  BY <1>1, UserMemory
<1>2. CASE UNCHANGED vars \/ DeletedElsewhere \/ \E q \in Slots : Serve(q)
  <2>1. UNCHANGED <<browserVars, ghostVars>>
    BY <1>2 DEF vars, DeletedElsewhere, Serve
  <2>q. QED BY <2>1 DEF browserVars, ghostVars, Memory, ProblemsOfShownRule, OfOnePolicy, page
<1>3. CASE \E q \in Slots : Receive(q)
  BY <1>3, ReceiveMemory
<1>q. QED BY <1>1, <1>2, <1>3 DEF Next

\* The problems page shows the problems of the policy it shows (run Pages), as
\* long as neither a reload, a composition nor an answer without problems came
\* between the check and the page, for any number of late answers.
THEOREM ShownProblemsFit == Spec => []ProblemsOfShownRule
<1>1. Spec => []Typed
  BY InitTyped, NextTyped, PTL DEF Spec
<1>2. Spec => []Memory
  BY <1>1, InitMemory, NextMemory, PTL DEF Spec
<1>3. Memory => ProblemsOfShownRule
  BY DEF Memory
<1>q. QED BY <1>2, <1>3, PTL

(***************************************************************************)
(* Deleted policies.  An answer that says so is true, and a list for the   *)
(* page that is shown has none of them, unless raced is set.               *)
(***************************************************************************)
TrueDeletions(rs, tbl) ==
  \A q \in Slots :
    rs[q] # None /\ rs[q].kind \in {"delete", "deleteShown"} /\ rs[q].status = "ok"
      => rs[q].id \notin tbl

CleanLists(rs, g) ==
  \A q \in Slots :
    rs[q] # None /\ rs[q].kind = "list" /\ rs[q].alive /\ rs[q].status = "ok"
      => rs[q].ids \cap g = {}

Deletions ==
  /\ gone \cap table = {}
  /\ TrueDeletions(requests, table)
  /\ raced \/ CleanLists(requests, gone)

LEMMA OpenKeepsDeletions ==
  ASSUME NEW p, NEW s, NEW rs \in [Slots -> Request \cup {None}], Open(p, s, rs),
         NEW tbl, TrueDeletions(rs, tbl), table' \subseteq tbl, (gone \cap table = {})'
  PROVE  Deletions'
<1>1. \A q \in Slots :
        \/ requests'[q] = None
        \/ p = "list" /\ requests'[q] = Sent("list", None)
        \/ rs[q] # None /\ requests'[q] = Orphan(rs[q])
  BY OpenRequests
<1>2. Sent("list", None).status = "sent"
  BY DEF Sent
<1>3. TrueDeletions(requests, table)'
  BY <1>1, <1>2, OrphanTyped DEF TrueDeletions
<1>4. CleanLists(requests, gone)'
  BY <1>1, <1>2, OrphanTyped DEF CleanLists
<1>q. QED BY <1>3, <1>4 DEF Deletions

LEMMA VisitKeepsDeletions ==
  ASSUME NEW p, NEW s, NEW rs \in [Slots -> Request \cup {None}], Visit(p, s, rs),
         NEW tbl, TrueDeletions(rs, tbl), table' \subseteq tbl, (gone \cap table = {})'
  PROVE  Deletions'
  BY OpenKeepsDeletions DEF Visit

\* A request less.
LEMMA FreedDeletions ==
  ASSUME Typed, Deletions, NEW q \in Slots
  PROVE  /\ TrueDeletions(Freed(q), table)
         /\ raced \/ CleanLists(Freed(q), gone)
  BY DEF Typed, TypeOK, Deletions, TrueDeletions, CleanLists, Freed

\* A step that opens a page, or changes nothing the lists depend on.
LEMMA GoKeepsDeletions ==
  ASSUME NEW p, NEW s, NEW rs \in [Slots -> Request \cup {None}], Go(p, s, rs),
         UNCHANGED <<table, gone>>, NEW r, r = raced, r \in BOOLEAN,
         NEW tbl, tbl = table, TrueDeletions(rs, tbl),
         NEW g, g = gone, r \/ CleanLists(rs, g), g \cap tbl = {}
  PROVE  Deletions'
<1>1. CASE p = page
  <2>1. requests' = rs /\ raced' = r /\ table' = tbl /\ gone' = g
    BY <1>1 DEF Go, Stay
  <2>q. QED BY <2>1 DEF Deletions, TrueDeletions, CleanLists
<1>2. CASE p # page
  BY <1>2, VisitKeepsDeletions DEF Go
<1>q. QED BY <1>1, <1>2

LEMMA InitDeletions == Init => Deletions
<1> SUFFICES ASSUME Init PROVE Deletions
  OBVIOUS
<1>1. Sent("list", None).status = "sent"
  BY DEF Sent
<1>2. \A q \in Slots : requests[q] \in {None, Sent("list", None)}
  BY DEF Init
<1>q. QED BY <1>1, <1>2 DEF Init, Deletions, TrueDeletions, CleanLists

LEMMA ServeDeletions ==
  ASSUME Typed, Deletions, NEW q \in Slots, Serve(q)
  PROVE  Deletions'
<1>1. /\ requests[q] \in Request /\ requests[q] # None /\ table' \subseteq table
      /\ gone' = gone /\ raced' = raced /\ gone \cap table = {}
  BY DEF Serve, Typed, TypeOK, ghostVars, Deletions
<1>2. PICK st \in {"ok", "failed", "problems"}, ids \in SUBSET Id :
        /\ requests' = [requests EXCEPT ![q].status = st, ![q].ids = ids]
        /\ requests[q].kind = "list" /\ st = "ok" => ids = table
        /\ requests[q].kind \in {"delete", "deleteShown"} /\ st = "ok"
             => table' = table \ {requests[q].id}
  <2> DEFINE Reply(st, ids) == requests' = [requests EXCEPT ![q].status = st, ![q].ids = ids]
             Deleting == requests[q].kind \in {"delete", "deleteShown"}
             i == requests[q].id
  <2>1. \/ requests[q].kind = "list" /\ Reply("ok", table)
        \/ Deleting /\ Reply("ok", {}) /\ table' = table \ {i}
        \/ Deleting /\ Reply("failed", {})
        \/ /\ requests[q].kind = "check"
           /\ \E st \in {"ok", "problems"} : Reply(st, ({i} \cap table) \ BigIds)
        \/ Reply("failed", {})
    BY DEF Serve
  <2>2. table \in SUBSET Id /\ {} \in SUBSET Id /\ ({i} \cap table) \ BigIds \in SUBSET Id
    BY DEF Typed, TypeOK
  <2> HIDE DEF Reply
  <2>3. \E st \in {"ok", "failed", "problems"}, ids \in SUBSET Id :
          /\ Reply(st, ids)
          /\ requests[q].kind = "list" /\ st = "ok" => ids = table
          /\ Deleting /\ st = "ok" => table' = table \ {i}
    BY <2>1, <2>2
  <2>q. QED BY <2>3 DEF Reply
<1> DEFINE r == [requests[q] EXCEPT !.status = st, !.ids = ids]
<1>3. /\ r.kind = requests[q].kind /\ r.id = requests[q].id /\ r.status = st
      /\ r.ids = ids
  BY <1>1 DEF Request
<1>4. requests' = [requests EXCEPT ![q] = r]
  BY <1>2 DEF Typed, TypeOK
<1> HIDE DEF r
<1>5. TrueDeletions(requests, table)'
  BY <1>1, <1>2, <1>3, <1>4 DEF Typed, TypeOK, Deletions, TrueDeletions
<1>6. (raced \/ CleanLists(requests, gone))'
  BY <1>1, <1>2, <1>3, <1>4 DEF Typed, TypeOK, Deletions, CleanLists
<1>q. QED BY <1>1, <1>5, <1>6 DEF Deletions

LEMMA AskDeletions ==
  ASSUME Typed, Deletions, NEW kind, NEW i, Ask(kind, i)
  PROVE  Deletions'
<1>1. UNCHANGED <<table, gone, raced>>
  BY DEF Ask, ghostVars
<1>2. PICK q \in Slots : requests' = [requests EXCEPT ![q] = Sent(kind, i)]
  BY DEF Ask, Asking
<1>3. Sent(kind, i).status = "sent"
  BY DEF Sent
<1>q. QED BY <1>1, <1>2, <1>3 DEF Typed, TypeOK, Deletions, TrueDeletions, CleanLists

LEMMA UserDeletions ==
  ASSUME Typed, Deletions, User
  PROVE  Deletions'
<1>0. PICK rs, r, tbl, g : rs = requests /\ r = raced /\ tbl = table /\ g = gone
  OBVIOUS
<1>1. /\ rs \in [Slots -> Request \cup {None}] /\ r \in BOOLEAN
      /\ TrueDeletions(rs, tbl) /\ (r \/ CleanLists(rs, g)) /\ g \cap tbl = {}
  BY <1>0 DEF Typed, TypeOK, Deletions
<1>2. CASE NewPolicy \/ MyPolicies \/ LeaveExplanation
  <2>1. (\E p, s : Go(p, s, rs)) /\ UNCHANGED <<table, gone>>
    BY <1>0, <1>2 DEF NewPolicy, MyPolicies, LeaveExplanation
  <2>q. QED BY <1>0, <1>1, <2>1, GoKeepsDeletions
<1>3. CASE OpenExplanation
  <2>1. (\E p, s : Visit(p, s, rs)) /\ UNCHANGED <<table, gone>>
    BY <1>0, <1>3 DEF OpenExplanation
  <2>2. table' \subseteq tbl /\ (gone \cap table = {})'
    BY <1>0, <1>1, <2>1
  <2>q. QED BY <1>1, <2>1, <2>2, VisitKeepsDeletions
<1>4. CASE Turn
  <2>1. (\E p, s : Open(p, s, rs)) /\ UNCHANGED <<table, gone>>
    BY <1>0, <1>4 DEF Turn
  <2>2. table' \subseteq tbl /\ (gone \cap table = {})'
    BY <1>0, <1>1, <2>1
  <2>q. QED BY <1>1, <2>1, <2>2, OpenKeepsDeletions
<1>5. CASE Reload
  <2>1. PICK none : none = [q \in Slots |-> None]
    OBVIOUS
  <2>2. none \in [Slots -> Request \cup {None}] /\ TrueDeletions(none, tbl)
    BY <2>1 DEF TrueDeletions
  <2>3. (\E p, s : Open(p, s, none)) /\ UNCHANGED <<table, gone>>
    BY <1>5, <2>1 DEF Reload
  <2>4. table' \subseteq tbl /\ (gone \cap table = {})'
    BY <1>0, <1>1, <2>3
  <2>q. QED BY <2>2, <2>3, <2>4, OpenKeepsDeletions
<1>6. CASE Compose
  <2>1. UNCHANGED <<requests, table, gone, raced>>
    BY <1>6 DEF Compose, Stay
  <2>q. QED BY <2>1 DEF Deletions, TrueDeletions, CleanLists
<1>7. CASE DeleteRule \/ CheckRule \/ DeleteShown
  <2>1. \E kind, i : Ask(kind, i)
    BY <1>7 DEF DeleteRule, CheckRule, DeleteShown
  <2>q. QED BY <2>1, AskDeletions
<1>q. QED BY <1>2, <1>3, <1>4, <1>5, <1>6, <1>7 DEF User

LEMMA ReceiveDeletions ==
  ASSUME Typed, Deletions, NEW q \in Slots, Receive(q)
  PROVE  Deletions'
<1>0. /\ requests[q] # None /\ requests[q] \in Request /\ table' = table
      /\ gone \cap table = {} /\ raced \in BOOLEAN
  BY DEF Receive, Typed, TypeOK, Deletions
<1>1. /\ Freed(q) \in [Slots -> Request \cup {None}]
      /\ TrueDeletions(Freed(q), table) /\ (raced \/ CleanLists(Freed(q), gone))
  BY FreedTyped, FreedDeletions
<1>2. ASSUME NEW rs, ListAfterDelete(q, rs), rs \in [Slots -> Request \cup {None}],
             requests[q].kind \in {"delete", "deleteShown"}, requests[q].status = "ok",
             TrueDeletions(rs, table),
             \A p \in Slots \ {q} : rs[p] = requests[p],
             rs[q] = None \/ rs[q].status = "sent"
      PROVE  Deletions'
  <2>1. gone' = gone \cup {requests[q].id} /\ (gone \cap table = {})'
    BY <1>0, <1>2 DEF ListAfterDelete, Deletions, TrueDeletions
  <2>2. CASE page = "list"
    <3>1. requests' = rs /\ raced' = (raced \/ ListAsked)
      BY <1>2, <2>2 DEF ListAfterDelete, Stay
    <3>2. ListAsked \/ CleanLists(rs, gone')
      <4> SUFFICES ASSUME ~ListAsked PROVE CleanLists(rs, gone')
        OBVIOUS
      <4>1. \A p \in Slots : ~(/\ rs[p] # None /\ rs[p].kind = "list"
                               /\ rs[p].alive /\ rs[p].status = "ok")
        BY <1>2 DEF ListAsked
      <4>q. QED BY <4>1 DEF CleanLists
    <3>3. TrueDeletions(requests, table)'
      BY <1>0, <1>2, <3>1 DEF TrueDeletions
    <3>4. (raced \/ CleanLists(requests, gone))'
      BY <3>1, <3>2 DEF CleanLists
    <3>q. QED BY <2>1, <3>3, <3>4 DEF Deletions
  <2>3. CASE page # "list"
    <3>1. Visit("list", svc, rs)
      BY <1>2, <2>3 DEF ListAfterDelete
    <3>2. PICK s, tbl : s = svc /\ tbl = table
      OBVIOUS
    <3>q. QED BY <1>0, <1>2, <2>1, <3>1, <3>2, VisitKeepsDeletions
  <2>q. QED BY <2>2, <2>3
<1>3. CASE ReceiveList(q) \/ ReceiveError(q)
  <2>1. requests' = Freed(q) /\ UNCHANGED <<gone, raced>>
    BY <1>3 DEF ReceiveList, ReceiveError, ghostVars
  <2>q. QED BY <1>0, <1>1, <2>1 DEF Deletions, TrueDeletions, CleanLists
<1>4. CASE ReceiveDelete(q)
  <2> DEFINE r == [Sent("list", None) EXCEPT !.alive = requests[q].alive]
             rs == [requests EXCEPT ![q] = r]
  <2>1. /\ requests[q].kind = "delete" /\ requests[q].status = "ok"
        /\ ListAfterDelete(q, rs)
    BY <1>4 DEF ReceiveDelete
  <2>2. r \in Request /\ r.kind = "list" /\ r.status = "sent"
    BY <1>0 DEF Sent, Request
  <2> HIDE DEF r
  <2>3. rs \in [Slots -> Request \cup {None}] /\ rs[q] = r
        /\ \A p \in Slots \ {q} : rs[p] = requests[p]
    BY <2>2 DEF Typed, TypeOK
  <2> HIDE DEF rs
  <2>4. TrueDeletions(rs, table)
    BY <2>2, <2>3 DEF Deletions, TrueDeletions
  <2>5. PICK rt : rt = rs
    OBVIOUS
  <2>q. QED BY <1>2, <2>1, <2>2, <2>3, <2>4, <2>5
<1>5. CASE ReceiveDeleteShown(q)
  <2>1. /\ requests[q].kind = "deleteShown" /\ requests[q].status = "ok"
        /\ ListAfterDelete(q, Freed(q))
    BY <1>5 DEF ReceiveDeleteShown
  <2>2. Freed(q)[q] = None /\ \A p \in Slots \ {q} : Freed(q)[p] = requests[p]
    BY DEF Freed, Typed, TypeOK
  <2>3. PICK rt : rt = Freed(q)
    OBVIOUS
  <2>q. QED BY <1>1, <1>2, <2>1, <2>2, <2>3
<1>6. CASE ReceiveCheck(q)
  <2>1. UNCHANGED <<table, gone>>
    BY <1>0, <1>6 DEF ReceiveCheck
  <2>2. PICK rs, r, tbl, g : rs = Freed(q) /\ r = raced /\ tbl = table /\ g = gone
    OBVIOUS
  <2>3. \/ requests' = rs /\ raced' = raced
        \/ \E p, s : Go(p, s, rs)
    BY <1>6, <2>2 DEF ReceiveCheck, Stay
  <2>4. CASE requests' = rs /\ raced' = raced
    BY <1>0, <1>1, <2>1, <2>2, <2>4 DEF Deletions, TrueDeletions, CleanLists
  <2>5. CASE \E p, s : Go(p, s, rs)
    BY <1>0, <1>1, <2>1, <2>2, <2>5, GoKeepsDeletions
  <2>q. QED BY <2>3, <2>4, <2>5
<1>q. QED BY <1>3, <1>4, <1>5, <1>6 DEF Receive

LEMMA NextDeletions == Typed /\ Deletions /\ [Next]_vars => Deletions'
<1> SUFFICES ASSUME Typed, Deletions, [Next]_vars PROVE Deletions'
  OBVIOUS
<1>1. CASE User
  BY <1>1, UserDeletions
<1>2. CASE UNCHANGED vars \/ DeletedElsewhere
  <2>1. table' \subseteq table /\ UNCHANGED <<requests, gone, raced>>
    BY <1>2 DEF vars, DeletedElsewhere, ghostVars
  <2>q. QED BY <2>1 DEF Deletions, TrueDeletions, CleanLists
<1>3. CASE \E q \in Slots : Serve(q) \/ Receive(q)
  BY <1>3, ServeDeletions, ReceiveDeletions
<1>q. QED BY <1>1, <1>2, <1>3 DEF Next

LEMMA StepsKeepOut == Typed /\ Deletions /\ [Next]_vars
                        => (listed' # listed => listed' \cap gone = {} \/ raced)
<1> SUFFICES ASSUME Typed, Deletions, [Next]_vars, listed' # listed
             PROVE  listed' \cap gone = {} \/ raced
  OBVIOUS
<1>1. ASSUME NEW q \in Slots, ReceiveList(q), requests[q] # None
      PROVE  listed' \cap gone = {} \/ raced
  <2>1. /\ requests[q].kind = "list" /\ requests[q].status = "ok" /\ requests[q].alive
        /\ listed' = requests[q].ids
    BY <1>1 DEF ReceiveList
  <2>q. QED BY <1>1, <2>1 DEF Deletions, CleanLists
<1>2. CASE User
  <2>1. listed' = {}
    BY <1>2 DEF User, NewPolicy, Compose, MyPolicies, Turn, Reload, DeleteRule, CheckRule,
                DeleteShown, OpenExplanation, LeaveExplanation, Ask, browserVars,
                Go, Stay, Visit, Open
  <2>q. QED BY <2>1
<1>3. ASSUME NEW q \in Slots, Receive(q) PROVE listed' \cap gone = {} \/ raced
  <2>1. CASE ReceiveList(q)
    BY <1>1, <1>3, <2>1 DEF Receive
  <2>2. CASE ~ReceiveList(q)
    <3>1. listed' = {}
      BY <1>3, <2>2 DEF Receive, ReceiveDelete, ReceiveDeleteShown, ReceiveCheck,
                        ReceiveError, ListAfterDelete, browserVars, Go, Stay, Visit, Open
    <3>q. QED BY <3>1
  <2>q. QED BY <2>1, <2>2
<1>4. CASE UNCHANGED vars \/ DeletedElsewhere \/ \E q \in Slots : Serve(q)
  BY <1>4 DEF vars, DeletedElsewhere, Serve, browserVars
<1>q. QED BY <1>2, <1>3, <1>4 DEF Next

\* A list that arrives brings back no policy this browser knows to be deleted,
\* unless it learnt so while the list was under way (run Pages), in whatever
\* order requests are served and answers received.
THEOREM DeletedStayOut == Spec => DeletedStaysOut
<1>1. Spec => []Typed
  BY InitTyped, NextTyped, PTL DEF Spec
<1>2. Spec => []Deletions
  BY <1>1, InitDeletions, NextDeletions, PTL DEF Spec
<1>q. QED BY <1>1, <1>2, StepsKeepOut, PTL DEF Spec, DeletedStaysOut
=============================================================================
