------------------------ MODULE PolicyComposerProofs ------------------------
(***************************************************************************)
(* Theorems about PolicyComposer, for any triggers, actions, effects,      *)
(* subjects and stored policies, any length of the history and any number  *)
(* of policies saved: types, that FINISH saves what the review page shows, *)
(* that what it saves fits together, and that a reload does not change it. *)
(***************************************************************************)
EXTENDS PolicyComposer, TLAPS

(***************************************************************************)
(* The service: types and what its methods do to its fields.               *)
(***************************************************************************)
LEMMA ServiceFields ==
  ASSUME NEW s \in Service
  PROVE  /\ s.problems \in Id \cup {None} /\ s.localProblems \in Id \cup {None}
         /\ s.local \in Rule /\ s.rule \in Rule \cup {None}
  BY DEF Service

LEMMA RuleFields ==
  ASSUME NEW r \in Rule
  PROVE  /\ r.trigger \in Trigger \cup {None} /\ r.triggerDetails \in Trigger \cup {Blank, None}
         /\ r.action \in Action \cup {None} /\ r.actionDetails \in Action \cup {Blank, None}
         /\ r.effect \in Effect \cup {None} /\ r.subject \in Subject \cup {None}
         /\ r.dbId \in Id \cup {None}
  BY DEF Rule

LEMMA NewRuleTyped ==
  /\ NewRule \in Rule
  /\ NewRule.trigger = None /\ NewRule.action = None /\ NewRule.effect = None
  /\ NewRule.subject = None
  BY DEF NewRule, Rule

LEMMA MemoryChanged ==
  ASSUME NEW s \in Service, NEW r \in Rule
  PROVE  /\ [s EXCEPT !.rule = r] \in Service
         /\ [s EXCEPT !.rule = r].rule = r
         /\ [s EXCEPT !.rule = r].local = s.local
         /\ [s EXCEPT !.rule = r].problems = s.problems
  BY DEF Service

LEMMA TriggerRestored ==
  ASSUME NEW s \in Service, s.rule \in Rule
  PROVE  LET u == RestoreTrigger(s) IN
         /\ u \in Service /\ u.rule \in Rule
         /\ u.local = s.local
         /\ u.rule.trigger = s.local.trigger
         /\ u.rule.triggerDetails =
              IF s.local.trigger = None THEN None ELSE s.local.triggerDetails
         /\ u.rule.action = s.rule.action /\ u.rule.actionDetails = s.rule.actionDetails
         /\ u.rule.effect = s.rule.effect /\ u.rule.subject = s.rule.subject
<1> DEFINE d == IF s.local.trigger = None THEN None ELSE s.local.triggerDetails
           r == [s.rule EXCEPT !.trigger = s.local.trigger, !.triggerDetails = d]
<1>1. s.local.trigger \in Trigger \cup {None} /\ d \in Trigger \cup {Blank, None}
  BY ServiceFields, RuleFields
<1>2. RestoreTrigger(s) = [s EXCEPT !.rule = r]
  BY DEF RestoreTrigger, Service, Rule
<1> HIDE DEF d
<1>3. /\ r \in Rule /\ r.trigger = s.local.trigger /\ r.triggerDetails = d
      /\ r.action = s.rule.action /\ r.actionDetails = s.rule.actionDetails
      /\ r.effect = s.rule.effect /\ r.subject = s.rule.subject
  BY <1>1 DEF Rule
<1> HIDE DEF r
<1>4. QED BY <1>2, <1>3, MemoryChanged DEF d

LEMMA ActionRestored ==
  ASSUME NEW s \in Service, s.rule \in Rule
  PROVE  LET u == RestoreAction(s) IN
         /\ u \in Service /\ u.rule \in Rule
         /\ u.local = s.local
         /\ u.rule.action = s.local.action
         /\ u.rule.actionDetails =
              IF s.local.action = None THEN None ELSE s.local.actionDetails
         /\ u.rule.trigger = s.rule.trigger /\ u.rule.triggerDetails = s.rule.triggerDetails
         /\ u.rule.effect = s.rule.effect /\ u.rule.subject = s.rule.subject
<1> DEFINE d == IF s.local.action = None THEN None ELSE s.local.actionDetails
           r == [s.rule EXCEPT !.action = s.local.action, !.actionDetails = d]
<1>1. s.local.action \in Action \cup {None} /\ d \in Action \cup {Blank, None}
  BY ServiceFields, RuleFields
<1>2. RestoreAction(s) = [s EXCEPT !.rule = r]
  BY DEF RestoreAction, Service, Rule
<1> HIDE DEF d
<1>3. /\ r \in Rule /\ r.action = s.local.action /\ r.actionDetails = d
      /\ r.trigger = s.rule.trigger /\ r.triggerDetails = s.rule.triggerDetails
      /\ r.effect = s.rule.effect /\ r.subject = s.rule.subject
  BY <1>1 DEF Rule
<1> HIDE DEF r
<1>4. QED BY <1>2, <1>3, MemoryChanged DEF d

(***************************************************************************)
(* Recalling.  All getters and a reload leave localStorage alone, and each *)
(* part of the policy in memory stays, is lost, or is taken from there.    *)
(***************************************************************************)
RecallsTrigger(s, u) ==
  \/ u.rule.trigger = s.rule.trigger /\ u.rule.triggerDetails = s.rule.triggerDetails
  \/ /\ u.rule.trigger = s.local.trigger
     /\ s.local.trigger # None => u.rule.triggerDetails = s.local.triggerDetails
  \/ u.rule.trigger = None

RecallsAction(s, u) ==
  \/ u.rule.action = s.rule.action /\ u.rule.actionDetails = s.rule.actionDetails
  \/ /\ u.rule.action = s.local.action
     /\ s.local.action # None => u.rule.actionDetails = s.local.actionDetails
  \/ u.rule.action = None

Recalls(s, u) ==
  /\ u \in Service /\ u.rule \in Rule
  /\ u.local = s.local
  /\ RecallsTrigger(s, u) /\ RecallsAction(s, u)
  /\ u.rule.effect \in {s.rule.effect, s.local.effect, None}
  /\ u.rule.subject \in {s.rule.subject, s.local.subject, None}

LEMMA RecallsItself ==
  ASSUME NEW s \in Service, s.rule \in Rule
  PROVE  Recalls(s, s)
  BY DEF Recalls, RecallsTrigger, RecallsAction

LEMMA RecallsTransitive ==
  ASSUME NEW s, NEW u, NEW v, Recalls(s, u), Recalls(u, v)
  PROVE  Recalls(s, v)
  BY DEF Recalls, RecallsTrigger, RecallsAction

LEMMA RestoresRecall ==
  ASSUME NEW s \in Service, s.rule \in Rule
  PROVE  Recalls(s, RestoreTrigger(s)) /\ Recalls(s, RestoreAction(s))
<1> DEFINE u == RestoreTrigger(s)
           v == RestoreAction(s)
<1>1. Recalls(s, u)
  <2>1. /\ u \in Service /\ u.rule \in Rule /\ u.local = s.local
        /\ u.rule.trigger = s.local.trigger
        /\ u.rule.triggerDetails =
              IF s.local.trigger = None THEN None ELSE s.local.triggerDetails
        /\ u.rule.action = s.rule.action /\ u.rule.actionDetails = s.rule.actionDetails
        /\ u.rule.effect = s.rule.effect /\ u.rule.subject = s.rule.subject
    BY TriggerRestored
  <2> HIDE DEF u
  <2>2. QED BY <2>1 DEF Recalls, RecallsTrigger, RecallsAction
<1>2. Recalls(s, v)
  <2>1. /\ v \in Service /\ v.rule \in Rule /\ v.local = s.local
        /\ v.rule.action = s.local.action
        /\ v.rule.actionDetails =
              IF s.local.action = None THEN None ELSE s.local.actionDetails
        /\ v.rule.trigger = s.rule.trigger /\ v.rule.triggerDetails = s.rule.triggerDetails
        /\ v.rule.effect = s.rule.effect /\ v.rule.subject = s.rule.subject
    BY ActionRestored
  <2> HIDE DEF v
  <2>2. QED BY <2>1 DEF Recalls, RecallsTrigger, RecallsAction
<1>3. QED BY <1>1, <1>2

LEMMA GettersRecall ==
  ASSUME NEW s \in Service, s.rule \in Rule
  PROVE  /\ Recalls(s, GetTrigger(s)) /\ Recalls(s, GetTriggerDetails(s))
         /\ Recalls(s, GetAction(s)) /\ Recalls(s, GetActionDetails(s))
         /\ Recalls(s, GetRuleProblems(s)) /\ Recalls(s, Reloaded(s))
<1>1. Recalls(s, s) /\ Recalls(s, RestoreTrigger(s))
  BY RecallsItself, RestoresRecall
<1>2. Recalls(s, RestoreAction(RestoreTrigger(s)))
  <2>1. PICK u : u = RestoreTrigger(s)
    OBVIOUS
  <2>2. Recalls(s, u)
    BY <1>1, <2>1
  <2>3. Recalls(u, RestoreAction(u))
    BY <2>2, RestoresRecall DEF Recalls
  <2>4. QED BY <2>1, <2>2, <2>3, RecallsTransitive
<1>3. Recalls(s, GetRuleProblems(s))
  <2>1. CASE s.problems = None
    <3>1. PICK u : u = [s EXCEPT !.problems = s.localProblems, !.localProblems = s.localProblems]
      OBVIOUS
    <3>2. u \in Service /\ u.rule = s.rule /\ u.local = s.local
      BY <3>1, ServiceFields DEF Service
    <3>3. Recalls(s, u)
      BY <3>2 DEF Recalls, RecallsTrigger, RecallsAction
    <3>4. QED BY <2>1, <3>1, <3>3 DEF GetRuleProblems, SetRuleProblems
  <2>2. CASE s.problems # None
    BY <1>1, <2>2 DEF GetRuleProblems
  <2>3. QED BY <2>1, <2>2
<1>4. Recalls(s, Reloaded(s))
  <2>1. PICK u : u = Reloaded(s)
    OBVIOUS
  <2>2. u \in Service /\ u.rule = NewRule /\ u.local = s.local
    BY <2>1, NewRuleTyped DEF Reloaded, Service
  <2>3. QED BY <2>1, <2>2, NewRuleTyped DEF Recalls, RecallsTrigger, RecallsAction
<1>5. QED BY <1>1, <1>2, <1>3, <1>4 DEF GetTrigger, GetTriggerDetails, GetAction, GetActionDetails
\* What FINISH sends of a service: trigger and action each as a whole, from
\* localStorage unless the memory has both parts; the other fields one by one.
LEMMA GetRuleGives ==
  ASSUME NEW s \in Service, s.rule \in Rule
  PROVE  LET u == GetRule(s) IN
         /\ Recalls(s, u)
         /\ IF s.rule.trigger = None \/ s.rule.triggerDetails = None
            THEN /\ u.rule.trigger = s.local.trigger
                 /\ u.rule.triggerDetails =
                      IF s.local.trigger = None THEN None ELSE s.local.triggerDetails
            ELSE /\ u.rule.trigger = s.rule.trigger
                 /\ u.rule.triggerDetails = s.rule.triggerDetails
         /\ IF s.rule.action = None \/ s.rule.actionDetails = None
            THEN /\ u.rule.action = s.local.action
                 /\ u.rule.actionDetails =
                      IF s.local.action = None THEN None ELSE s.local.actionDetails
            ELSE /\ u.rule.action = s.rule.action
                 /\ u.rule.actionDetails = s.rule.actionDetails
         /\ u.rule.effect = Either(s.rule.effect, s.local.effect)
         /\ u.rule.subject = Either(s.rule.subject, s.local.subject)
<1>1. PICK t : t = IF s.rule.trigger = None \/ s.rule.triggerDetails = None
                   THEN RestoreTrigger(s) ELSE s
  OBVIOUS
<1>2. PICK a : a = IF t.rule.action = None \/ t.rule.actionDetails = None
                   THEN RestoreAction(t) ELSE t
  OBVIOUS
<1>3. PICK u : u = [a EXCEPT !.rule.dbId = Either(a.rule.dbId, a.local.dbId),
                             !.rule.effect = Either(a.rule.effect, a.local.effect),
                             !.rule.subject = Either(a.rule.subject, a.local.subject)]
  OBVIOUS
<1>4. u = GetRule(s)
  BY <1>1, <1>2, <1>3 DEF GetRule
<1>5. /\ Recalls(s, t)
      /\ IF s.rule.trigger = None \/ s.rule.triggerDetails = None
         THEN /\ t.rule.trigger = s.local.trigger
              /\ t.rule.triggerDetails =
                   IF s.local.trigger = None THEN None ELSE s.local.triggerDetails
         ELSE /\ t.rule.trigger = s.rule.trigger
              /\ t.rule.triggerDetails = s.rule.triggerDetails
      /\ t.rule.action = s.rule.action /\ t.rule.actionDetails = s.rule.actionDetails
      /\ t.rule.effect = s.rule.effect /\ t.rule.subject = s.rule.subject
  BY <1>1, RecallsItself, RestoresRecall, TriggerRestored
<1>6. t \in Service /\ t.rule \in Rule /\ t.local = s.local
  BY <1>5 DEF Recalls
<1>7. /\ Recalls(t, a)
      /\ IF t.rule.action = None \/ t.rule.actionDetails = None
         THEN /\ a.rule.action = t.local.action
              /\ a.rule.actionDetails =
                   IF t.local.action = None THEN None ELSE t.local.actionDetails
         ELSE /\ a.rule.action = t.rule.action
              /\ a.rule.actionDetails = t.rule.actionDetails
      /\ a.rule.trigger = t.rule.trigger /\ a.rule.triggerDetails = t.rule.triggerDetails
      /\ a.rule.effect = t.rule.effect /\ a.rule.subject = t.rule.subject
  BY <1>2, <1>6, RecallsItself, RestoresRecall, ActionRestored
<1>8. a \in Service /\ a.rule \in Rule /\ a.local = s.local
  BY <1>6, <1>7 DEF Recalls
<1>9. /\ u \in Service /\ u.rule \in Rule /\ u.local = s.local
      /\ u.rule.trigger = a.rule.trigger /\ u.rule.triggerDetails = a.rule.triggerDetails
      /\ u.rule.action = a.rule.action /\ u.rule.actionDetails = a.rule.actionDetails
      /\ u.rule.effect = Either(a.rule.effect, a.local.effect)
      /\ u.rule.subject = Either(a.rule.subject, a.local.subject)
  <2> DEFINE i == Either(a.rule.dbId, a.local.dbId)
             e == Either(a.rule.effect, a.local.effect)
             b == Either(a.rule.subject, a.local.subject)
             r == [a.rule EXCEPT !.dbId = i, !.effect = e, !.subject = b]
  <2>1. i \in Id \cup {None} /\ e \in Effect \cup {None} /\ b \in Subject \cup {None}
    BY <1>8, ServiceFields, RuleFields DEF Either
  <2> HIDE DEF i, e, b
  <2>2. /\ r \in Rule /\ r.trigger = a.rule.trigger /\ r.triggerDetails = a.rule.triggerDetails
        /\ r.action = a.rule.action /\ r.actionDetails = a.rule.actionDetails
        /\ r.effect = e /\ r.subject = b
    <3>1. a.rule \in Rule
      BY <1>8
    <3>2. r \in Rule
      BY <2>1, <3>1 DEF Rule
    <3>3. QED BY <3>1, <3>2 DEF Rule
  <2>3. u = [a EXCEPT !.rule = r]
    BY <1>3, <1>8 DEF i, e, b, Service, Rule
  <2> HIDE DEF r
  <2>4. QED BY <1>8, <2>2, <2>3, MemoryChanged DEF e, b
<1>10. Recalls(s, u)
  <2>1. Recalls(s, a)
    BY <1>5, <1>7, RecallsTransitive
  <2>2. /\ u.rule.effect \in {a.rule.effect, s.local.effect}
        /\ u.rule.subject \in {a.rule.subject, s.local.subject}
    BY <1>8, <1>9 DEF Either
  <2>3. QED BY <1>8, <1>9, <2>1, <2>2 DEF Recalls, RecallsTrigger, RecallsAction
<1>11. QED BY <1>4, <1>5, <1>6, <1>7, <1>8, <1>9, <1>10

(***************************************************************************)
(* Opening a page.                                                         *)
(***************************************************************************)
LEMMA LoadedRecalls ==
  ASSUME NEW s \in Service, s.rule \in Rule, NEW p \in ComposerPages
  PROVE  Recalls(s, Loaded(p, s))
<1>1. CASE p \in {"triggerDetails", "action"}
  BY <1>1, GettersRecall DEF Loaded
<1>2. CASE p = "actionDetails"
  BY <1>2, GettersRecall DEF Loaded
<1>3. CASE p = "review"
  <2>1. PICK b : b = GetAction(s)
    OBVIOUS
  <2>2. PICK a : a = GetActionDetails(b)
    OBVIOUS
  <2>3. PICK t : t = GetTrigger(a)
    OBVIOUS
  <2>4. PICK u : u = GetTriggerDetails(t)
    OBVIOUS
  <2>5. Recalls(s, a) /\ a \in Service /\ a.rule \in Rule
    <3>1. Recalls(s, b) /\ b \in Service /\ b.rule \in Rule
      BY <2>1, GettersRecall DEF Recalls
    <3>2. Recalls(b, a)
      BY <2>2, <3>1, GettersRecall
    <3>3. QED BY <3>1, <3>2, RecallsTransitive DEF Recalls
  <2>6. Recalls(s, u)
    <3>1. Recalls(a, t) /\ t \in Service /\ t.rule \in Rule
      BY <2>3, <2>5, GettersRecall DEF Recalls
    <3>2. Recalls(t, u)
      BY <2>4, <3>1, GettersRecall
    <3>3. QED BY <2>5, <3>1, <3>2, RecallsTransitive
  <2>7. Loaded(p, s) \in {a, u}
    BY <1>3, <2>1, <2>2, <2>3, <2>4 DEF Loaded
  <2>8. QED BY <2>5, <2>6, <2>7
<1>4. CASE p = "problems"
  <2>1. PICK g : g = GetRule(s)
    OBVIOUS
  <2>2. Recalls(s, g) /\ g \in Service /\ g.rule \in Rule
    BY <2>1, GetRuleGives DEF Recalls
  <2>3. Recalls(g, GetRuleProblems(g))
    BY <2>2, GettersRecall
  <2>4. Loaded(p, s) = GetRuleProblems(g)
    BY <1>4, <2>1 DEF Loaded
  <2>5. QED BY <2>2, <2>3, <2>4, RecallsTransitive
<1>5. CASE p \in {"start", "trigger", "list"}
  BY <1>5, RecallsItself DEF Loaded
<1>6. QED BY <1>1, <1>2, <1>3, <1>4, <1>5 DEF ComposerPages

LEMMA ViewTyped ==
  ASSUME NEW s \in Service, NEW p, s.rule \in Rule \/ p \in {"start", "list"}
  PROVE  View(p, s) \in Rule
<1>1. CASE p = "triggerDetails"
  BY <1>1, NewRuleTyped DEF View, Rule
<1>2. CASE p = "actionDetails"
  BY <1>2, NewRuleTyped DEF View, Rule
<1>3. CASE p = "review"
  <2>1. PICK r : r = s.rule
    OBVIOUS
  <2>2. PICK e : e = Either(s.rule.effect, s.local.effect)
    OBVIOUS
  <2>3. PICK b : b = Either(s.rule.subject, s.local.subject)
    OBVIOUS
  <2>4. r \in Rule /\ e \in Effect \cup {None} /\ b \in Subject \cup {None}
    BY <1>3, <2>1, <2>2, <2>3, ServiceFields, RuleFields DEF Either
  <2>5. [r EXCEPT !.effect = e, !.subject = b, !.dbId = None] \in Rule
    BY <2>4 DEF Rule
  <2>6. QED BY <1>3, <2>1, <2>2, <2>3, <2>5 DEF View
<1>4. CASE p \notin {"triggerDetails", "actionDetails", "review"}
  BY <1>4, NewRuleTyped DEF View
<1>5. QED BY <1>1, <1>2, <1>3, <1>4

LEMMA OpenTypes ==
  ASSUME NEW p \in ComposerPages, NEW s \in Service, Open(p, s)
  PROVE  /\ svc' \in Service /\ shown' \in Rule /\ filled' = FALSE /\ overtaken' = FALSE
         /\ s.rule \in Rule => svc'.rule \in Rule
<1>1. svc' = Loaded(p, s) /\ shown' = View(p, svc') /\ filled' = FALSE /\ overtaken' = FALSE
      /\ (s.rule \in Rule \/ p \in {"start", "list"})
  BY ServiceFields DEF Open
<1>2. CASE s.rule \in Rule
  <2>1. svc' \in Service /\ svc'.rule \in Rule
    BY <1>1, <1>2, LoadedRecalls DEF Recalls
  <2>2. QED BY <1>1, <2>1, ViewTyped
<1>3. CASE p \in {"start", "list"}
  <2>1. svc' = s
    BY <1>1, <1>3 DEF Loaded
  <2>2. QED BY <1>1, <1>3, <2>1, ViewTyped
<1>4. QED BY <1>1, <1>2, <1>3

LEMMA VisitHistory ==
  ASSUME history \in Seq(ComposerPages), pos \in DOMAIN history, Len(history) <= MaxHistory,
         MaxHistory \in Nat, NEW p \in ComposerPages, pos < MaxHistory,
         history' = Append(SubSeq(history, 1, pos), p), pos' = pos + 1
  PROVE  /\ history' \in Seq(ComposerPages) /\ DOMAIN history' = 1 .. pos'
         /\ pos \in Nat /\ pos' \in DOMAIN history' /\ Len(history') <= MaxHistory
         /\ history'[pos'] = p
         /\ \A i \in 1 .. pos : history'[i] = history[i]
<1>1. pos \in 1 .. Len(history) /\ Len(history) \in Nat
  OBVIOUS
<1>2. PICK kept : kept = SubSeq(history, 1, pos)
  OBVIOUS
<1>3. /\ kept \in Seq(ComposerPages) /\ Len(kept) = pos
      /\ \A i \in 1 .. pos : kept[i] = history[i]
  BY <1>1, <1>2
<1>4. /\ Append(kept, p) \in Seq(ComposerPages) /\ Len(Append(kept, p)) = pos + 1
      /\ DOMAIN Append(kept, p) = 1 .. (pos + 1)
      /\ Append(kept, p)[pos + 1] = p
      /\ \A i \in 1 .. pos : Append(kept, p)[i] = kept[i]
  BY <1>1, <1>3
<1>5. QED BY <1>1, <1>2, <1>3, <1>4

(***************************************************************************)
(* Setters: what each writes to memory and localStorage, and what it does  *)
(* not touch.                                                              *)
(***************************************************************************)
TriggerPart(s) ==
  <<s.rule.trigger, s.rule.triggerDetails, s.local.trigger, s.local.triggerDetails>>
ActionPart(s) ==
  <<s.rule.action, s.rule.actionDetails, s.local.action, s.local.actionDetails>>
EffectPart(s) == <<s.rule.effect, s.local.effect>>
SubjectPart(s) == <<s.rule.subject, s.local.subject>>

LEMMA SubjectSet ==
  ASSUME NEW s \in Service, s.rule \in Rule, NEW x \in Subject
  PROVE  LET u == SetSubject(s, x) IN
         /\ u \in Service /\ u.rule \in Rule
         /\ TriggerPart(u) = TriggerPart(s)
         /\ ActionPart(u) = ActionPart(s)
         /\ EffectPart(u) = EffectPart(s)
         /\ SubjectPart(u) = <<x, x>>
<1>1. PICK r : r = [s.rule EXCEPT !.subject = x]
  OBVIOUS
<1>2. PICK l : l = [s.local EXCEPT !.subject = x]
  OBVIOUS
<1>3. s.local \in Rule
  BY ServiceFields
<1>4. r \in Rule
  BY <1>1 DEF Rule
<1>5. l \in Rule
  BY <1>2, <1>3 DEF Rule
<1>6. SetSubject(s, x) = [s EXCEPT !.rule = r, !.local = l]
  BY <1>1, <1>2, <1>3 DEF SetSubject, Service, Rule
<1>7. PICK u : u = SetSubject(s, x)
  OBVIOUS
<1>8. u \in Service /\ u.rule = r /\ u.local = l
  BY <1>4, <1>5, <1>6, <1>7 DEF Service
<1>9. TriggerPart(u) = TriggerPart(s)
  BY <1>1, <1>2, <1>3, <1>8 DEF TriggerPart, ActionPart, EffectPart, SubjectPart, Rule
<1>10. ActionPart(u) = ActionPart(s)
  BY <1>1, <1>2, <1>3, <1>8 DEF TriggerPart, ActionPart, EffectPart, SubjectPart, Rule
<1>11. EffectPart(u) = EffectPart(s)
  BY <1>1, <1>2, <1>3, <1>8 DEF TriggerPart, ActionPart, EffectPart, SubjectPart, Rule
<1>12. SubjectPart(u) = <<x, x>>
  BY <1>1, <1>2, <1>3, <1>8 DEF TriggerPart, ActionPart, EffectPart, SubjectPart, Rule
<1>13. QED BY <1>4, <1>7, <1>8, <1>9, <1>10, <1>11, <1>12

LEMMA EffectSet ==
  ASSUME NEW s \in Service, s.rule \in Rule, NEW e \in Effect
  PROVE  LET u == SetEffect(s, e) IN
         /\ u \in Service /\ u.rule \in Rule
         /\ TriggerPart(u) = TriggerPart(s)
         /\ ActionPart(u) = ActionPart(s)
         /\ SubjectPart(u) = SubjectPart(s)
         /\ EffectPart(u) = <<e, e>>
<1>1. PICK r : r = [s.rule EXCEPT !.effect = e]
  OBVIOUS
<1>2. PICK l : l = [s.local EXCEPT !.effect = e]
  OBVIOUS
<1>3. s.local \in Rule
  BY ServiceFields
<1>4. r \in Rule
  BY <1>1 DEF Rule
<1>5. l \in Rule
  BY <1>2, <1>3 DEF Rule
<1>6. SetEffect(s, e) = [s EXCEPT !.rule = r, !.local = l]
  BY <1>1, <1>2, <1>3 DEF SetEffect, Service, Rule
<1>7. PICK u : u = SetEffect(s, e)
  OBVIOUS
<1>8. u \in Service /\ u.rule = r /\ u.local = l
  BY <1>4, <1>5, <1>6, <1>7 DEF Service
<1>9. TriggerPart(u) = TriggerPart(s)
  BY <1>1, <1>2, <1>3, <1>8 DEF TriggerPart, ActionPart, EffectPart, SubjectPart, Rule
<1>10. ActionPart(u) = ActionPart(s)
  BY <1>1, <1>2, <1>3, <1>8 DEF TriggerPart, ActionPart, EffectPart, SubjectPart, Rule
<1>11. SubjectPart(u) = SubjectPart(s)
  BY <1>1, <1>2, <1>3, <1>8 DEF TriggerPart, ActionPart, EffectPart, SubjectPart, Rule
<1>12. EffectPart(u) = <<e, e>>
  BY <1>1, <1>2, <1>3, <1>8 DEF TriggerPart, ActionPart, EffectPart, SubjectPart, Rule
<1>13. QED BY <1>4, <1>7, <1>8, <1>9, <1>10, <1>11, <1>12

LEMMA TriggerSet ==
  ASSUME NEW s \in Service, s.rule \in Rule, NEW t \in Trigger
  PROVE  LET u == SetTrigger(s, t) IN
         /\ u \in Service /\ u.rule \in Rule
         /\ ActionPart(u) = ActionPart(s)
         /\ EffectPart(u) = EffectPart(s)
         /\ SubjectPart(u) = SubjectPart(s)
         /\ TriggerPart(u) = <<t, Blank, t, s.local.triggerDetails>>
<1>1. PICK r : r = [s.rule EXCEPT !.trigger = t, !.triggerDetails = Blank]
  OBVIOUS
<1>2. PICK l : l = [s.local EXCEPT !.trigger = t]
  OBVIOUS
<1>3. s.local \in Rule
  BY ServiceFields
<1>4. r \in Rule
  BY <1>1 DEF Rule
<1>5. l \in Rule
  BY <1>2, <1>3 DEF Rule
<1>6. SetTrigger(s, t) = [s EXCEPT !.rule = r, !.local = l]
  BY <1>1, <1>2, <1>3 DEF SetTrigger, Service, Rule
<1>7. PICK u : u = SetTrigger(s, t)
  OBVIOUS
<1>8. u \in Service /\ u.rule = r /\ u.local = l
  BY <1>4, <1>5, <1>6, <1>7 DEF Service
<1>9. ActionPart(u) = ActionPart(s)
  BY <1>1, <1>2, <1>3, <1>8 DEF TriggerPart, ActionPart, EffectPart, SubjectPart, Rule
<1>10. EffectPart(u) = EffectPart(s)
  BY <1>1, <1>2, <1>3, <1>8 DEF TriggerPart, ActionPart, EffectPart, SubjectPart, Rule
<1>11. SubjectPart(u) = SubjectPart(s)
  BY <1>1, <1>2, <1>3, <1>8 DEF TriggerPart, ActionPart, EffectPart, SubjectPart, Rule
<1>12. TriggerPart(u) = <<t, Blank, t, s.local.triggerDetails>>
  BY <1>1, <1>2, <1>3, <1>8 DEF TriggerPart, ActionPart, EffectPart, SubjectPart, Rule
<1>13. QED BY <1>4, <1>7, <1>8, <1>9, <1>10, <1>11, <1>12

LEMMA TriggerDetailsSet ==
  ASSUME NEW s \in Service, s.rule \in Rule, NEW d \in Trigger \cup {Blank}
  PROVE  LET u == SetTriggerDetails(s, d) IN
         /\ u \in Service /\ u.rule \in Rule
         /\ ActionPart(u) = ActionPart(s)
         /\ EffectPart(u) = EffectPart(s)
         /\ SubjectPart(u) = SubjectPart(s)
         /\ TriggerPart(u) = <<s.rule.trigger, d, s.local.trigger, d>>
<1>1. PICK r : r = [s.rule EXCEPT !.triggerDetails = d]
  OBVIOUS
<1>2. PICK l : l = [s.local EXCEPT !.triggerDetails = d]
  OBVIOUS
<1>3. s.local \in Rule
  BY ServiceFields
<1>4. r \in Rule
  BY <1>1 DEF Rule
<1>5. l \in Rule
  BY <1>2, <1>3 DEF Rule
<1>6. SetTriggerDetails(s, d) = [s EXCEPT !.rule = r, !.local = l]
  BY <1>1, <1>2, <1>3 DEF SetTriggerDetails, Service, Rule
<1>7. PICK u : u = SetTriggerDetails(s, d)
  OBVIOUS
<1>8. u \in Service /\ u.rule = r /\ u.local = l
  BY <1>4, <1>5, <1>6, <1>7 DEF Service
<1>9. ActionPart(u) = ActionPart(s)
  BY <1>1, <1>2, <1>3, <1>8 DEF TriggerPart, ActionPart, EffectPart, SubjectPart, Rule
<1>10. EffectPart(u) = EffectPart(s)
  BY <1>1, <1>2, <1>3, <1>8 DEF TriggerPart, ActionPart, EffectPart, SubjectPart, Rule
<1>11. SubjectPart(u) = SubjectPart(s)
  BY <1>1, <1>2, <1>3, <1>8 DEF TriggerPart, ActionPart, EffectPart, SubjectPart, Rule
<1>12. TriggerPart(u) = <<s.rule.trigger, d, s.local.trigger, d>>
  BY <1>1, <1>2, <1>3, <1>8 DEF TriggerPart, ActionPart, EffectPart, SubjectPart, Rule
<1>13. QED BY <1>4, <1>7, <1>8, <1>9, <1>10, <1>11, <1>12

LEMMA ActionSet ==
  ASSUME NEW s \in Service, s.rule \in Rule, NEW a \in Action
  PROVE  LET u == SetAction(s, a) IN
         /\ u \in Service /\ u.rule \in Rule
         /\ TriggerPart(u) = TriggerPart(s)
         /\ EffectPart(u) = EffectPart(s)
         /\ SubjectPart(u) = SubjectPart(s)
         /\ ActionPart(u) = <<a, Blank, a, s.local.actionDetails>>
<1>1. PICK r : r = [s.rule EXCEPT !.action = a, !.actionDetails = Blank]
  OBVIOUS
<1>2. PICK l : l = [s.local EXCEPT !.action = a]
  OBVIOUS
<1>3. s.local \in Rule
  BY ServiceFields
<1>4. r \in Rule
  BY <1>1 DEF Rule
<1>5. l \in Rule
  BY <1>2, <1>3 DEF Rule
<1>6. SetAction(s, a) = [s EXCEPT !.rule = r, !.local = l]
  BY <1>1, <1>2, <1>3 DEF SetAction, Service, Rule
<1>7. PICK u : u = SetAction(s, a)
  OBVIOUS
<1>8. u \in Service /\ u.rule = r /\ u.local = l
  BY <1>4, <1>5, <1>6, <1>7 DEF Service
<1>9. TriggerPart(u) = TriggerPart(s)
  BY <1>1, <1>2, <1>3, <1>8 DEF TriggerPart, ActionPart, EffectPart, SubjectPart, Rule
<1>10. EffectPart(u) = EffectPart(s)
  BY <1>1, <1>2, <1>3, <1>8 DEF TriggerPart, ActionPart, EffectPart, SubjectPart, Rule
<1>11. SubjectPart(u) = SubjectPart(s)
  BY <1>1, <1>2, <1>3, <1>8 DEF TriggerPart, ActionPart, EffectPart, SubjectPart, Rule
<1>12. ActionPart(u) = <<a, Blank, a, s.local.actionDetails>>
  BY <1>1, <1>2, <1>3, <1>8 DEF TriggerPart, ActionPart, EffectPart, SubjectPart, Rule
<1>13. QED BY <1>4, <1>7, <1>8, <1>9, <1>10, <1>11, <1>12

LEMMA ActionDetailsSet ==
  ASSUME NEW s \in Service, s.rule \in Rule, NEW d \in Action \cup {Blank}
  PROVE  LET u == SetActionDetails(s, d) IN
         /\ u \in Service /\ u.rule \in Rule
         /\ TriggerPart(u) = TriggerPart(s)
         /\ EffectPart(u) = EffectPart(s)
         /\ SubjectPart(u) = SubjectPart(s)
         /\ ActionPart(u) = <<s.rule.action, d, s.local.action, d>>
<1>1. PICK r : r = [s.rule EXCEPT !.actionDetails = d]
  OBVIOUS
<1>2. PICK l : l = [s.local EXCEPT !.actionDetails = d]
  OBVIOUS
<1>3. s.local \in Rule
  BY ServiceFields
<1>4. r \in Rule
  BY <1>1 DEF Rule
<1>5. l \in Rule
  BY <1>2, <1>3 DEF Rule
<1>6. SetActionDetails(s, d) = [s EXCEPT !.rule = r, !.local = l]
  BY <1>1, <1>2, <1>3 DEF SetActionDetails, Service, Rule
<1>7. PICK u : u = SetActionDetails(s, d)
  OBVIOUS
<1>8. u \in Service /\ u.rule = r /\ u.local = l
  BY <1>4, <1>5, <1>6, <1>7 DEF Service
<1>9. TriggerPart(u) = TriggerPart(s)
  BY <1>1, <1>2, <1>3, <1>8 DEF TriggerPart, ActionPart, EffectPart, SubjectPart, Rule
<1>10. EffectPart(u) = EffectPart(s)
  BY <1>1, <1>2, <1>3, <1>8 DEF TriggerPart, ActionPart, EffectPart, SubjectPart, Rule
<1>11. SubjectPart(u) = SubjectPart(s)
  BY <1>1, <1>2, <1>3, <1>8 DEF TriggerPart, ActionPart, EffectPart, SubjectPart, Rule
<1>12. ActionPart(u) = <<s.rule.action, d, s.local.action, d>>
  BY <1>1, <1>2, <1>3, <1>8 DEF TriggerPart, ActionPart, EffectPart, SubjectPart, Rule
<1>13. QED BY <1>4, <1>7, <1>8, <1>9, <1>10, <1>11, <1>12

LEMMA RuleReplaced ==
  ASSUME NEW s \in Service
  PROVE  /\ \A r \in Rule \cup {None} : SetRule(s, r) \in Service
         /\ \A p \in Id \cup {None} : SetRuleProblems(s, p) \in Service
<1>1. ASSUME NEW r \in Rule \cup {None} PROVE SetRule(s, r) \in Service
  <2>1. CASE r = None
    BY <2>1 DEF SetRule, Service
  <2>2. CASE r # None
    <3>1. r \in Rule /\ r.dbId \in Id \cup {None}
      BY <2>2, RuleFields
    <3>2. PICK l : l = [s.local EXCEPT !.dbId = r.dbId]
      OBVIOUS
    <3>3. l \in Rule
      BY <3>1, <3>2, ServiceFields DEF Rule
    <3>4. SetRule(s, r) = [s EXCEPT !.rule = r, !.local = l]
      BY <2>2, <3>2 DEF SetRule, Service
    <3>5. QED BY <3>1, <3>3, <3>4 DEF Service
  <2>3. QED BY <2>1, <2>2
<1>2. \A p \in Id \cup {None} : SetRuleProblems(s, p) \in Service
  BY DEF SetRuleProblems, Service
<1>3. QED BY <1>1, <1>2

LEMMA Cleared ==
  ASSUME NEW s \in Service
  PROVE  LET u == Clear(s) IN u \in Service /\ u.rule = NewRule /\ u.local = NewRule
  BY NewRuleTyped DEF Clear, Service

(***************************************************************************)
(* Types.  The history is as long as it may get at most, and the entries   *)
(* of the composition, of which none is left once it is disturbed, are     *)
(* among it.                                                               *)
(***************************************************************************)
TabTyped ==
  /\ svc \in Service /\ shown \in Rule
  /\ history \in Seq(ComposerPages) /\ pos \in DOMAIN history
  /\ Len(history) <= MaxHistory
  /\ filled \in BOOLEAN /\ (filled => page \in {"triggerDetails", "actionDetails"})
  /\ overtaken \in BOOLEAN

Typed ==
  /\ TabTyped /\ TypeOK
  /\ own \subseteq DOMAIN history /\ (disturbed => own = {})

LEMMA PageTyped == ASSUME TabTyped PROVE page \in ComposerPages
  BY DEF TabTyped, page

LEMMA StayTyped ==
  ASSUME TabTyped, NEW s \in Service, Stay(s), overtaken' \in BOOLEAN
  PROVE  TabTyped' /\ pos' = pos /\ DOMAIN history' = DOMAIN history
  BY DEF TabTyped, Stay, page

LEMMA VisitTyped ==
  ASSUME TabTyped, NEW p \in ComposerPages, NEW s \in Service, Visit(p, s)
  PROVE  TabTyped' /\ pos' = pos + 1 /\ pos \in Nat /\ DOMAIN history' = 1 .. (pos + 1)
<1>1. /\ history' \in Seq(ComposerPages) /\ DOMAIN history' = 1 .. pos' /\ pos' = pos + 1
      /\ pos' \in DOMAIN history' /\ Len(history') <= MaxHistory /\ pos \in Nat
  BY ComposerAssumption, VisitHistory DEF TabTyped, Visit
<1>2. svc' \in Service /\ shown' \in Rule /\ filled' = FALSE /\ overtaken' = FALSE
  BY OpenTypes DEF Visit
<1>3. QED BY <1>1, <1>2 DEF TabTyped

LEMMA GoTyped ==
  ASSUME TabTyped, NEW p \in ComposerPages, NEW s \in Service, Go(p, s)
  PROVE  /\ TabTyped' /\ pos \in Nat
         /\ \/ pos' = pos /\ DOMAIN history' = DOMAIN history
            \/ pos' = pos + 1 /\ DOMAIN history' = 1 .. (pos + 1)
<1>1. CASE p = page
  <2>1. Stay(s) /\ overtaken' \in BOOLEAN
    BY <1>1 DEF Go, TabTyped
  <2>2. QED BY <2>1, StayTyped DEF TabTyped
<1>2. CASE p # page
  <2>1. Visit(p, s)
    BY <1>2 DEF Go
  <2>2. QED BY <2>1, VisitTyped
<1>3. QED BY <1>1, <1>2

LEMMA ContinuesTyped ==
  ASSUME Typed, Continues, pos \in Nat,
         \/ pos' = pos /\ DOMAIN history' = DOMAIN history
         \/ pos' = pos + 1 /\ DOMAIN history' = 1 .. (pos + 1)
  PROVE  /\ own' \subseteq DOMAIN history'
         /\ disturbed' \in BOOLEAN /\ (disturbed' => own' = {})
<1>1. /\ own \subseteq DOMAIN history /\ disturbed' = disturbed /\ disturbed \in BOOLEAN
      /\ disturbed => own = {}
  BY DEF Typed, TypeOK, Continues
<1>2. CASE disturbed
  BY <1>1, <1>2 DEF Continues
<1>3. CASE ~disturbed
  <2>1. own' \subseteq DOMAIN history'
    BY <1>1, <1>3 DEF Continues
  <2>2. QED BY <1>1, <1>3, <2>1
<1>4. QED BY <1>2, <1>3

GhostsTyped ==
  disturbed \in BOOLEAN /\ own \subseteq DOMAIN history /\ (disturbed => own = {})

LEMMA TypedWhole ==
  ASSUME TabTyped', GhostsTyped', checks' \subseteq Id, saved' \in 0 .. MaxSaved
  PROVE  Typed'
<1>1. own' \subseteq 1 .. MaxHistory
  BY ComposerAssumption DEF TabTyped, GhostsTyped
<1>2. QED BY <1>1 DEF Typed, TabTyped, GhostsTyped, TypeOK

\* Going to a page within the composition.
LEMMA GoOnTyped ==
  ASSUME Typed, NEW p \in ComposerPages, NEW s \in Service, Go(p, s), Continues,
         checks' \subseteq Id, saved' \in 0 .. MaxSaved
  PROVE  Typed'
<1>1. TabTyped
  BY DEF Typed
<1>2. GhostsTyped'
  BY <1>1, GoTyped, ContinuesTyped DEF GhostsTyped
<1>3. QED BY <1>1, <1>2, GoTyped, TypedWhole

\* The buttons that lead on from one page of the composition to the next.
LEMMA LeadsOn ==
  ASSUME Typed,
         StartDefinition \/ SelectTrigger \/ CompleteTrigger \/ SelectAction \/ CompleteAction
  PROVE  /\ \E p \in ComposerPages, s \in Service : Go(p, s) /\ p # page
         /\ Continues /\ UNCHANGED tableVars
<1>0. /\ TabTyped /\ svc \in Service /\ shown \in Rule /\ page \in ComposerPages
  BY PageTyped DEF Typed, TabTyped
<1>1. ASSUME NEW p, On(p) PROVE page = p /\ svc.rule \in Rule
  BY <1>0, <1>1, ServiceFields DEF On
<1>2. CASE StartDefinition
  <2>1. PICK x \in Subject : Go("trigger", SetSubject(svc, x))
    BY <1>2 DEF StartDefinition
  <2>2. SetSubject(svc, x) \in Service
    BY <1>0, <1>1, <1>2, SubjectSet DEF StartDefinition
  <2>3. QED BY <1>0, <1>2, <2>1, <2>2 DEF StartDefinition, On, ComposerPages
<1>3. CASE SelectTrigger
  <2>1. PICK t \in Trigger : Go("triggerDetails", SetTrigger(svc, t))
    BY <1>3 DEF SelectTrigger
  <2>2. SetTrigger(svc, t) \in Service
    BY <1>0, <1>1, <1>3, TriggerSet DEF SelectTrigger
  <2>3. QED BY <1>0, <1>3, <2>1, <2>2 DEF SelectTrigger, On, ComposerPages
<1>4. CASE CompleteTrigger
  <2>1. PICK d : d = IF filled THEN shown.trigger ELSE Blank
    OBVIOUS
  <2>2. Go("action", SetTriggerDetails(svc, d)) /\ page = "triggerDetails"
    BY <1>4, <2>1 DEF CompleteTrigger, On
  <2>3. d \in Trigger \cup {Blank}
    BY <1>0, <1>4, <2>1, RuleFields DEF CompleteTrigger, On, Works
  <2>4. SetTriggerDetails(svc, d) \in Service
    BY <1>0, <1>1, <1>4, <2>3, TriggerDetailsSet DEF CompleteTrigger
  <2>5. QED BY <1>0, <1>4, <2>2, <2>4 DEF CompleteTrigger, On, ComposerPages
<1>5. CASE SelectAction
  <2>1. PICK a \in Action : Go("actionDetails", SetAction(svc, a))
    BY <1>5 DEF SelectAction
  <2>2. SetAction(svc, a) \in Service
    BY <1>0, <1>1, <1>5, ActionSet DEF SelectAction
  <2>3. QED BY <1>0, <1>5, <2>1, <2>2 DEF SelectAction, On, ComposerPages
<1>6. CASE CompleteAction
  <2>1. PICK d : d = IF filled THEN shown.action ELSE Blank
    OBVIOUS
  <2>2. PICK e \in Effect : Go("review", SetEffect(SetActionDetails(svc, d), e))
    BY <1>6, <2>1 DEF CompleteAction
  <2>3. d \in Action \cup {Blank}
    BY <1>0, <1>6, <2>1, RuleFields DEF CompleteAction, On, Works
  <2>4. PICK u : u = SetActionDetails(svc, d)
    OBVIOUS
  <2>5. u \in Service /\ u.rule \in Rule
    BY <1>0, <1>1, <1>6, <2>3, <2>4, ActionDetailsSet DEF CompleteAction
  <2>6. SetEffect(u, e) \in Service
    BY <2>5, EffectSet
  <2>7. QED BY <1>0, <1>6, <2>2, <2>4, <2>6 DEF CompleteAction, On, ComposerPages
<1>7. QED BY <1>2, <1>3, <1>4, <1>5, <1>6

LEMMA InitTyped == Init => Typed
<1> SUFFICES ASSUME Init PROVE Typed
  OBVIOUS
<1>1. FreshService \in Service
  BY NewRuleTyped DEF FreshService, Service
<1>2. <<"list">> \in Seq(ComposerPages) /\ Len(<<"list">>) = 1 /\ 1 \in DOMAIN <<"list">>
  BY DEF ComposerPages
<1>3. TabTyped
  <2>1. filled \in BOOLEAN /\ ~filled /\ overtaken \in BOOLEAN
    BY DEF Init
  <2>2. history \in Seq(ComposerPages) /\ pos \in DOMAIN history /\ Len(history) <= MaxHistory
    BY <1>2, ComposerAssumption DEF Init
  <2>3. svc \in Service /\ shown \in Rule
    BY <1>1, NewRuleTyped DEF Init
  <2>4. QED BY <2>1, <2>2, <2>3 DEF TabTyped
<1>4. TypeOK
  <2>1. disturbed \in BOOLEAN /\ own \subseteq 1 .. MaxHistory /\ checks \subseteq Id
    BY DEF Init
  <2>2. saved \in 0 .. MaxSaved
    BY ComposerAssumption DEF Init
  <2>3. QED BY <1>3, <2>1, <2>2 DEF TabTyped, TypeOK
<1>5. QED BY <1>3, <1>4 DEF Init, Typed

LEMMA TypeStep == Typed /\ [Next]_vars => Typed'
<1> SUFFICES ASSUME Typed, [Next]_vars PROVE Typed'
  OBVIOUS
<1>0. /\ TabTyped /\ TypeOK /\ svc \in Service /\ shown \in Rule
      /\ checks \subseteq Id /\ saved \in 0 .. MaxSaved /\ GhostsTyped
      /\ page \in ComposerPages
  BY PageTyped DEF Typed, TypeOK, TabTyped, GhostsTyped
<1>1. CASE NewPolicy
  <2>1. Clear(svc) \in Service /\ "start" \in ComposerPages
    BY <1>0, Cleared DEF ComposerPages
  <2>2. TabTyped' /\ pos' \in DOMAIN history'
    BY <1>0, <1>1, <2>1, GoTyped DEF NewPolicy, TabTyped
  <2>3. QED BY <1>0, <1>1, <2>2, TypedWhole DEF NewPolicy, GhostsTyped, tableVars
<1>2. CASE MyPolicies
  BY <1>0, <1>2, GoOnTyped DEF MyPolicies, ComposerPages, tableVars
<1>3. CASE Turn
  <2>1. history[pos'] \in ComposerPages /\ pos' \in DOMAIN history /\ history' = history
    BY <1>0, <1>3 DEF Turn, TabTyped
  <2>2. svc' \in Service /\ shown' \in Rule /\ filled' = FALSE /\ overtaken' = FALSE
    BY <1>0, <1>3, <2>1, OpenTypes DEF Turn
  <2>3. TabTyped'
    BY <1>0, <2>1, <2>2 DEF TabTyped
  <2>4. GhostsTyped'
    BY <1>0, <1>3, <2>1 DEF Turn, GhostsTyped, Disturbs
  <2>5. QED BY <1>0, <1>3, <2>3, <2>4, TypedWhole DEF Turn, tableVars
<1>4. CASE Reload
  <2>1. Reloaded(svc) \in Service
    BY <1>0, NewRuleTyped DEF Reloaded, Service
  <2>2. svc' \in Service /\ shown' \in Rule /\ filled' = FALSE /\ overtaken' = FALSE
    BY <1>0, <1>4, <2>1, OpenTypes DEF Reload
  <2>3. TabTyped' /\ GhostsTyped'
    BY <1>0, <1>4, <2>2 DEF TabTyped, GhostsTyped, Reload
  <2>4. QED BY <1>0, <1>4, <2>3, TypedWhole DEF Reload, tableVars
<1>5. CASE Compose
  <2> USE DEF tableVars
  <2>1. CASE StartDefinition \/ SelectTrigger \/ CompleteTrigger \/ SelectAction \/ CompleteAction
    BY <1>0, <2>1, LeadsOn, GoOnTyped
  <2>2. CASE FieldsArrive
    <3>1. TabTyped' /\ GhostsTyped'
      BY <1>0, <2>2 DEF FieldsArrive, TabTyped, GhostsTyped, ghostVars, page
    <3>2. QED BY <1>0, <2>2, <3>1, TypedWhole DEF FieldsArrive
  <2>3. CASE FinishSaves \/ FinishFails
    <3>1. GetRule(svc) \in Service
      BY <1>0, <2>3, ServiceFields, GetRuleGives DEF FinishSaves, FinishFails, On, Recalls
    <3>2. CASE FinishSaves /\ Go("list", GetRule(svc))
      <4>1. saved' \in 0 .. MaxSaved /\ checks' \subseteq Id /\ Continues
        BY <1>0, <3>2, ComposerAssumption DEF FinishSaves
      <4>2. QED BY <3>1, <3>2, <4>1, GoOnTyped DEF ComposerPages
    <3>3. CASE FinishSaves /\ Stay(GetRule(svc)) /\ UNCHANGED overtaken
      <4>1. saved' \in 0 .. MaxSaved /\ checks' \subseteq Id /\ Continues
        BY <1>0, <3>3, ComposerAssumption DEF FinishSaves
      <4>2. TabTyped' /\ pos' = pos /\ DOMAIN history' = DOMAIN history /\ pos \in Nat
        BY <1>0, <3>1, <3>3, StayTyped DEF TabTyped
      <4>3. GhostsTyped'
        BY <4>1, <4>2, ContinuesTyped DEF GhostsTyped
      <4>4. QED BY <4>1, <4>2, <4>3, TypedWhole
    <3>4. CASE FinishFails
      <4>1. TabTyped' /\ DOMAIN history' = DOMAIN history
        BY <1>0, <3>1, <3>4, StayTyped DEF TabTyped, FinishFails, ghostVars
      <4>2. GhostsTyped'
        BY <1>0, <3>4, <4>1 DEF GhostsTyped, FinishFails, ghostVars
      <4>3. QED BY <1>0, <3>4, <4>1, <4>2, TypedWhole DEF FinishFails
    <3>5. QED BY <2>3, <3>2, <3>3, <3>4 DEF FinishSaves
  <2>4. QED BY <1>5, <2>1, <2>2, <2>3 DEF Compose
<1>6. CASE Check
  BY <1>0, <1>6
  DEF Check, Typed, TabTyped, TypeOK, GhostsTyped, tabVars, ghostVars, page
<1>7. ASSUME NEW i \in Id, CheckAnswered(i) PROVE Typed'
  <2>1. PICK r \in {Table[i], None} : Stay(SetRule(svc, r))
    BY <1>7 DEF CheckAnswered
  <2>2. SetRule(svc, r) \in Service
    BY <1>0, <2>1, ComposerAssumption, RuleReplaced
  <2>3. TabTyped'
    BY <1>0, <1>7, <2>1, <2>2, StayTyped DEF CheckAnswered
  <2>4. QED BY <1>0, <1>7, <2>3, TypedWhole DEF CheckAnswered, Disturbs, GhostsTyped
<1>8. ASSUME NEW i \in Id, CheckFindsProblems(i) PROVE Typed'
  <2>1. SetRule(svc, Table[i]) \in Service
    BY <1>0, ComposerAssumption, RuleReplaced
  <2>2. SetRuleProblems(SetRule(svc, Table[i]), i) \in Service
    BY <2>1, RuleReplaced
  <2>3. TabTyped'
    BY <1>0, <1>8, <2>2, GoTyped DEF CheckFindsProblems, ComposerPages
  <2>4. QED BY <1>0, <1>8, <2>3, TypedWhole DEF CheckFindsProblems, Disturbs, GhostsTyped
<1>9. ASSUME NEW i \in Id, CheckFails(i) PROVE Typed'
  BY <1>0, <1>9
  DEF CheckFails, Typed, TabTyped, TypeOK, GhostsTyped, tabVars, ghostVars, page
<1>10. CASE UNCHANGED vars
  BY <1>0, <1>10
  DEF vars, Typed, TabTyped, TypeOK, GhostsTyped, tabVars, tableVars, ghostVars, page
<1>11. QED BY <1>1, <1>2, <1>3, <1>4, <1>5, <1>6, <1>7, <1>8, <1>9, <1>10 DEF Next

\* Whatever way the user takes and whenever answers of checks come in, the service
\* keeps policies of the expected form.
THEOREM ComposerTypes == Spec => []TypeOK
<1>1. Typed => TypeOK
  BY DEF Typed
<1>2. QED BY <1>1, InitTyped, TypeStep, PTL DEF Spec

(***************************************************************************)
(* FINISH saves what is shown.                                             *)
(***************************************************************************)
\* What FINISH would send of service s.
Sends(s) == [GetRule(s).rule EXCEPT !.dbId = None]

LEMMA PostedIsSent == Posted = Sends(svc)
  BY DEF Posted, Sends

LEMMA EqualRules ==
  ASSUME NEW r \in Rule, NEW q \in Rule,
         r.trigger = q.trigger, r.triggerDetails = q.triggerDetails,
         r.action = q.action, r.actionDetails = q.actionDetails,
         r.effect = q.effect, r.subject = q.subject, r.dbId = q.dbId
  PROVE  r = q
  BY DEF Rule

LEMMA SentFields ==
  ASSUME NEW s \in Service, s.rule \in Rule
  PROVE  LET r == Sends(s)
             q == GetRule(s).rule IN
         /\ r \in Rule /\ r.dbId = None
         /\ r.trigger = q.trigger /\ r.triggerDetails = q.triggerDetails
         /\ r.action = q.action /\ r.actionDetails = q.actionDetails
         /\ r.effect = q.effect /\ r.subject = q.subject
<1>1. PICK q : q = GetRule(s).rule
  OBVIOUS
<1>2. q \in Rule
  BY <1>1, GetRuleGives DEF Recalls
<1>3. Sends(s) = [q EXCEPT !.dbId = None]
  BY <1>1 DEF Sends
<1>4. QED BY <1>1, <1>2, <1>3 DEF Rule

\* A second getRule finds what the first one has restored.
LEMMA GetRuleAgain ==
  ASSUME NEW s \in Service, s.rule \in Rule
  PROVE  Sends(GetRule(s)) = Sends(s)
<1>1. PICK u : u = GetRule(s)
  OBVIOUS
<1>2. PICK v : v = GetRule(u)
  OBVIOUS
<1>3. u \in Service /\ u.rule \in Rule /\ u.local = s.local
  BY <1>1, GetRuleGives DEF Recalls
<1>4. /\ u.rule.trigger = None \/ u.rule.triggerDetails = None
           => /\ u.rule.trigger = s.local.trigger
              /\ u.rule.triggerDetails =
                   IF s.local.trigger = None THEN None ELSE s.local.triggerDetails
      /\ u.rule.action = None \/ u.rule.actionDetails = None
           => /\ u.rule.action = s.local.action
              /\ u.rule.actionDetails =
                   IF s.local.action = None THEN None ELSE s.local.actionDetails
  BY <1>1, GetRuleGives
<1>5. /\ v.rule.trigger = u.rule.trigger /\ v.rule.triggerDetails = u.rule.triggerDetails
      /\ v.rule.action = u.rule.action /\ v.rule.actionDetails = u.rule.actionDetails
  BY <1>2, <1>3, <1>4, GetRuleGives
<1>6. v.rule.effect = u.rule.effect /\ v.rule.subject = u.rule.subject
  BY <1>1, <1>2, <1>3, GetRuleGives DEF Either
<1>7. Sends(u) \in Rule /\ Sends(s) \in Rule
  BY <1>3, SentFields
<1>8. QED BY <1>1, <1>2, <1>3, <1>5, <1>6, <1>7, SentFields, EqualRules

\* Loading the review page leaves no trigger out that localStorage has.
LEMMA ReviewLoads ==
  ASSUME NEW s \in Service, s.rule \in Rule
  PROVE  LET u == Loaded("review", s) IN
         /\ u \in Service /\ u.rule \in Rule
         /\ \/ None \in {u.rule.action, u.rule.actionDetails}
            \/ u.rule.trigger = None => u.local.trigger = None
<1>1. PICK a : a = GetActionDetails(GetAction(s))
  OBVIOUS
<1>2. PICK t : t = GetTrigger(a)
  OBVIOUS
<1>3. PICK u : u = GetTriggerDetails(t)
  OBVIOUS
<1>4. a \in Service /\ a.rule \in Rule
  BY <1>1, GettersRecall DEF Recalls
<1>5. /\ t \in Service /\ t.rule \in Rule /\ t.local = a.local
      /\ t.rule.trigger = None => t.local.trigger = None
  BY <1>2, <1>4, GettersRecall, TriggerRestored DEF Recalls, GetTrigger
<1>6. u.local = t.local /\ (u.rule.trigger = None => u.local.trigger = None)
  BY <1>3, <1>5, TriggerRestored DEF GetTriggerDetails
<1>7. Loaded("review", s) = IF None \in {a.rule.action, a.rule.actionDetails} THEN a ELSE u
  BY <1>1, <1>2, <1>3 DEF Loaded
<1>8. Loaded("review", s) \in Service /\ Loaded("review", s).rule \in Rule
  BY LoadedRecalls DEF Recalls, ComposerPages
<1>9. QED BY <1>6, <1>7, <1>8

LEMMA ReviewOpened ==
  ASSUME NEW s \in Service, s.rule \in Rule, NEW u, u = Loaded("review", s),
         Works("review", View("review", u)), Storable(Sends(u))
  PROVE  Sends(u) = View("review", u)
<1>1. /\ u \in Service /\ u.rule \in Rule
      /\ \/ None \in {u.rule.action, u.rule.actionDetails}
         \/ u.rule.trigger = None => u.local.trigger = None
  BY ReviewLoads
<1>2. PICK w : w = View("review", u)
  OBVIOUS
<1>3. /\ w \in Rule
      /\ w.trigger = u.rule.trigger /\ w.triggerDetails = u.rule.triggerDetails
      /\ w.action = u.rule.action /\ w.actionDetails = u.rule.actionDetails
      /\ w.effect = Either(u.rule.effect, u.local.effect)
      /\ w.subject = Either(u.rule.subject, u.local.subject) /\ w.dbId = None
  <2>1. PICK e : e = Either(u.rule.effect, u.local.effect)
    OBVIOUS
  <2>2. PICK b : b = Either(u.rule.subject, u.local.subject)
    OBVIOUS
  <2>3. w = [u.rule EXCEPT !.effect = e, !.subject = b, !.dbId = None]
    BY <1>2, <2>1, <2>2 DEF View
  <2>4. w \in Rule
    BY <1>1, <1>2, ViewTyped
  <2>5. QED BY <1>1, <2>1, <2>2, <2>3, <2>4 DEF Rule
<1>4. /\ None \notin {u.rule.action, u.rule.actionDetails}
      /\ u.rule.trigger # None => u.rule.triggerDetails # None
  BY <1>2, <1>3 DEF Works
<1>5. u.rule.trigger # None
  <2>1. Sends(u).trigger # None
    BY DEF Storable
  <2>2. QED BY <1>1, <1>4, <2>1, SentFields, GetRuleGives
<1>6. Sends(u) \in Rule
  BY <1>1, SentFields
<1>7. QED BY <1>1, <1>2, <1>3, <1>4, <1>5, <1>6, SentFields, GetRuleGives, EqualRules

\* On the review page, and unless a check's answer has come in since it was
\* opened, the page shows what FINISH would save.
ReviewShows ==
  /\ page = "review" /\ ~overtaken /\ svc.rule # None
  /\ Works("review", shown) /\ Storable(Posted)
  => shown = Posted

LEMMA OpenShows ==
  ASSUME NEW s \in Service, NEW p \in ComposerPages, Open(p, s), page' = p
  PROVE  ReviewShows'
<1> SUFFICES ASSUME p = "review", Works("review", shown'), Storable(Posted')
             PROVE  shown' = Posted'
  BY DEF ReviewShows
<1>1. /\ svc' = Loaded("review", s) /\ shown' = View("review", svc')
      /\ s.rule \in Rule
  BY ServiceFields DEF Open
<1>2. Posted' = Sends(svc')
  BY DEF Posted, Sends
<1>3. PICK u : u = svc'
  OBVIOUS
<1>4. QED BY <1>1, <1>2, <1>3, ReviewOpened

LEMMA GoShows ==
  ASSUME TabTyped, NEW p \in ComposerPages, p # "review" \/ page # "review",
         NEW s \in Service, Go(p, s)
  PROVE  ReviewShows'
<1>1. CASE p = page
  <2>1. page' = page
    BY <1>1 DEF Go, Stay, page
  <2>2. QED BY <1>1, <2>1 DEF ReviewShows
<1>2. CASE p # page
  <2>1. Visit(p, s)
    BY <1>2 DEF Go
  <2>2. page' = p
    BY <2>1, VisitHistory, ComposerAssumption DEF Visit, TabTyped, page
  <2>3. QED BY <2>1, <2>2, OpenShows DEF Visit
<1>3. QED BY <1>1, <1>2

LEMMA SamePageShows ==
  ASSUME ReviewShows, UNCHANGED <<svc, history, pos, shown, overtaken>>
  PROVE  ReviewShows'
<1>1. page' = page /\ Posted' = Posted /\ svc' = svc /\ shown' = shown
  BY DEF page, Posted
<1>2. overtaken' = overtaken
  OBVIOUS
<1>3. QED BY <1>1, <1>2 DEF ReviewShows

LEMMA GetRuleShows ==
  ASSUME TabTyped, ReviewShows, svc.rule \in Rule, svc.rule # None,
         Stay(GetRule(svc)), UNCHANGED overtaken
  PROVE  ReviewShows'
<1>1. Posted' = Posted
  BY GetRuleAgain DEF Stay, Posted, Sends, TabTyped
<1>2. page' = page /\ shown' = shown /\ overtaken' = overtaken
  BY DEF Stay, page
<1>3. QED BY <1>1, <1>2 DEF ReviewShows

LEMMA ShowsStep == Typed /\ ReviewShows /\ [Next]_vars => ReviewShows'
<1> SUFFICES ASSUME Typed, ReviewShows, [Next]_vars PROVE ReviewShows'
  OBVIOUS
<1>0. TabTyped /\ svc \in Service /\ page \in ComposerPages
  BY PageTyped DEF Typed, TabTyped
<1>1. CASE NewPolicy
  <2>1. Clear(svc) \in Service
    BY <1>0, Cleared
  <2>2. QED BY <1>0, <1>1, <2>1, GoShows DEF NewPolicy, ComposerPages
<1>2. CASE MyPolicies
  BY <1>0, <1>2, GoShows DEF MyPolicies, ComposerPages
<1>3. CASE Turn
  <2>1. history[pos'] \in ComposerPages /\ page' = history[pos'] /\ Open(history[pos'], svc)
    BY <1>0, <1>3 DEF Turn, TabTyped, page
  <2>2. PICK p : p = history[pos']
    OBVIOUS
  <2>3. QED BY <1>0, <2>1, <2>2, OpenShows
<1>4. CASE Reload
  <2>1. Reloaded(svc) \in Service
    BY <1>0, NewRuleTyped DEF Reloaded, Service
  <2>2. PICK p : p = page
    OBVIOUS
  <2>3. PICK s : s = Reloaded(svc)
    OBVIOUS
  <2>4. Open(p, s) /\ page' = p
    BY <1>4, <2>2, <2>3 DEF Reload, page
  <2>5. QED BY <1>0, <2>1, <2>2, <2>3, <2>4, OpenShows
<1>5. CASE Compose
  <2>1. CASE StartDefinition \/ SelectTrigger \/ CompleteTrigger \/ SelectAction \/ CompleteAction
    <3>1. PICK p \in ComposerPages, s \in Service : Go(p, s) /\ p # page
      BY <2>1, LeadsOn
    <3>2. QED BY <1>0, <3>1, GoShows
  <2>2. CASE FieldsArrive
    BY <2>2, SamePageShows DEF FieldsArrive, ghostVars
  <2>3. CASE FinishSaves \/ FinishFails
    <3>1. svc.rule \in Rule /\ svc.rule # None
      BY <1>0, <2>3, ServiceFields DEF FinishSaves, FinishFails, On
    <3>2. GetRule(svc) \in Service
      BY <1>0, <3>1, GetRuleGives DEF Recalls
    <3>3. \/ Go("list", GetRule(svc))
          \/ Stay(GetRule(svc)) /\ UNCHANGED overtaken
      BY <2>3 DEF FinishSaves, FinishFails, ghostVars
    <3>4. QED BY <1>0, <3>1, <3>2, <3>3, GoShows, GetRuleShows DEF ComposerPages
  <2>4. QED BY <1>5, <2>1, <2>2, <2>3 DEF Compose
<1>6. CASE Check \/ UNCHANGED vars \/ \E i \in Id : CheckFails(i)
  BY <1>6, SamePageShows DEF Check, CheckFails, vars, tabVars, ghostVars
<1>7. ASSUME NEW i \in Id, CheckAnswered(i) PROVE ReviewShows'
  BY <1>7 DEF CheckAnswered, ReviewShows
<1>8. ASSUME NEW i \in Id, CheckFindsProblems(i) PROVE ReviewShows'
  <2>1. SetRule(svc, Table[i]) \in Service
    BY <1>0, ComposerAssumption, RuleReplaced
  <2>2. SetRuleProblems(SetRule(svc, Table[i]), i) \in Service
    BY <2>1, RuleReplaced
  <2>3. QED BY <1>0, <1>8, <2>2, GoShows DEF CheckFindsProblems, ComposerPages
<1>9. QED BY <1>1, <1>2, <1>3, <1>4, <1>5, <1>6, <1>7, <1>8 DEF Next

LEMMA ShowsInit == Init => ReviewShows
  BY DEF Init, ReviewShows, page

\* FINISH saves the policy the review page shows, unless a check's answer came
\* between, for every history and any mixture of memory and localStorage.
THEOREM FinishSavesWhatIsShown == Spec => SavedAsShownUnlessOvertaken
<1>1. ReviewShows /\ Typed /\ [Next]_vars => (Saved /\ ~overtaken => Posted = shown)
  <2> SUFFICES ASSUME ReviewShows, Typed, [Next]_vars, Saved, ~overtaken PROVE Posted = shown
    OBVIOUS
  <2>1. FinishSaves
    BY DEF Next, Compose, Saved, NewPolicy, MyPolicies, Turn, Reload, StartDefinition,
           SelectTrigger, FieldsArrive, CompleteTrigger, SelectAction, CompleteAction,
           FinishFails, Check, CheckAnswered, CheckFindsProblems, CheckFails, vars, tableVars
  <2>2. On("review") /\ Storable(Posted)
    BY <2>1 DEF FinishSaves
  <2>3. QED BY <2>2 DEF ReviewShows, On
<1>2. QED
  BY <1>1, InitTyped, TypeStep, ShowsInit, ShowsStep, PTL DEF Spec, SavedAsShownUnlessOvertaken

(***************************************************************************)
(* One composition.  As long as it is not disturbed, the entries of the    *)
(* history that belong to it follow the order of its pages, the memory has *)
(* of each part what localStorage has or nothing, and of the trigger and   *)
(* action whose details page the user has left the details fit.  Before    *)
(* that localStorage may have the details of a trigger chosen earlier.     *)
(***************************************************************************)
Stage(p) ==
  CASE p = "start" -> 1 [] p = "trigger" -> 2 [] p = "triggerDetails" -> 3
    [] p = "action" -> 4 [] p = "actionDetails" -> 5 [] p = "review" -> 6
    [] OTHER -> 7

\* The composition has come to stage k.
Reached(k) == \E i \in own : Stage(history[i]) \in k .. 6

PartsAgree(s) ==
  /\ s.rule.trigger \in {s.local.trigger, None}
  /\ s.rule.action \in {s.local.action, None}
  /\ s.rule.effect \in {s.local.effect, None}
  /\ s.rule.subject \in {s.local.subject, None}

TriggerFits(s) ==
  /\ s.local.trigger # None /\ s.local.triggerDetails \in {s.local.trigger, Blank}
  /\ s.rule.trigger # None => s.rule.triggerDetails = s.local.triggerDetails

ActionFits(s) ==
  /\ s.local.action # None /\ s.local.actionDetails \in {s.local.action, Blank}
  /\ s.rule.action # None => s.rule.actionDetails = s.local.actionDetails

\* What stage k has brought into service s.
FitsStage(s, k) ==
  /\ s \in Service /\ s.rule \in Rule /\ PartsAgree(s)
  /\ k \in 2 .. 6 => s.local.subject # None
  /\ k \in 4 .. 6 => TriggerFits(s)
  /\ k = 6 => ActionFits(s) /\ s.local.effect # None

Composition ==
  ~disturbed =>
    /\ svc.rule \in Rule /\ PartsAgree(svc)
    /\ page \in {"list", "problems"} \/ pos \in own
    /\ \A i, j \in own : i < j => Stage(history[i]) <= Stage(history[j])
    /\ \A i \in own : FitsStage(svc, Stage(history[i]))
    /\ page = "triggerDetails" => shown.trigger = svc.rule.trigger
    /\ page = "actionDetails" => shown.action = svc.rule.action

LEMMA Stages ==
  /\ Stage("start") = 1 /\ Stage("trigger") = 2 /\ Stage("triggerDetails") = 3
  /\ Stage("action") = 4 /\ Stage("actionDetails") = 5 /\ Stage("review") = 6
  /\ Stage("list") = 7 /\ Stage("problems") = 7
  /\ \A p \in ComposerPages : Stage(p) \in 1 .. 7
  BY DEF Stage, ComposerPages

\* Reading changes nothing of it.
LEMMA RecallsFits ==
  ASSUME NEW s, NEW u, Recalls(s, u), PartsAgree(s)
  PROVE  /\ PartsAgree(u) /\ u.rule \in Rule /\ u \in Service
         /\ \A k : FitsStage(s, k) => FitsStage(u, k)
<1>1. PartsAgree(u) /\ u.rule \in Rule /\ u \in Service /\ u.local = s.local
  BY DEF Recalls, PartsAgree, RecallsTrigger, RecallsAction
<1>2. TriggerFits(s) => TriggerFits(u)
  BY DEF Recalls, RecallsTrigger, TriggerFits
<1>3. ActionFits(s) => ActionFits(u)
  BY DEF Recalls, RecallsAction, ActionFits
<1>4. QED BY <1>1, <1>2, <1>3 DEF FitsStage

LEMMA OpenRecalls ==
  ASSUME NEW s \in Service, NEW p \in ComposerPages, Open(p, s), s.rule \in Rule
  PROVE  /\ Recalls(s, svc')
         /\ p = "triggerDetails" => shown'.trigger = svc'.rule.trigger
         /\ p = "actionDetails" => shown'.action = svc'.rule.action
<1>1. svc' = Loaded(p, s) /\ shown' = View(p, svc')
  BY DEF Open
<1>2. Recalls(s, svc')
  BY <1>1, LoadedRecalls
<1>3. CASE p = "triggerDetails"
  BY <1>1, <1>2, <1>3 DEF View, NewRule
<1>4. CASE p = "actionDetails"
  BY <1>1, <1>2, <1>4 DEF View, NewRule
<1>5. QED BY <1>2, <1>3, <1>4

\* Opening a page of the composition, or one that does not belong to it.
LEMMA ComposedOpen ==
  ASSUME NEW s \in Service, NEW p \in ComposerPages, Open(p, s), page' = p,
         s.rule \in Rule, PartsAgree(s),
         p \in {"list", "problems"} \/ pos' \in own',
         \A i, j \in own' : i < j => Stage(history'[i]) <= Stage(history'[j]),
         \A i \in own' : FitsStage(s, Stage(history'[i]))
  PROVE  Composition'
<1>1. /\ Recalls(s, svc')
      /\ p = "triggerDetails" => shown'.trigger = svc'.rule.trigger
      /\ p = "actionDetails" => shown'.action = svc'.rule.action
  BY OpenRecalls
<1>2. PICK u : u = svc'
  OBVIOUS
<1>3. PartsAgree(u) /\ u.rule \in Rule
  BY <1>1, <1>2, RecallsFits
<1>4. \A i \in own' : FitsStage(u, Stage(history'[i]))
  BY <1>1, <1>2, RecallsFits
<1>5. PartsAgree(svc)' /\ (\A i \in own : FitsStage(svc, Stage(history[i])))'
  BY <1>2, <1>3, <1>4 DEF PartsAgree, FitsStage, TriggerFits, ActionFits, Stage
<1>6. QED BY <1>1, <1>2, <1>3, <1>5 DEF Composition, Stage

LEMMA EarlierStageFits ==
  ASSUME NEW s, NEW k \in 1 .. 6, NEW j \in 1 .. k, FitsStage(s, k)
  PROVE  FitsStage(s, j)
  BY DEF FitsStage

\* Making an entry, for the next page of the composition or for the list.
LEMMA ComposedVisit ==
  ASSUME Typed, Composition, ~disturbed, Continues,
         NEW p \in ComposerPages, NEW s \in Service, Visit(p, s),
         s.rule \in Rule, PartsAgree(s),
         \/ p = "list" /\ \A i \in own : FitsStage(s, Stage(history[i]))
         \/ Stage(page) <= Stage(p) /\ Stage(p) <= 6 /\ FitsStage(s, Stage(p))
  PROVE  Composition'
<1>1. /\ pos \in Nat /\ pos' = pos + 1 /\ history'[pos'] = p /\ page' = p
      /\ \A i \in 1 .. pos : history'[i] = history[i]
      /\ pos \in DOMAIN history
  BY VisitHistory, ComposerAssumption DEF Typed, TabTyped, Visit, page
<1>2. own' = (own \cap 1 .. pos) \cup {pos'}
  BY <1>1 DEF Continues
<1>3. \A i \in own : i \in DOMAIN history /\ history[i] \in ComposerPages
  BY DEF Typed, TabTyped
<1>4. \A i \in own : Stage(history[i]) \in 1 .. 7
  BY <1>3, Stages
<1>5. page \in ComposerPages /\ page = history[pos] /\ Stage(page) \in 1 .. 7
  BY PageTyped, Stages DEF Typed, page
<1>6. \A i, j \in own : i < j => Stage(history[i]) <= Stage(history[j])
  BY DEF Composition
<1>7. CASE p = "list" /\ \A i \in own : FitsStage(s, Stage(history[i]))
  <2>1. FitsStage(s, Stage(p)) /\ Stage(p) = 7
    BY <1>7, Stages DEF FitsStage
  <2>2. ASSUME NEW i \in own', NEW j \in own', i < j
        PROVE  Stage(history'[i]) <= Stage(history'[j])
    <3>1. i \in own /\ i \in 1 .. pos
      BY <1>1, <1>2, <2>2
    <3>2. CASE j = pos'
      BY <1>1, <1>4, <2>1, <3>1, <3>2
    <3>3. CASE j # pos'
      BY <1>1, <1>2, <1>6, <2>2, <3>1, <3>3
    <3>4. QED BY <3>2, <3>3
  <2>3. \A i \in own' : FitsStage(s, Stage(history'[i]))
    BY <1>1, <1>2, <1>7, <2>1
  <2>4. QED BY <1>1, <1>2, <2>2, <2>3, ComposedOpen DEF Visit
<1>8. CASE Stage(page) <= Stage(p) /\ Stage(p) <= 6 /\ FitsStage(s, Stage(p))
  <2>1. pos \in own
    BY <1>5, <1>8, Stages DEF Composition
  <2>2. \A i \in own \cap 1 .. pos : Stage(history[i]) <= Stage(p)
    BY <1>1, <1>4, <1>5, <1>6, <1>8, <2>1, Stages
  <2>3. ASSUME NEW i \in own', NEW j \in own', i < j
        PROVE  Stage(history'[i]) <= Stage(history'[j])
    <3>1. i \in own /\ i \in 1 .. pos
      BY <1>1, <1>2, <2>3
    <3>2. CASE j = pos'
      BY <1>1, <2>2, <3>1, <3>2
    <3>3. CASE j # pos'
      BY <1>1, <1>2, <1>6, <2>3, <3>1, <3>3
    <3>4. QED BY <3>2, <3>3
  <2>4. ASSUME NEW i \in own' PROVE FitsStage(s, Stage(history'[i]))
    <3>1. CASE i = pos'
      BY <1>1, <1>8, <3>1
    <3>2. CASE i # pos'
      <4>1. i \in own \cap 1 .. pos /\ history'[i] = history[i]
        BY <1>1, <1>2, <3>2
      <4>2. Stage(p) \in 1 .. 6 /\ Stage(history[i]) \in 1 .. Stage(p)
        BY <1>4, <1>8, <2>2, <4>1, Stages
      <4>3. QED BY <1>8, <4>1, <4>2, EarlierStageFits
    <3>3. QED BY <3>1, <3>2
  <2>5. QED BY <1>1, <1>2, <2>3, <2>4, ComposedOpen DEF Visit
<1>9. QED BY <1>7, <1>8

\* A page that stays, its service read again.
LEMMA ComposedStay ==
  ASSUME Typed, Composition, Recalls(svc, svc'),
         page \notin {"triggerDetails", "actionDetails"} \/ svc' = svc,
         UNCHANGED <<history, pos, shown, disturbed, own>>
  PROVE  Composition'
<1> SUFFICES ASSUME ~disturbed PROVE Composition'
  BY DEF Composition
<1>1. /\ svc.rule \in Rule /\ PartsAgree(svc)
      /\ page \in {"list", "problems"} \/ pos \in own
      /\ \A i, j \in own : i < j => Stage(history[i]) <= Stage(history[j])
      /\ \A i \in own : FitsStage(svc, Stage(history[i]))
      /\ page = "triggerDetails" => shown.trigger = svc.rule.trigger
      /\ page = "actionDetails" => shown.action = svc.rule.action
  BY DEF Composition
<1>2. PICK s : s = svc
  OBVIOUS
<1>3. PICK u : u = svc'
  OBVIOUS
<1>4. PartsAgree(u) /\ u.rule \in Rule /\ \A i \in own : FitsStage(u, Stage(history[i]))
  BY <1>1, <1>2, <1>3, RecallsFits
<1>5. PartsAgree(svc)' /\ (\A i \in own : FitsStage(svc, Stage(history[i])))'
  BY <1>3, <1>4 DEF PartsAgree, FitsStage, TriggerFits, ActionFits, Stage
<1>6. page' = page
  BY DEF page
<1>7. QED BY <1>1, <1>3, <1>4, <1>5, <1>6 DEF Composition, Stage

\* The buttons that lead on, each with what it adds to the service.
LEMMA ComposedLeadsOn ==
  ASSUME Typed, Composition, ~disturbed,
         StartDefinition \/ SelectTrigger \/ CompleteTrigger \/ SelectAction \/ CompleteAction
  PROVE  Composition'
<1>0. /\ TabTyped /\ svc \in Service /\ shown \in Rule /\ page \in ComposerPages
      /\ svc.rule \in Rule /\ PartsAgree(svc) /\ svc.local \in Rule
      /\ page \in {"list", "problems"} \/ pos \in own
      /\ page = "triggerDetails" => shown.trigger = svc.rule.trigger
      /\ page = "actionDetails" => shown.action = svc.rule.action
  BY PageTyped, ServiceFields DEF Typed, TabTyped, Composition
<1>1. page \notin {"list", "problems"} => FitsStage(svc, Stage(page))
  BY <1>0 DEF Composition, page
<1>2. ASSUME NEW p \in ComposerPages, NEW s \in Service, Go(p, s), p # page,
             s.rule \in Rule, PartsAgree(s), Continues,
             Stage(page) <= Stage(p), Stage(p) <= 6, FitsStage(s, Stage(p))
      PROVE  Composition'
  BY <1>2, ComposedVisit DEF Go
<1>3. CASE StartDefinition
  <2>1. PICK x \in Subject : Go("trigger", SetSubject(svc, x))
    BY <1>3 DEF StartDefinition
  <2>2. PICK u : u = SetSubject(svc, x)
    OBVIOUS
  <2>3. /\ u \in Service /\ u.rule \in Rule
        /\ TriggerPart(u) = TriggerPart(svc) /\ ActionPart(u) = ActionPart(svc)
        /\ EffectPart(u) = EffectPart(svc) /\ SubjectPart(u) = <<x, x>>
    BY <1>0, <2>2, SubjectSet
  <2>4. PartsAgree(u)
    BY <1>0, <2>3 DEF PartsAgree, TriggerPart, ActionPart, EffectPart, SubjectPart
  <2>5. x # None
    BY RuleServiceAssumption
  <2>6. FitsStage(u, 2)
    BY <2>3, <2>4, <2>5 DEF FitsStage, SubjectPart
  <2>7. page = "start" /\ Continues
    BY <1>3 DEF StartDefinition, On
  <2>8. QED BY <1>2, <2>1, <2>2, <2>3, <2>4, <2>6, <2>7, Stages DEF ComposerPages
<1>4. CASE SelectTrigger
  <2>1. PICK t \in Trigger : Go("triggerDetails", SetTrigger(svc, t))
    BY <1>4 DEF SelectTrigger
  <2>2. PICK u : u = SetTrigger(svc, t)
    OBVIOUS
  <2>3. /\ u \in Service /\ u.rule \in Rule
        /\ TriggerPart(u) = <<t, Blank, t, svc.local.triggerDetails>>
        /\ ActionPart(u) = ActionPart(svc)
        /\ EffectPart(u) = EffectPart(svc) /\ SubjectPart(u) = SubjectPart(svc)
    BY <1>0, <2>2, TriggerSet
  <2>4. PartsAgree(u)
    BY <1>0, <2>3 DEF PartsAgree, TriggerPart, ActionPart, EffectPart, SubjectPart
  <2>5. page = "trigger" /\ Continues
    BY <1>4 DEF SelectTrigger, On
  <2>6. svc.local.subject # None
    BY <1>1, <2>5, Stages DEF FitsStage
  <2>7. FitsStage(u, 3)
    BY <2>3, <2>4, <2>6 DEF FitsStage, SubjectPart
  <2>8. QED BY <1>2, <2>1, <2>2, <2>3, <2>4, <2>5, <2>7, Stages DEF ComposerPages
<1>5. CASE CompleteTrigger
  <2>1. PICK d : d = IF filled THEN shown.trigger ELSE Blank
    OBVIOUS
  <2>2. /\ Go("action", SetTriggerDetails(svc, d)) /\ page = "triggerDetails" /\ Continues
        /\ svc.rule.trigger # None
    BY <1>5, <2>1 DEF CompleteTrigger, On
  <2>3. d \in {svc.rule.trigger, Blank} /\ d \in Trigger \cup {Blank}
    BY <1>0, <2>1, <2>2, RuleFields
  <2>4. PICK u : u = SetTriggerDetails(svc, d)
    OBVIOUS
  <2>5. /\ u \in Service /\ u.rule \in Rule
        /\ TriggerPart(u) = <<svc.rule.trigger, d, svc.local.trigger, d>>
        /\ ActionPart(u) = ActionPart(svc)
        /\ EffectPart(u) = EffectPart(svc) /\ SubjectPart(u) = SubjectPart(svc)
    BY <1>0, <2>3, <2>4, TriggerDetailsSet
  <2>6. PartsAgree(u)
    BY <1>0, <2>5 DEF PartsAgree, TriggerPart, ActionPart, EffectPart, SubjectPart
  <2>7. svc.local.subject # None
    BY <1>1, <2>2, Stages DEF FitsStage
  <2>8. svc.local.trigger = svc.rule.trigger
    BY <1>0, <2>2 DEF PartsAgree
  <2>9. TriggerFits(u)
    BY <2>2, <2>3, <2>5, <2>8 DEF TriggerFits, TriggerPart
  <2>10. FitsStage(u, 4)
    BY <2>5, <2>6, <2>7, <2>9 DEF FitsStage, SubjectPart
  <2>11. QED BY <1>2, <2>2, <2>4, <2>5, <2>6, <2>10, Stages DEF ComposerPages
<1>6. CASE SelectAction
  <2>1. PICK a \in Action : Go("actionDetails", SetAction(svc, a))
    BY <1>6 DEF SelectAction
  <2>2. PICK u : u = SetAction(svc, a)
    OBVIOUS
  <2>3. /\ u \in Service /\ u.rule \in Rule
        /\ ActionPart(u) = <<a, Blank, a, svc.local.actionDetails>>
        /\ TriggerPart(u) = TriggerPart(svc)
        /\ EffectPart(u) = EffectPart(svc) /\ SubjectPart(u) = SubjectPart(svc)
    BY <1>0, <2>2, ActionSet
  <2>4. PartsAgree(u)
    BY <1>0, <2>3 DEF PartsAgree, TriggerPart, ActionPart, EffectPart, SubjectPart
  <2>5. page = "action" /\ Continues
    BY <1>6 DEF SelectAction, On
  <2>6. svc.local.subject # None /\ TriggerFits(svc)
    BY <1>1, <2>5, Stages DEF FitsStage
  <2>7. TriggerFits(u)
    BY <2>3, <2>6 DEF TriggerFits, TriggerPart
  <2>8. FitsStage(u, 5)
    BY <2>3, <2>4, <2>6, <2>7 DEF FitsStage, SubjectPart
  <2>9. QED BY <1>2, <2>1, <2>2, <2>3, <2>4, <2>5, <2>8, Stages DEF ComposerPages
<1>7. CASE CompleteAction
  <2>1. PICK d : d = IF filled THEN shown.action ELSE Blank
    OBVIOUS
  <2>2. PICK e \in Effect : Go("review", SetEffect(SetActionDetails(svc, d), e))
    BY <1>7, <2>1 DEF CompleteAction
  <2>3. page = "actionDetails" /\ Continues /\ svc.rule.action # None
    BY <1>7 DEF CompleteAction, On
  <2>4. d \in {svc.rule.action, Blank} /\ d \in Action \cup {Blank}
    BY <1>0, <2>1, <2>3, RuleFields
  <2>5. PICK v : v = SetActionDetails(svc, d)
    OBVIOUS
  <2>6. PICK u : u = SetEffect(v, e)
    OBVIOUS
  <2>7. /\ v \in Service /\ v.rule \in Rule
        /\ ActionPart(v) = <<svc.rule.action, d, svc.local.action, d>>
        /\ TriggerPart(v) = TriggerPart(svc) /\ SubjectPart(v) = SubjectPart(svc)
    BY <1>0, <2>4, <2>5, ActionDetailsSet
  <2>8. /\ u \in Service /\ u.rule \in Rule
        /\ ActionPart(u) = <<svc.rule.action, d, svc.local.action, d>>
        /\ TriggerPart(u) = TriggerPart(svc) /\ SubjectPart(u) = SubjectPart(svc)
        /\ EffectPart(u) = <<e, e>>
    BY <2>6, <2>7, EffectSet
  <2>9. PartsAgree(u)
    BY <1>0, <2>8 DEF PartsAgree, TriggerPart, ActionPart, EffectPart, SubjectPart
  <2>10. svc.local.subject # None /\ TriggerFits(svc)
    BY <1>1, <2>3, Stages DEF FitsStage
  <2>11. TriggerFits(u)
    BY <2>8, <2>10 DEF TriggerFits, TriggerPart
  <2>12. ActionFits(u)
    <3>1. svc.local.action = svc.rule.action
      BY <1>0, <2>3 DEF PartsAgree
    <3>2. QED BY <2>3, <2>4, <2>8, <3>1 DEF ActionFits, ActionPart
  <2>13. e # None
    BY RuleServiceAssumption
  <2>14. FitsStage(u, 6)
    BY <2>8, <2>9, <2>10, <2>11, <2>12, <2>13 DEF FitsStage, SubjectPart, EffectPart
  <2>15. Go("review", u)
    BY <2>2, <2>5, <2>6
  <2>16. QED BY <1>2, <2>3, <2>8, <2>9, <2>14, <2>15, Stages DEF ComposerPages
<1>8. QED BY <1>3, <1>4, <1>5, <1>6, <1>7

LEMMA ComposedInit == Init => Composition
<1> SUFFICES ASSUME Init PROVE Composition
  OBVIOUS
<1>1. svc = FreshService /\ page = "list" /\ own = {}
  BY DEF Init, page
<1>2. svc.rule = NewRule /\ svc.local = NewRule
  BY <1>1 DEF FreshService
<1>3. svc.rule \in Rule /\ PartsAgree(svc)
  BY <1>2, NewRuleTyped DEF PartsAgree
<1>4. QED BY <1>1, <1>3 DEF Composition

LEMMA ComposedStep == Typed /\ Composition /\ [Next]_vars => Composition'
<1> SUFFICES ASSUME Typed, Composition, [Next]_vars, ~disturbed' PROVE Composition'
  BY DEF Composition
<1>0. /\ TabTyped /\ svc \in Service /\ page \in ComposerPages /\ page = history[pos]
      /\ pos \in DOMAIN history
  BY PageTyped DEF Typed, TabTyped, page
<1>1. CASE NewPolicy
  <2>1. PICK s : s = Clear(svc)
    OBVIOUS
  <2>2. s \in Service /\ s.rule = NewRule /\ s.local = NewRule
    BY <1>0, <2>1, Cleared
  <2>3. s.rule \in Rule /\ PartsAgree(s) /\ FitsStage(s, Stage("start"))
    BY <2>2, NewRuleTyped, Stages DEF PartsAgree, FitsStage
  <2>4. Go("start", s) /\ own' = {pos'}
    BY <1>1, <2>1 DEF NewPolicy
  <2>5. CASE page = "start"
    <3>1. svc' = s /\ history' = history /\ pos' = pos /\ page' = "start"
      BY <2>4, <2>5 DEF Go, Stay, page
    <3>2. \A i, j \in own' : i = j /\ history'[i] = "start"
      BY <1>0, <2>4, <2>5, <3>1
    <3>3. own' = {pos} /\ \A i, j \in own' : ~(i < j)
      BY <1>0, <2>4, <3>1 DEF TabTyped
    <3>4. PartsAgree(svc)' /\ (\A i \in own : FitsStage(svc, Stage(history[i])))'
      BY <2>3, <3>1, <3>2 DEF PartsAgree, FitsStage, TriggerFits, ActionFits, Stage
    <3>5. QED BY <2>3, <2>4, <3>1, <3>3, <3>4 DEF Composition
  <2>6. CASE page # "start"
    <3>1. Visit("start", s)
      BY <2>4, <2>6 DEF Go
    <3>2. page' = "start" /\ history'[pos'] = "start" /\ pos' \in Nat
      BY <1>0, <3>1, VisitHistory, ComposerAssumption
      DEF TabTyped, Visit, page, ComposerPages
    <3>3. \A i, j \in own' : ~(i < j) /\ history'[i] = "start"
      BY <2>4, <3>2
    <3>4. QED BY <2>2, <2>3, <2>4, <3>1, <3>2, <3>3, ComposedOpen DEF Visit, ComposerPages
  <2>7. QED BY <2>5, <2>6
<1>2. CASE MyPolicies
  <2>1. ~disturbed /\ disturbed' = disturbed /\ Go("list", svc) /\ Continues
    BY <1>2 DEF MyPolicies, Continues
  <2>2. svc.rule \in Rule /\ PartsAgree(svc) /\ \A i \in own : FitsStage(svc, Stage(history[i]))
    BY <2>1 DEF Composition
  <2>3. CASE page = "list"
    <3>1. svc' = svc /\ UNCHANGED <<history, pos, shown, disturbed, own>>
      BY <2>1, <2>3 DEF Go, Stay, Continues
    <3>2. QED BY <1>0, <2>2, <3>1, RecallsItself, ComposedStay
  <2>4. CASE page # "list"
    BY <1>0, <2>1, <2>2, <2>4, ComposedVisit DEF Go, ComposerPages
  <2>5. QED BY <2>3, <2>4
<1>3. CASE Turn
  <2>1. PICK p : p = history[pos']
    OBVIOUS
  <2>2. /\ p \in ComposerPages /\ page' = p /\ Open(p, svc) /\ history' = history
        /\ pos' \in own \/ p \in {"list", "problems"}
        /\ own' = own /\ ~disturbed
    BY <1>0, <1>3, <2>1 DEF Turn, TabTyped, page, Disturbs
  <2>3. /\ svc.rule \in Rule /\ PartsAgree(svc)
        /\ \A i \in own : FitsStage(svc, Stage(history[i]))
        /\ \A i, j \in own : i < j => Stage(history[i]) <= Stage(history[j])
    BY <2>2 DEF Composition
  <2>4. PICK s : s = svc
    OBVIOUS
  <2>5. QED BY <1>0, <2>2, <2>3, <2>4, ComposedOpen
<1>4. CASE Reload
  <2>1. PICK s : s = Reloaded(svc)
    OBVIOUS
  <2>2. PICK p : p = page
    OBVIOUS
  <2>3. /\ Open(p, s) /\ page' = p /\ history' = history /\ pos' = pos
        /\ own' = own /\ ~disturbed
    BY <1>4, <2>1, <2>2 DEF Reload, page
  <2>4. /\ svc.rule \in Rule /\ PartsAgree(svc)
        /\ p \in {"list", "problems"} \/ pos \in own
        /\ \A i \in own : FitsStage(svc, Stage(history[i]))
        /\ \A i, j \in own : i < j => Stage(history[i]) <= Stage(history[j])
    BY <2>2, <2>3 DEF Composition
  <2>5. Recalls(svc, s)
    BY <1>0, <2>1, <2>4, GettersRecall
  <2>6. /\ s \in Service /\ s.rule \in Rule /\ PartsAgree(s)
        /\ \A i \in own : FitsStage(s, Stage(history[i]))
    BY <2>4, <2>5, RecallsFits
  <2>7. QED BY <1>0, <2>2, <2>3, <2>4, <2>6, ComposedOpen
<1>5. CASE Compose
  <2>1. ~disturbed
    BY <1>5 DEF Compose, StartDefinition, SelectTrigger, FieldsArrive, CompleteTrigger,
                SelectAction, CompleteAction, FinishSaves, FinishFails, Continues, ghostVars
  <2>2. /\ svc.rule \in Rule /\ PartsAgree(svc)
        /\ \A i \in own : FitsStage(svc, Stage(history[i]))
    BY <2>1 DEF Composition
  <2>3. CASE FieldsArrive
    <3>1. svc' = svc /\ UNCHANGED <<history, pos, shown, disturbed, own>>
      BY <2>3 DEF FieldsArrive, ghostVars
    <3>2. QED BY <1>0, <2>2, <3>1, RecallsItself, ComposedStay
  <2>4. CASE FinishSaves \/ FinishFails
    <3>1. page = "review"
      BY <2>4 DEF FinishSaves, FinishFails, On
    <3>2. PICK u : u = GetRule(svc)
      OBVIOUS
    <3>3. Recalls(svc, u)
      BY <1>0, <2>2, <3>2, GetRuleGives
    <3>4. /\ u \in Service /\ u.rule \in Rule /\ PartsAgree(u)
          /\ \A i \in own : FitsStage(u, Stage(history[i]))
      BY <2>2, <3>3, RecallsFits
    <3>5. \/ Go("list", u) /\ Continues
          \/ Stay(u) /\ UNCHANGED <<disturbed, own>>
      BY <2>4, <3>2 DEF FinishSaves, FinishFails, ghostVars, Continues, Stay
    <3>6. CASE Go("list", u) /\ Continues
      <4>1. Visit("list", u)
        BY <3>1, <3>6 DEF Go
      <4>2. QED BY <2>1, <3>4, <3>6, <4>1, ComposedVisit DEF ComposerPages
    <3>7. CASE Stay(u) /\ UNCHANGED <<disturbed, own>>
      BY <3>1, <3>3, <3>7, ComposedStay DEF Stay
    <3>8. QED BY <3>5, <3>6, <3>7
  <2>5. QED BY <1>5, <2>1, <2>3, <2>4, ComposedLeadsOn DEF Compose
<1>6. CASE Check \/ UNCHANGED vars \/ \E i \in Id : CheckFails(i)
  <2>1. svc' = svc /\ UNCHANGED <<history, pos, shown, disturbed, own>>
    BY <1>6 DEF Check, CheckFails, vars, tabVars, ghostVars
  <2>2. svc.rule \in Rule
    BY <2>1 DEF Composition
  <2>3. QED BY <1>0, <2>1, <2>2, RecallsItself, ComposedStay
<1>7. ASSUME NEW i \in Id, CheckAnswered(i) \/ CheckFindsProblems(i) PROVE FALSE
  BY <1>7 DEF CheckAnswered, CheckFindsProblems, Disturbs
<1>8. QED BY <1>1, <1>2, <1>3, <1>4, <1>5, <1>6, <1>7 DEF Next

\* On the review page of an undisturbed composition FINISH would send what
\* localStorage has, and that fits together.
LEMMA ReviewIsStored ==
  ASSUME Typed, Composition, ~disturbed, page = "review"
  PROVE  /\ Posted \in Rule /\ Posted.dbId = None
         /\ Posted.trigger = svc.local.trigger
         /\ Posted.triggerDetails = svc.local.triggerDetails
         /\ Posted.action = svc.local.action
         /\ Posted.actionDetails = svc.local.actionDetails
         /\ Posted.effect = svc.local.effect /\ Posted.subject = svc.local.subject
         /\ FitsStage(svc, 6)
<1>1. FitsStage(svc, 6) /\ svc \in Service /\ svc.rule \in Rule
  BY Stages DEF Composition, page, Typed, TabTyped
<1>2. /\ TriggerFits(svc) /\ ActionFits(svc) /\ PartsAgree(svc)
      /\ svc.local.effect # None /\ svc.local.subject # None
  BY <1>1 DEF FitsStage
<1>3. PICK s : s = svc
  OBVIOUS
<1>4. /\ s \in Service /\ s.rule \in Rule
      /\ TriggerFits(s) /\ ActionFits(s) /\ PartsAgree(s)
  BY <1>1, <1>2, <1>3
<1>5. PICK q : q = GetRule(s).rule
  OBVIOUS
<1>6. q.trigger = s.local.trigger /\ q.triggerDetails = s.local.triggerDetails
  BY <1>4, <1>5, GetRuleGives DEF TriggerFits, PartsAgree
<1>7. q.action = s.local.action /\ q.actionDetails = s.local.actionDetails
  BY <1>4, <1>5, GetRuleGives DEF ActionFits, PartsAgree
<1>8. q.effect = s.local.effect /\ q.subject = s.local.subject
  BY <1>4, <1>5, GetRuleGives DEF PartsAgree, Either
<1>9. Posted = Sends(s)
  BY <1>3, PostedIsSent
<1>10. QED BY <1>1, <1>3, <1>4, <1>5, <1>6, <1>7, <1>8, <1>9, SentFields

\* Whatever way within one composition has led to FINISH, what it saves fits
\* together and is complete.
THEOREM SavedPoliciesFit == Spec => SavedFits
<1>1. /\ Composition /\ Typed /\ [Next]_vars
      => (Saved /\ ~disturbed =>
           /\ Posted.triggerDetails \in {Posted.trigger, Blank}
           /\ Posted.actionDetails \in {Posted.action, Blank}
           /\ None \notin {Posted.effect, Posted.subject})
  <2> SUFFICES ASSUME Composition, Typed, [Next]_vars, Saved, ~disturbed
               PROVE  /\ Posted.triggerDetails \in {Posted.trigger, Blank}
                      /\ Posted.actionDetails \in {Posted.action, Blank}
                      /\ None \notin {Posted.effect, Posted.subject}
    OBVIOUS
  <2>1. page = "review"
    BY DEF Next, Compose, Saved, NewPolicy, MyPolicies, Turn, Reload, StartDefinition,
           SelectTrigger, FieldsArrive, CompleteTrigger, SelectAction, CompleteAction,
           FinishFails, Check, CheckAnswered, CheckFindsProblems, CheckFails, vars, tableVars,
           FinishSaves, On
  <2>2. QED BY <2>1, ReviewIsStored DEF FitsStage, TriggerFits, ActionFits
<1>2. QED
  BY <1>1, InitTyped, TypeStep, ComposedInit, ComposedStep, PTL DEF Spec, SavedFits

\* A reload of the review page within one composition keeps what FINISH saves.
THEOREM ReloadsKeepThePolicy == Spec => ReloadKeepsPolicy
<1>1. /\ Composition /\ Typed /\ Composition' /\ Typed' /\ [Next]_vars
      => (Reload /\ page = "review" /\ ~disturbed => Posted' = Posted)
  <2> SUFFICES ASSUME Composition, Typed, Composition', Typed',
                      Reload, page = "review", ~disturbed
               PROVE  Posted' = Posted
    OBVIOUS
  <2>1. page' = "review" /\ ~disturbed'
    BY DEF Reload, page
  <2>2. svc'.local = svc.local
    <3>1. PICK s : s = Reloaded(svc)
      OBVIOUS
    <3>2. svc.rule \in Rule /\ svc \in Service
      BY DEF Composition, Typed, TabTyped
    <3>3. s \in Service /\ s.rule \in Rule /\ s.local = svc.local
      BY <3>1, <3>2, GettersRecall DEF Recalls
    <3>4. Open("review", s)
      BY <3>1 DEF Reload
    <3>5. QED BY <3>3, <3>4, OpenRecalls DEF Recalls, ComposerPages
  <2>3. /\ Posted \in Rule /\ Posted.dbId = None
        /\ Posted.trigger = svc.local.trigger
        /\ Posted.triggerDetails = svc.local.triggerDetails
        /\ Posted.action = svc.local.action
        /\ Posted.actionDetails = svc.local.actionDetails
        /\ Posted.effect = svc.local.effect /\ Posted.subject = svc.local.subject
    BY ReviewIsStored
  <2>4. (Typed /\ Composition /\ ~disturbed /\ page = "review"
          => /\ Posted \in Rule /\ Posted.dbId = None
             /\ Posted.trigger = svc.local.trigger
             /\ Posted.triggerDetails = svc.local.triggerDetails
             /\ Posted.action = svc.local.action
             /\ Posted.actionDetails = svc.local.actionDetails
             /\ Posted.effect = svc.local.effect /\ Posted.subject = svc.local.subject)'
    BY ReviewIsStored, PTL
  <2>5. QED BY <2>1, <2>2, <2>3, <2>4, EqualRules
<1>2. QED
  BY <1>1, InitTyped, TypeStep, ComposedInit, ComposedStep, PTL DEF Spec, ReloadKeepsPolicy

=============================================================================
