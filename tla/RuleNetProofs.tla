---------------------------- MODULE RuleNetProofs ----------------------------
(***************************************************************************)
(* Facts about the net that buildNet makes of a rule set: its places and   *)
(* transitions, the token game, and which rules a token can reach.  They   *)
(* hold for every rule set, loops included.                                *)
(***************************************************************************)
EXTENDS RuleNet, FiniteSetTheorems, TLAPS

(***************************************************************************)
(* Facts about the net.                                                    *)
(***************************************************************************)

\* The colour of the tokens a place is made for.
ColourOf(p) ==
  CASE p[1] = "trigger" -> p[2]
    [] p[1] = "action" -> p[2]
    [] p[1] = "triggerCopy" -> TrigOf[p[2]]
    [] p[1] = "actionCopy" -> p[2][1]

\* The four kinds of place are places, have their colour, and differ.
LEMMA Places ==
  /\ \A t \in Trigger : TriggerPlace(t) \in Place /\ ColourOf(TriggerPlace(t)) = t
  /\ \A a \in Action : ActionPlace(a) \in Place /\ ColourOf(ActionPlace(a)) = a
  /\ \A r \in Rule : /\ CopyOfTrigger(r) \in Place
                     /\ ColourOf(CopyOfTrigger(r)) = TrigOf[r]
  /\ \A a \in Action, t \in Trigger : /\ CopyOfAction(a, t) \in Place
                                      /\ ColourOf(CopyOfAction(a, t)) = a
<1>1. ASSUME NEW a \in Action, NEW t \in Trigger
      PROVE  CopyOfAction(a, t) \in Place
  <2>1. /\ <<a, t>> \in Action \X Trigger
        /\ CopyOfAction(<<a, t>>[1], <<a, t>>[2]) = CopyOfAction(a, t)
    BY DEF CopyOfAction
  <2> QED BY <2>1 DEF Place
<1>2. \A r \in Rule : CopyOfTrigger(r) \in Place
  BY DEF Place
<1>3. /\ \A t \in Trigger : TriggerPlace(t) \in Place
      /\ \A a \in Action : ActionPlace(a) \in Place
  BY DEF Place
<1>4. \A t \in Trigger : ColourOf(TriggerPlace(t)) = t
  BY DEF ColourOf, TriggerPlace
<1>5. \A a \in Action : ColourOf(ActionPlace(a)) = a
  BY DEF ColourOf, ActionPlace
<1>6. \A r \in Rule : ColourOf(CopyOfTrigger(r)) = TrigOf[r]
  BY DEF ColourOf, CopyOfTrigger
<1>7. \A a \in Action, t \in Trigger : ColourOf(CopyOfAction(a, t)) = a
  BY DEF ColourOf, CopyOfAction
<1> QED BY <1>1, <1>2, <1>3, <1>4, <1>5, <1>6, <1>7

\* Places are told apart by their kind and by what they are made for.
LEMMA PlacesDiffer ==
  /\ \A x, y : TriggerPlace(x) # ActionPlace(y)
  /\ \A x, y : TriggerPlace(x) # CopyOfTrigger(y)
  /\ \A x, y, z : TriggerPlace(x) # CopyOfAction(y, z)
  /\ \A x, y : ActionPlace(x) # CopyOfTrigger(y)
  /\ \A x, y, z : ActionPlace(x) # CopyOfAction(y, z)
  /\ \A x, y, z : CopyOfTrigger(x) # CopyOfAction(y, z)
  /\ \A x, y : TriggerPlace(x) = TriggerPlace(y) => x = y
  /\ \A x, y : ActionPlace(x) = ActionPlace(y) => x = y
  /\ \A x, y : CopyOfTrigger(x) = CopyOfTrigger(y) => x = y
  /\ \A x, y, u, v : CopyOfAction(x, y) = CopyOfAction(u, v) => x = u /\ y = v
BY DEF TriggerPlace, ActionPlace, CopyOfTrigger, CopyOfAction

\* The four kinds of transition buildNet makes.
FiresRule(rs, tr, r) ==
  /\ r \in rs
  /\ tr = Transition(r, RuleInput(rs, r), {ActionPlace(ActOf[r])}, TrigOf[r], ActOf[r])

CopiesTrigger(rs, tr, t) ==
  /\ t \in NetTriggers(rs)
  /\ ~IsSingle(RulesByTrigger(rs, t))
  /\ tr = Transition(NoRule, TriggerPlace(t),
                     {CopyOfTrigger(r) : r \in RulesByTrigger(rs, t)}, t, t)

CausesTrigger(rs, tr, a, t) ==
  /\ a \in NetActions(rs) /\ t \in NetTriggers(rs)
  /\ t \in TriggeredTriggers(rs, a)
  /\ tr = Transition(NoRule, TriggerInput(rs, a, t), {TriggerPlace(t)}, a, t)

CopiesAction(rs, tr, a) ==
  /\ a \in NetActions(rs)
  /\ TriggeredTriggers(rs, a) # {}
  /\ ~IsSingle(TriggeredTriggers(rs, a))
  /\ tr = Transition(NoRule, ActionPlace(a),
                     {CopyOfAction(a, t) : t \in TriggeredTriggers(rs, a)}, a, a)

LEMMA NetKinds ==
  ASSUME NEW rs, NEW tr
  PROVE  tr \in Net(rs) <=>
           \/ \E r \in rs : FiresRule(rs, tr, r)
           \/ \E t \in NetTriggers(rs) : CopiesTrigger(rs, tr, t)
           \/ \E a \in NetActions(rs), t \in NetTriggers(rs) : CausesTrigger(rs, tr, a, t)
           \/ \E a \in NetActions(rs) : CopiesAction(rs, tr, a)
<1>1. tr \in RuleTransitions(rs) <=> \E r \in rs : FiresRule(rs, tr, r)
  BY DEF RuleTransitions, FiresRule
<1>2. tr \in TriggerCopies(rs) <=> \E t \in NetTriggers(rs) : CopiesTrigger(rs, tr, t)
  BY DEF TriggerCopies, CopiesTrigger
<1>3. tr \in TriggerTransitions(rs)
        <=> \E a \in NetActions(rs), t \in NetTriggers(rs) : CausesTrigger(rs, tr, a, t)
  <2>1. ASSUME NEW a \in NetActions(rs), NEW t \in NetTriggers(rs),
               CausesTrigger(rs, tr, a, t)
        PROVE  tr \in TriggerTransitions(rs)
    <3>1. <<a, t>> \in CausedPairs(rs) /\ <<a, t>>[1] = a /\ <<a, t>>[2] = t
      BY <2>1 DEF CausesTrigger, CausedPairs
    <3> QED BY <2>1, <3>1 DEF CausesTrigger, TriggerTransitions
  <2>2. ASSUME tr \in TriggerTransitions(rs)
        PROVE  \E a \in NetActions(rs), t \in NetTriggers(rs) : CausesTrigger(rs, tr, a, t)
    BY <2>2 DEF TriggerTransitions, CausesTrigger, CausedPairs
  <2> QED BY <2>1, <2>2
<1>4. tr \in ActionCopies(rs) <=> \E a \in NetActions(rs) : CopiesAction(rs, tr, a)
  BY DEF ActionCopies, CopiesAction
<1> QED BY <1>1, <1>2, <1>3, <1>4 DEF Net

\* What a transition's input place tells about the transition.
LEMMA InputOfRule ==
  ASSUME NEW rs, NEW tr, NEW r, FiresRule(rs, tr, r)
  PROVE  \/ tr.in = TriggerPlace(TrigOf[r]) /\ RulesByTrigger(rs, TrigOf[r]) = {r}
         \/ tr.in = CopyOfTrigger(r) /\ ~IsSingle(RulesByTrigger(rs, TrigOf[r]))
BY DEF FiresRule, Transition, RuleInput, IsSingle, RulesByTrigger

LEMMA InputOfCause ==
  ASSUME NEW rs, NEW tr, NEW a, NEW t, CausesTrigger(rs, tr, a, t)
  PROVE  \/ tr.in = ActionPlace(a) /\ TriggeredTriggers(rs, a) = {t}
         \/ tr.in = CopyOfAction(a, t) /\ ~IsSingle(TriggeredTriggers(rs, a))
BY DEF CausesTrigger, Transition, TriggerInput, IsSingle

LEMMA InputOfCopies ==
  ASSUME NEW rs, NEW tr
  PROVE  /\ \A t : CopiesTrigger(rs, tr, t) => tr.in = TriggerPlace(t)
         /\ \A a : CopiesAction(rs, tr, a) => tr.in = ActionPlace(a)
BY DEF CopiesTrigger, CopiesAction, Transition

\* No two transitions have the same input place.
LEMMA UniqueInput ==
  ASSUME NEW rs, NEW x \in Net(rs), NEW y \in Net(rs), x.in = y.in
  PROVE  x = y
<1>1. ASSUME NEW r, FiresRule(rs, x, r) PROVE x = y
  <2>1. CASE \E s \in rs : FiresRule(rs, y, s)
    <3>1. PICK s \in rs : FiresRule(rs, y, s)
      BY <2>1
    <3>2. r = s
      <4>1. CASE x.in = CopyOfTrigger(r)
        <5>1. y.in = TriggerPlace(TrigOf[s]) \/ y.in = CopyOfTrigger(s)
          BY <3>1, InputOfRule
        <5>2. y.in = CopyOfTrigger(s)
          BY <4>1, <5>1, PlacesDiffer
        <5> QED BY <4>1, <5>2, PlacesDiffer
      <4>2. CASE x.in = TriggerPlace(TrigOf[r]) /\ RulesByTrigger(rs, TrigOf[r]) = {r}
        <5>1. y.in = TriggerPlace(TrigOf[s]) /\ RulesByTrigger(rs, TrigOf[s]) = {s}
          BY <3>1, <4>2, InputOfRule, PlacesDiffer
        <5>2. TrigOf[r] = TrigOf[s]
          BY <4>2, <5>1, PlacesDiffer
        <5> QED BY <4>2, <5>1, <5>2
      <4> QED BY <1>1, <4>1, <4>2, InputOfRule
    <3> QED BY <1>1, <3>1, <3>2 DEF FiresRule
  <2>2. CASE \E t \in NetTriggers(rs) : CopiesTrigger(rs, y, t)
    <3>1. PICK t \in NetTriggers(rs) : CopiesTrigger(rs, y, t)
      BY <2>2
    <3>2. x.in = TriggerPlace(t) /\ ~IsSingle(RulesByTrigger(rs, t))
      BY <3>1, InputOfCopies DEF CopiesTrigger
    <3>3. r \in {r}
      OBVIOUS
    <3> QED BY <1>1, <3>2, <3>3, InputOfRule, PlacesDiffer DEF IsSingle
  <2>3. CASE \E a \in NetActions(rs), t \in NetTriggers(rs) : CausesTrigger(rs, y, a, t)
    BY <1>1, <2>3, InputOfRule, InputOfCause, PlacesDiffer
  <2>4. CASE \E a \in NetActions(rs) : CopiesAction(rs, y, a)
    BY <1>1, <2>4, InputOfRule, InputOfCopies, PlacesDiffer
  <2> QED BY <2>1, <2>2, <2>3, <2>4, NetKinds
<1>2. ASSUME NEW t, CopiesTrigger(rs, x, t) PROVE x = y
  <2>1. CASE \E s \in rs : FiresRule(rs, y, s)
    <3>1. PICK s \in rs : FiresRule(rs, y, s)
      BY <2>1
    <3>2. y.in = TriggerPlace(t) /\ ~IsSingle(RulesByTrigger(rs, t))
      BY <1>2, InputOfCopies DEF CopiesTrigger
    <3>3. s \in {s}
      OBVIOUS
    <3> QED BY <3>1, <3>2, <3>3, InputOfRule, PlacesDiffer DEF IsSingle
  <2>2. CASE \E u \in NetTriggers(rs) : CopiesTrigger(rs, y, u)
    <3>1. PICK u \in NetTriggers(rs) : CopiesTrigger(rs, y, u)
      BY <2>2
    <3>2. t = u
      BY <1>2, <3>1, InputOfCopies, PlacesDiffer
    <3> QED BY <1>2, <3>1, <3>2 DEF CopiesTrigger
  <2>3. CASE \E a \in NetActions(rs), u \in NetTriggers(rs) : CausesTrigger(rs, y, a, u)
    BY <1>2, <2>3, InputOfCopies, InputOfCause, PlacesDiffer
  <2>4. CASE \E a \in NetActions(rs) : CopiesAction(rs, y, a)
    BY <1>2, <2>4, InputOfCopies, PlacesDiffer
  <2> QED BY <2>1, <2>2, <2>3, <2>4, NetKinds
<1>3. ASSUME NEW a, NEW t, CausesTrigger(rs, x, a, t) PROVE x = y
  <2>1. CASE \E s \in rs : FiresRule(rs, y, s)
    BY <1>3, <2>1, InputOfRule, InputOfCause, PlacesDiffer
  <2>2. CASE \E u \in NetTriggers(rs) : CopiesTrigger(rs, y, u)
    BY <1>3, <2>2, InputOfCopies, InputOfCause, PlacesDiffer
  <2>3. CASE \E b \in NetActions(rs), u \in NetTriggers(rs) : CausesTrigger(rs, y, b, u)
    <3>1. PICK b \in NetActions(rs), u \in NetTriggers(rs) : CausesTrigger(rs, y, b, u)
      BY <2>3
    <3>2. a = b /\ t = u
      BY <1>3, <3>1, InputOfCause, PlacesDiffer
    <3> QED BY <1>3, <3>1, <3>2 DEF CausesTrigger
  <2>4. CASE \E b \in NetActions(rs) : CopiesAction(rs, y, b)
    <3>1. PICK b \in NetActions(rs) : CopiesAction(rs, y, b)
      BY <2>4
    <3>2. x.in = ActionPlace(b) /\ ~IsSingle(TriggeredTriggers(rs, b))
      BY <3>1, InputOfCopies DEF CopiesAction
    <3>3. t \in {t}
      OBVIOUS
    <3> QED BY <1>3, <3>2, <3>3, InputOfCause, PlacesDiffer DEF IsSingle
  <2> QED BY <2>1, <2>2, <2>3, <2>4, NetKinds
<1>4. ASSUME NEW a, CopiesAction(rs, x, a) PROVE x = y
  <2>1. CASE \E s \in rs : FiresRule(rs, y, s)
    BY <1>4, <2>1, InputOfRule, InputOfCopies, PlacesDiffer
  <2>2. CASE \E u \in NetTriggers(rs) : CopiesTrigger(rs, y, u)
    BY <1>4, <2>2, InputOfCopies, PlacesDiffer
  <2>3. CASE \E b \in NetActions(rs), u \in NetTriggers(rs) : CausesTrigger(rs, y, b, u)
    <3>1. PICK b \in NetActions(rs), u \in NetTriggers(rs) : CausesTrigger(rs, y, b, u)
      BY <2>3
    <3>2. y.in = ActionPlace(a) /\ ~IsSingle(TriggeredTriggers(rs, a))
      BY <1>4, InputOfCopies DEF CopiesAction
    <3>3. u \in {u}
      OBVIOUS
    <3> QED BY <3>1, <3>2, <3>3, InputOfCause, PlacesDiffer DEF IsSingle
  <2>4. CASE \E b \in NetActions(rs) : CopiesAction(rs, y, b)
    <3>1. PICK b \in NetActions(rs) : CopiesAction(rs, y, b)
      BY <2>4
    <3>2. a = b
      BY <1>4, <3>1, InputOfCopies, PlacesDiffer
    <3> QED BY <1>4, <3>1, <3>2 DEF CopiesAction
  <2> QED BY <2>1, <2>2, <2>3, <2>4, NetKinds
<1> QED BY <1>1, <1>2, <1>3, <1>4, NetKinds

\* The fields of a transition of the net, and the colours its arcs expect.
LEMMA NetFields ==
  ASSUME NEW rs \in SUBSET Rule, NEW tr \in Net(rs)
  PROVE  /\ tr.in \in Place /\ tr.out \subseteq Place
         /\ tr.takes \in Colour /\ tr.gives \in Colour
         /\ tr.rule \in rs \cup {NoRule}
         /\ tr.takes = ColourOf(tr.in)
         /\ \A p \in tr.out : tr.gives = ColourOf(p)
<1>0. /\ \A r \in rs : r \in Rule /\ TrigOf[r] \in Trigger /\ ActOf[r] \in Action
      /\ \A t \in NetTriggers(rs) : t \in Trigger /\ t \in Colour
      /\ \A a \in NetActions(rs) : a \in Action /\ a \in Colour
      /\ \A a : TriggeredTriggers(rs, a) \subseteq Trigger
      /\ \A t : \A r \in RulesByTrigger(rs, t) : r \in Rule /\ TrigOf[r] = t
  BY RuleNetAssumption DEF NetTriggers, NetActions, Colour, TriggeredTriggers,
                           TriggeredRules, RulesByTrigger
<1>1. CASE \E r \in rs : FiresRule(rs, tr, r)
  <2>1. PICK r \in rs : FiresRule(rs, tr, r)
    BY <1>1
  <2>2. /\ tr.out = {ActionPlace(ActOf[r])} /\ tr.takes = TrigOf[r]
        /\ tr.gives = ActOf[r] /\ tr.rule = r
    BY <2>1 DEF FiresRule, Transition
  <2>3. tr.in = TriggerPlace(TrigOf[r]) \/ tr.in = CopyOfTrigger(r)
    BY <2>1, InputOfRule
  <2>4. tr.in \in Place /\ ColourOf(tr.in) = TrigOf[r]
    BY <1>0, <2>3, Places
  <2>5. ActionPlace(ActOf[r]) \in Place /\ ColourOf(ActionPlace(ActOf[r])) = ActOf[r]
    BY <1>0, Places
  <2> QED BY <1>0, <2>2, <2>4, <2>5 DEF Colour
<1>2. CASE \E t \in NetTriggers(rs) : CopiesTrigger(rs, tr, t)
  <2>1. PICK t \in NetTriggers(rs) : CopiesTrigger(rs, tr, t)
    BY <1>2
  <2>2. /\ tr.in = TriggerPlace(t) /\ tr.takes = t /\ tr.gives = t /\ tr.rule = NoRule
        /\ tr.out = {CopyOfTrigger(r) : r \in RulesByTrigger(rs, t)}
    BY <2>1 DEF CopiesTrigger, Transition
  <2>3. \A p \in tr.out : p \in Place /\ ColourOf(p) = t
    BY <1>0, <2>2, Places
  <2>4. tr.in \in Place /\ ColourOf(tr.in) = t
    BY <1>0, <2>2, Places
  <2> QED BY <1>0, <2>2, <2>3, <2>4
<1>3. CASE \E a \in NetActions(rs), t \in NetTriggers(rs) : CausesTrigger(rs, tr, a, t)
  <2>1. PICK a \in NetActions(rs), t \in NetTriggers(rs) : CausesTrigger(rs, tr, a, t)
    BY <1>3
  <2>2. /\ tr.out = {TriggerPlace(t)} /\ tr.takes = a /\ tr.gives = t /\ tr.rule = NoRule
    BY <2>1 DEF CausesTrigger, Transition
  <2>3. tr.in = ActionPlace(a) \/ tr.in = CopyOfAction(a, t)
    BY <2>1, InputOfCause
  <2>4. tr.in \in Place /\ ColourOf(tr.in) = a
    BY <1>0, <2>3, Places
  <2>5. TriggerPlace(t) \in Place /\ ColourOf(TriggerPlace(t)) = t
    BY <1>0, Places
  <2> QED BY <1>0, <2>2, <2>4, <2>5
<1>4. CASE \E a \in NetActions(rs) : CopiesAction(rs, tr, a)
  <2>1. PICK a \in NetActions(rs) : CopiesAction(rs, tr, a)
    BY <1>4
  <2>2. /\ tr.in = ActionPlace(a) /\ tr.takes = a /\ tr.gives = a /\ tr.rule = NoRule
        /\ tr.out = {CopyOfAction(a, t) : t \in TriggeredTriggers(rs, a)}
    BY <2>1 DEF CopiesAction, Transition
  <2>3. \A p \in tr.out : p \in Place /\ ColourOf(p) = a
    BY <1>0, <2>2, Places
  <2>4. tr.in \in Place /\ ColourOf(tr.in) = a
    BY <1>0, <2>2, Places
  <2> QED BY <1>0, <2>2, <2>3, <2>4
<1> QED BY <1>1, <1>2, <1>3, <1>4, NetKinds

LEMMA EnabledRulesFire ==
  ASSUME NEW m, NEW rs, NEW tr \in EnabledRules(m, rs)
  PROVE  /\ tr \in Net(rs) /\ Enabled(m, tr)
         /\ tr.rule \in rs /\ FiresRule(rs, tr, tr.rule)
BY DEF EnabledRules, Net, RuleTransitions, FiresRule, Transition

(***************************************************************************)
(* Facts about the token game.                                             *)
(***************************************************************************)
LEMMA FireType ==
  ASSUME NEW m \in Marking, NEW tr
  PROVE  Fire(m, tr) \in Marking
<1>1. ASSUME NEW p \in Place, NEW c \in Colour
      PROVE  (IF p = tr.in /\ c = tr.takes /\ m[p][c] > 0 THEN m[p][c] - 1 ELSE m[p][c])
               + (IF p \in tr.out /\ c = tr.gives THEN 1 ELSE 0) \in Nat
  <2>1. m[p][c] \in Nat
    BY DEF Marking
  <2> QED BY <2>1
<1> QED BY <1>1 DEF Fire, Marking

LEMMA ClearedType ==
  ASSUME NEW m \in Marking
  PROVE  Cleared(m) \in Marking
<1>1. ASSUME NEW p \in Place, NEW c \in Colour
      PROVE  (IF m[p][c] > 1 THEN m[p][c] - 1 ELSE 0) \in Nat
  <2>1. m[p][c] \in Nat
    BY DEF Marking
  <2> QED BY <2>1
<1> QED BY <1>1 DEF Cleared, Marking

LEMMA WithTokenType ==
  ASSUME NEW m \in Marking, NEW p \in Place, NEW c \in Colour
  PROVE  WithToken(m, p, c) \in Marking
<1>1. m[p] \in [Colour -> Nat] /\ m[p][c] \in Nat
  BY DEF Marking
<1>2. [m[p] EXCEPT ![c] = m[p][c] + 1] \in [Colour -> Nat]
  BY <1>1
<1> QED BY <1>2 DEF WithToken, Marking

\* One firing: what a place holds afterwards.
LEMMA FireTokens ==
  ASSUME NEW m \in Marking, NEW tr, NEW p \in Place, NEW c \in Colour
  PROVE  /\ Fire(m, tr)[p][c] > 0 => m[p][c] > 0 \/ (p \in tr.out /\ c = tr.gives)
         /\ p \in tr.out /\ c = tr.gives => Fire(m, tr)[p][c] > 0
         /\ p # tr.in \/ c # tr.takes => Fire(m, tr)[p][c] >= m[p][c]
<1>1. m[p][c] \in Nat
  BY DEF Marking
<1> QED BY <1>1 DEF Fire

(***************************************************************************)
(* Which places have transitions, and roots.                               *)
(***************************************************************************)
\* A place of the net of rs: the input of a transition or an action without
\* consequences.
InNet(rs, p) ==
  \/ \E tr \in Net(rs) : tr.in = p
  \/ \E a \in NetActions(rs) : p = ActionPlace(a)

\* A rule has a transition, and so have the triggers its action causes.
LEMMA RuleHasTransition ==
  ASSUME NEW rs, NEW r \in rs
  PROVE  \E tr \in Net(rs) : FiresRule(rs, tr, r) /\ tr.in = RuleInput(rs, r)
<1> DEFINE tr == Transition(r, RuleInput(rs, r), {ActionPlace(ActOf[r])}, TrigOf[r], ActOf[r])
<1>1. FiresRule(rs, tr, r)
  BY DEF FiresRule
<1>2. tr.in = RuleInput(rs, r)
  BY DEF Transition
<1> QED BY <1>1, <1>2, NetKinds

LEMMA CauseHasTransition ==
  ASSUME NEW rs, NEW a \in NetActions(rs), NEW t \in TriggeredTriggers(rs, a)
  PROVE  \E tr \in Net(rs) : CausesTrigger(rs, tr, a, t) /\ tr.in = TriggerInput(rs, a, t)
<1> DEFINE tr == Transition(NoRule, TriggerInput(rs, a, t), {TriggerPlace(t)}, a, t)
<1>1. t \in NetTriggers(rs)
  BY DEF NetTriggers, TriggeredTriggers, TriggeredRules
<1>2. CausesTrigger(rs, tr, a, t)
  BY <1>1 DEF CausesTrigger
<1>3. tr.in = TriggerInput(rs, a, t)
  BY DEF Transition
<1> QED BY <1>1, <1>2, <1>3, NetKinds

\* The place of a trigger of the net is the input of a transition.
LEMMA TriggerPlaceHasTransition ==
  ASSUME NEW rs, NEW t \in NetTriggers(rs)
  PROVE  \E tr \in Net(rs) : tr.in = TriggerPlace(t)
<1>1. CASE IsSingle(RulesByTrigger(rs, t))
  <2>1. PICK r \in rs : TrigOf[r] = t
    BY DEF NetTriggers
  <2>2. RuleInput(rs, r) = TriggerPlace(t)
    BY <1>1, <2>1 DEF RuleInput
  <2> QED BY <2>1, <2>2, RuleHasTransition
<1>2. CASE ~IsSingle(RulesByTrigger(rs, t))
  <2> DEFINE tr == Transition(NoRule, TriggerPlace(t),
                              {CopyOfTrigger(r) : r \in RulesByTrigger(rs, t)}, t, t)
  <2>1. CopiesTrigger(rs, tr, t)
    BY <1>2 DEF CopiesTrigger
  <2>2. tr.in = TriggerPlace(t)
    BY DEF Transition
  <2> QED BY <2>1, <2>2, NetKinds
<1> QED BY <1>1, <1>2

\* The place of an action that causes a trigger of the net is the input of one.
LEMMA ActionPlaceHasTransition ==
  ASSUME NEW rs, NEW a \in NetActions(rs), TriggeredTriggers(rs, a) # {}
  PROVE  \E tr \in Net(rs) : tr.in = ActionPlace(a)
<1>1. CASE IsSingle(TriggeredTriggers(rs, a))
  <2>1. PICK t \in TriggeredTriggers(rs, a) : TRUE
    OBVIOUS
  <2>2. TriggerInput(rs, a, t) = ActionPlace(a)
    BY <1>1 DEF TriggerInput
  <2> QED BY <2>1, <2>2, CauseHasTransition
<1>2. CASE ~IsSingle(TriggeredTriggers(rs, a))
  <2> DEFINE tr == Transition(NoRule, ActionPlace(a),
                              {CopyOfAction(a, t) : t \in TriggeredTriggers(rs, a)}, a, a)
  <2>1. CopiesAction(rs, tr, a)
    BY <1>2 DEF CopiesAction
  <2>2. tr.in = ActionPlace(a)
    BY DEF Transition
  <2> QED BY <2>1, <2>2, NetKinds
<1> QED BY <1>1, <1>2

\* Transitions put tokens into places of the net only.
LEMMA OutputsInNet ==
  ASSUME NEW rs, NEW tr \in Net(rs), NEW p \in tr.out
  PROVE  InNet(rs, p)
<1>1. CASE \E r \in rs : FiresRule(rs, tr, r)
  BY <1>1 DEF FiresRule, Transition, InNet, NetActions
<1>2. CASE \E t \in NetTriggers(rs) : CopiesTrigger(rs, tr, t)
  <2>1. PICK t \in NetTriggers(rs) : CopiesTrigger(rs, tr, t)
    BY <1>2
  <2>2. PICK r \in RulesByTrigger(rs, t) : p = CopyOfTrigger(r)
    BY <2>1 DEF CopiesTrigger, Transition
  <2>3. r \in rs /\ RuleInput(rs, r) = p
    BY <2>1, <2>2 DEF RulesByTrigger, RuleInput, CopiesTrigger
  <2> QED BY <2>3, RuleHasTransition DEF InNet
<1>3. CASE \E a \in NetActions(rs), t \in NetTriggers(rs) : CausesTrigger(rs, tr, a, t)
  <2>1. PICK a \in NetActions(rs), t \in NetTriggers(rs) : CausesTrigger(rs, tr, a, t)
    BY <1>3
  <2>2. p = TriggerPlace(t)
    BY <2>1 DEF CausesTrigger, Transition
  <2> QED BY <2>2, TriggerPlaceHasTransition DEF InNet
<1>4. CASE \E a \in NetActions(rs) : CopiesAction(rs, tr, a)
  <2>1. PICK a \in NetActions(rs) : CopiesAction(rs, tr, a)
    BY <1>4
  <2>2. PICK t \in TriggeredTriggers(rs, a) : p = CopyOfAction(a, t)
    BY <2>1 DEF CopiesAction, Transition
  <2>3. TriggerInput(rs, a, t) = p
    BY <2>1, <2>2 DEF TriggerInput, CopiesAction
  <2> QED BY <2>3, CauseHasTransition DEF InNet
<1> QED BY <1>1, <1>2, <1>3, <1>4, NetKinds

\* Every token has the colour of its place and lies in a place of the net.
AllInPlace(m, rs) ==
  \A p \in Place, c \in Colour : m[p][c] > 0 => c = ColourOf(p) /\ InNet(rs, p)

LEMMA FiringKeepsPlaces ==
  ASSUME NEW rs \in SUBSET Rule, NEW m \in Marking, AllInPlace(m, rs), NEW tr \in Net(rs)
  PROVE  AllInPlace(Fire(m, tr), rs)
<1> SUFFICES ASSUME NEW p \in Place, NEW c \in Colour, Fire(m, tr)[p][c] > 0
             PROVE  c = ColourOf(p) /\ InNet(rs, p)
  BY DEF AllInPlace
<1>1. m[p][c] > 0 \/ (p \in tr.out /\ c = tr.gives)
  BY FireTokens
<1> QED BY <1>1, NetFields, OutputsInNet DEF AllInPlace

LEMMA RootsAreTriggers ==
  ASSUME NEW rs \in SUBSET Rule, NEW r
  PROVE  RootChoices(rs, r) \subseteq NetTriggers(rs) \cup {NoTrigger}
<1>1. Searched(rs, TrigOf[r]) \subseteq Vertices(rs)
  BY DEF Searched, Component, ReachedFrom
<1>2. ASSUME NEW p \in RootPlaces(rs, r), p[1] = "trigger"
      PROVE  p[2] \in NetTriggers(rs)
  <2>1. \/ \E t \in NetTriggers(rs) : p = TriggerPlace(t)
        \/ \E a \in NetActions(rs) : p = ActionPlace(a)
    BY <1>1 DEF RootPlaces, Vertices
  <2> QED BY <1>2, <2>1 DEF TriggerPlace, ActionPlace
<1> QED BY <1>2 DEF RootChoices

(***************************************************************************)
(* What a token can reach.                                                 *)
(***************************************************************************)
\* A token at place p is on its way to rule r.
Upstream(p, r) ==
  \/ p = TriggerPlace(TrigOf[r])
  \/ p = CopyOfTrigger(r)
  \/ \E a \in Action : /\ Causes(a, TrigOf[r])
                       /\ p = ActionPlace(a) \/ p = CopyOfAction(a, TrigOf[r])

\* A firing puts tokens only upstream of rules the token it takes was upstream
\* of and, if it executes a rule, of the rules that one triggers.
LEMMA FiringFollowsCauses ==
  ASSUME NEW rs \in SUBSET Rule, NEW tr \in Net(rs), NEW p \in tr.out,
         NEW r \in rs, Upstream(p, r)
  PROVE  \/ Upstream(tr.in, r)
         \/ \E s \in rs : FiresRule(rs, tr, s) /\ Causes(ActOf[s], TrigOf[r])
<1>1. CASE \E s \in rs : FiresRule(rs, tr, s)
  <2>1. PICK s \in rs : FiresRule(rs, tr, s)
    BY <1>1
  <2>2. p = ActionPlace(ActOf[s])
    BY <2>1 DEF FiresRule, Transition
  <2>3. Causes(ActOf[s], TrigOf[r])
    BY <2>2, PlacesDiffer DEF Upstream
  <2> QED BY <2>1, <2>3
<1>2. CASE \E t \in NetTriggers(rs) : CopiesTrigger(rs, tr, t)
  <2>1. PICK t \in NetTriggers(rs) : CopiesTrigger(rs, tr, t)
    BY <1>2
  <2>2. PICK s \in RulesByTrigger(rs, t) : p = CopyOfTrigger(s)
    BY <2>1 DEF CopiesTrigger, Transition
  <2>3. s = r
    BY <2>2, PlacesDiffer DEF Upstream
  <2>4. tr.in = TriggerPlace(TrigOf[r])
    BY <2>1, <2>2, <2>3, InputOfCopies DEF RulesByTrigger
  <2> QED BY <2>4 DEF Upstream
<1>3. CASE \E a \in NetActions(rs), t \in NetTriggers(rs) : CausesTrigger(rs, tr, a, t)
  <2>1. PICK a \in NetActions(rs), t \in NetTriggers(rs) : CausesTrigger(rs, tr, a, t)
    BY <1>3
  <2>2. p = TriggerPlace(t)
    BY <2>1 DEF CausesTrigger, Transition
  <2>3. TrigOf[r] = t
    BY <2>2, PlacesDiffer DEF Upstream
  <2>4. Causes(a, t) /\ a \in Action
    BY <2>1, RuleNetAssumption
    DEF CausesTrigger, TriggeredTriggers, TriggeredRules, NetActions
  <2>5. tr.in = ActionPlace(a) \/ tr.in = CopyOfAction(a, t)
    BY <2>1, InputOfCause
  <2> QED BY <2>3, <2>4, <2>5 DEF Upstream
<1>4. CASE \E a \in NetActions(rs) : CopiesAction(rs, tr, a)
  <2>1. PICK a \in NetActions(rs) : CopiesAction(rs, tr, a)
    BY <1>4
  <2>2. PICK t \in TriggeredTriggers(rs, a) : p = CopyOfAction(a, t)
    BY <2>1 DEF CopiesAction, Transition
  <2>3. Causes(a, TrigOf[r]) /\ a \in Action
    BY <2>1, <2>2, PlacesDiffer, RuleNetAssumption DEF Upstream, NetActions
  <2>4. tr.in = ActionPlace(a)
    BY <2>1, InputOfCopies
  <2> QED BY <2>3, <2>4 DEF Upstream
<1> QED BY <1>1, <1>2, <1>3, <1>4, NetKinds

\* A rule executed takes a token upstream of itself.
LEMMA RuleIsDownstream ==
  ASSUME NEW rs, NEW tr, NEW r, FiresRule(rs, tr, r)
  PROVE  Upstream(tr.in, r)
BY InputOfRule DEF Upstream

\* A token upstream of rule r that is still to reach it.
OnItsWay(m, rs, r) ==
  LET t == TrigOf[r] IN
  \/ m[TriggerPlace(t)][t] > 0
  \/ m[CopyOfTrigger(r)][t] > 0
  \/ \E a \in NetActions(rs) : /\ Causes(a, t)
                               /\ \/ m[ActionPlace(a)][a] > 0
                                  \/ m[CopyOfAction(a, t)][a] > 0

\* A token on its way to a rule stays so, unless the firing executes the rule.
LEMMA TokenStays ==
  ASSUME NEW rs \in SUBSET Rule, NEW m \in Marking, NEW tr \in Net(rs),
         NEW r \in rs, OnItsWay(m, rs, r), ~FiresRule(rs, tr, r)
  PROVE  OnItsWay(Fire(m, tr), rs, r)
<1> DEFINE n == Fire(m, tr)
<1> DEFINE t == TrigOf[r]
<1>0. /\ r \in Rule /\ t \in Trigger /\ t \in Colour /\ t \in NetTriggers(rs)
      /\ \A a \in NetActions(rs) : a \in Action /\ a \in Colour
  BY RuleNetAssumption DEF NetActions, NetTriggers, Colour
<1>1. /\ TriggerPlace(t) \in Place /\ CopyOfTrigger(r) \in Place
      /\ \A a \in NetActions(rs) : ActionPlace(a) \in Place /\ CopyOfAction(a, t) \in Place
  BY <1>0, Places
<1>2. ASSUME NEW p \in Place, NEW c \in Colour, m[p][c] > 0, p # tr.in
      PROVE  n[p][c] > 0
  <2>1. n[p][c] >= m[p][c]
    BY <1>2, FireTokens
  <2>2. n[p][c] \in Nat /\ m[p][c] \in Nat
    BY FireType DEF Marking
  <2> QED BY <1>2, <2>1, <2>2
<1>3. ASSUME NEW p \in Place, p \in tr.out, tr.gives \in Colour
      PROVE  n[p][tr.gives] > 0
  BY <1>3, FireTokens
<1>4. CASE m[TriggerPlace(t)][t] > 0
  <2>1. CASE tr.in # TriggerPlace(t)
    BY <1>0, <1>1, <1>2, <1>4, <2>1 DEF OnItsWay
  <2>2. CASE tr.in = TriggerPlace(t)
    <3>1. ~ \E s \in rs : FiresRule(rs, tr, s)
      <4> SUFFICES ASSUME NEW s \in rs, FiresRule(rs, tr, s) PROVE FALSE
        OBVIOUS
      <4>1. TrigOf[s] = t /\ RulesByTrigger(rs, t) = {s}
        BY <2>2, InputOfRule, PlacesDiffer
      <4>2. r \in RulesByTrigger(rs, t)
        BY DEF RulesByTrigger
      <4> QED BY <4>1, <4>2
    <3>2. PICK u \in NetTriggers(rs) : CopiesTrigger(rs, tr, u)
      BY <2>2, <3>1, NetKinds, InputOfCause, InputOfCopies, PlacesDiffer
    <3>3. u = t
      BY <2>2, <3>2, InputOfCopies, PlacesDiffer
    <3>4. CopyOfTrigger(r) \in tr.out /\ tr.gives = t
      BY <3>2, <3>3 DEF CopiesTrigger, Transition, RulesByTrigger
    <3> QED BY <1>0, <1>1, <1>3, <3>4 DEF OnItsWay
  <2> QED BY <2>1, <2>2
<1>5. CASE m[CopyOfTrigger(r)][t] > 0
  <2>1. tr.in # CopyOfTrigger(r)
    <3> SUFFICES ASSUME tr.in = CopyOfTrigger(r) PROVE FALSE
      OBVIOUS
    <3>1. ~ \E u \in NetTriggers(rs) : CopiesTrigger(rs, tr, u)
      BY InputOfCopies, PlacesDiffer
    <3>2. ~ \E b \in NetActions(rs) : CopiesAction(rs, tr, b)
      BY InputOfCopies, PlacesDiffer
    <3>3. ~ \E b \in NetActions(rs), u \in NetTriggers(rs) : CausesTrigger(rs, tr, b, u)
      BY InputOfCause, PlacesDiffer
    <3>4. PICK s \in rs : FiresRule(rs, tr, s)
      BY <3>1, <3>2, <3>3, NetKinds
    <3>5. tr.in = CopyOfTrigger(s)
      BY <3>4, InputOfRule, PlacesDiffer
    <3> QED BY <3>4, <3>5, PlacesDiffer
  <2> QED BY <1>0, <1>1, <1>2, <1>5, <2>1 DEF OnItsWay
<1>6. ASSUME NEW a \in NetActions(rs), Causes(a, t),
             m[ActionPlace(a)][a] > 0 \/ m[CopyOfAction(a, t)][a] > 0
      PROVE  OnItsWay(n, rs, r)
  <2>0. t \in TriggeredTriggers(rs, a)
    BY <1>6 DEF TriggeredTriggers, TriggeredRules
  <2>1. CASE m[ActionPlace(a)][a] > 0 /\ tr.in # ActionPlace(a)
    BY <1>0, <1>1, <1>2, <1>6, <2>1 DEF OnItsWay
  <2>2. CASE m[CopyOfAction(a, t)][a] > 0 /\ tr.in # CopyOfAction(a, t)
    BY <1>0, <1>1, <1>2, <1>6, <2>2 DEF OnItsWay
  <2>3. ASSUME NEW b \in NetActions(rs), NEW u \in NetTriggers(rs),
               CausesTrigger(rs, tr, b, u),
               tr.in = ActionPlace(a) \/ tr.in = CopyOfAction(a, t)
        PROVE  OnItsWay(n, rs, r)
    <3>1. \/ tr.in = ActionPlace(b) /\ TriggeredTriggers(rs, b) = {u}
          \/ tr.in = CopyOfAction(b, u)
      BY <2>3, InputOfCause
    <3>2. u = t
      BY <2>0, <2>3, <3>1, PlacesDiffer
    <3>3. TriggerPlace(t) \in tr.out /\ tr.gives = t
      BY <2>3, <3>2 DEF CausesTrigger, Transition
    <3> QED BY <1>0, <1>1, <1>3, <3>3 DEF OnItsWay
  <2>4. CASE tr.in = CopyOfAction(a, t)
    <3>1. ~ \E s \in rs : FiresRule(rs, tr, s)
      BY <2>4, InputOfRule, PlacesDiffer
    <3>2. ~ \E u \in NetTriggers(rs) : CopiesTrigger(rs, tr, u)
      BY <2>4, InputOfCopies, PlacesDiffer
    <3>3. ~ \E b \in NetActions(rs) : CopiesAction(rs, tr, b)
      BY <2>4, InputOfCopies, PlacesDiffer
    <3>4. \E b \in NetActions(rs), u \in NetTriggers(rs) : CausesTrigger(rs, tr, b, u)
      BY <3>1, <3>2, <3>3, NetKinds
    <3> QED BY <2>3, <2>4, <3>4
  <2>5. CASE tr.in = ActionPlace(a)
    <3>1. CASE \E b \in NetActions(rs), u \in NetTriggers(rs) :
                 CausesTrigger(rs, tr, b, u)
      BY <2>3, <2>5, <3>1
    <3>2. CASE \E b \in NetActions(rs) : CopiesAction(rs, tr, b)
      <4>1. PICK b \in NetActions(rs) : CopiesAction(rs, tr, b)
        BY <3>2
      <4>2. b = a
        BY <2>5, <4>1, InputOfCopies, PlacesDiffer
      <4>3. CopyOfAction(a, t) \in tr.out /\ tr.gives = a
        BY <2>0, <4>1, <4>2 DEF CopiesAction, Transition
      <4>4. a \in Colour /\ CopyOfAction(a, t) \in Place
        BY <1>0, <1>1
      <4>5. n[CopyOfAction(a, t)][a] > 0
        BY <1>3, <4>3, <4>4
      <4> QED BY <1>0, <1>6, <4>5 DEF OnItsWay
    <3> QED BY <2>5, <3>1, <3>2, NetKinds, InputOfRule, InputOfCopies, PlacesDiffer
  <2> QED BY <1>6, <2>1, <2>2, <2>4, <2>5
<1> QED BY <1>4, <1>5, <1>6 DEF OnItsWay

\* A token on the way to a rule keeps the net alive.
LEMMA TokenKeepsAlive ==
  ASSUME NEW rs \in SUBSET Rule, NEW m \in Marking, AllInPlace(m, rs),
         NEW r \in rs, OnItsWay(m, rs, r)
  PROVE  ~Dead(m, rs)
<1> DEFINE t == TrigOf[r]
<1>0. /\ r \in Rule /\ t \in Trigger /\ t \in Colour /\ t \in NetTriggers(rs)
      /\ \A a \in NetActions(rs) : a \in Action /\ a \in Colour
  BY RuleNetAssumption DEF NetActions, NetTriggers, Colour
<1>1. /\ TriggerPlace(t) \in Place /\ CopyOfTrigger(r) \in Place
      /\ \A a \in NetActions(rs) : ActionPlace(a) \in Place /\ CopyOfAction(a, t) \in Place
  BY <1>0, Places
<1>2. ASSUME NEW p \in Place, NEW c \in Colour, m[p][c] > 0,
             \E tr \in Net(rs) : tr.in = p
      PROVE  ~Dead(m, rs)
  BY <1>2 DEF Dead, Enabled
<1>3. CASE m[TriggerPlace(t)][t] > 0
  BY <1>0, <1>1, <1>2, <1>3, TriggerPlaceHasTransition
<1>4. CASE m[CopyOfTrigger(r)][t] > 0
  <2>1. InNet(rs, CopyOfTrigger(r))
    BY <1>0, <1>1, <1>4 DEF AllInPlace
  <2>2. \E tr \in Net(rs) : tr.in = CopyOfTrigger(r)
    BY <2>1, PlacesDiffer DEF InNet
  <2> QED BY <1>0, <1>1, <1>2, <1>4, <2>2
<1>5. ASSUME NEW a \in NetActions(rs), Causes(a, t),
             m[ActionPlace(a)][a] > 0 \/ m[CopyOfAction(a, t)][a] > 0
      PROVE  ~Dead(m, rs)
  <2>1. CASE m[ActionPlace(a)][a] > 0
    <3>1. t \in TriggeredTriggers(rs, a)
      BY <1>5 DEF TriggeredTriggers, TriggeredRules
    <3>2. \E tr \in Net(rs) : tr.in = ActionPlace(a)
      BY <3>1, ActionPlaceHasTransition
    <3> QED BY <1>0, <1>1, <1>2, <2>1, <3>2
  <2>2. CASE m[CopyOfAction(a, t)][a] > 0
    <3>1. InNet(rs, CopyOfAction(a, t))
      BY <1>0, <1>1, <2>2 DEF AllInPlace
    <3>2. \E tr \in Net(rs) : tr.in = CopyOfAction(a, t)
      BY <3>1, PlacesDiffer DEF InNet
    <3> QED BY <1>0, <1>1, <1>2, <2>2, <3>2
  <2> QED BY <1>5, <2>1, <2>2
<1> QED BY <1>3, <1>4, <1>5 DEF OnItsWay

(***************************************************************************)
(* The cascade is the least set closed under causes.                       *)
(***************************************************************************)
LEMMA CascadeIsClosed ==
  ASSUME NEW rs, NEW t
  PROVE  /\ Cascade(rs, t) \subseteq rs
         /\ RulesByTrigger(rs, t) \subseteq Cascade(rs, t)
         /\ \A s \in Cascade(rs, t) : TriggeredRules(rs, ActOf[s]) \subseteq Cascade(rs, t)
<1>1. Cascade(rs, t) \subseteq rs
  BY DEF Cascade
<1>2. RulesByTrigger(rs, t) \subseteq Cascade(rs, t)
  BY DEF Cascade, RulesByTrigger
<1>3. ASSUME NEW s \in Cascade(rs, t), NEW r \in TriggeredRules(rs, ActOf[s])
      PROVE  r \in Cascade(rs, t)
  <2>1. r \in rs
    BY DEF TriggeredRules
  <2>2. ASSUME NEW S \in SUBSET rs, RulesByTrigger(rs, t) \subseteq S,
               \A u \in S : TriggeredRules(rs, ActOf[u]) \subseteq S
        PROVE  r \in S
    <3>1. s \in S
      BY <2>2 DEF Cascade
    <3> QED BY <2>2, <3>1
  <2> QED BY <2>1, <2>2 DEF Cascade
<1> QED BY <1>1, <1>2, <1>3

LEMMA CascadeIsLeast ==
  ASSUME NEW rs, NEW t, NEW S \in SUBSET rs, RulesByTrigger(rs, t) \subseteq S,
         \A s \in S : TriggeredRules(rs, ActOf[s]) \subseteq S
  PROVE  Cascade(rs, t) \subseteq S
BY DEF Cascade

(***************************************************************************)
(* Reachability in the graph.                                              *)
(***************************************************************************)
LEMMA ReachedBasics ==
  ASSUME NEW V, NEW E, NEW p \in V
  PROVE  /\ ReachedFrom(V, E, p) \subseteq V
         /\ p \in ReachedFrom(V, E, p)
         /\ \A e \in E : e[1] \in ReachedFrom(V, E, p) /\ e[2] \in V
                        => e[2] \in ReachedFrom(V, E, p)
  BY DEF ReachedFrom

LEMMA ReachedIsTransitive ==
  ASSUME NEW V, NEW E, NEW p, NEW q, NEW x,
         q \in ReachedFrom(V, E, p), x \in ReachedFrom(V, E, q)
  PROVE  x \in ReachedFrom(V, E, p)
  BY DEF ReachedFrom

\* Among finitely many vertices one comes first: whatever reaches it is reached
\* from it.
LEMMA FirstVertex ==
  ASSUME NEW V, IsFiniteSet(V), NEW E, NEW T \in SUBSET V, T # {}
  PROVE  \E p \in T : \A q \in T : p \in ReachedFrom(V, E, q) => q \in ReachedFrom(V, E, p)
<1> DEFINE Before(p) == {x \in V : p \in ReachedFrom(V, E, x)}
           Fan == {Before(p) : p \in T}
<1>1. Fan \subseteq FiniteSubsetsOf(V)
  BY FS_FiniteSubsetsOfFinite
<1>2. Fan # {}
  OBVIOUS
<1>3. PICK least \in Fan : \A B \in Fan : ~(<<B, least>> \in StrictSubsetOrdering(V))
  <2> HIDE DEF Fan
  <2> QED BY <1>1, <1>2, FS_StrictSubsetOrderingWellFounded, WFMin
<1>4. PICK p \in T : least = Before(p)
  BY <1>3
<1>5. ASSUME NEW q \in T, p \in ReachedFrom(V, E, q)
      PROVE  q \in ReachedFrom(V, E, p)
  <2>1. Before(q) \subseteq Before(p)
    BY <1>5, ReachedIsTransitive
  <2>2. Before(q) = Before(p)
    <3>1. ~(<<Before(q), Before(p)>> \in StrictSubsetOrdering(V))
      BY <1>3, <1>4
    <3>2. Before(q) \in SUBSET V /\ Before(p) \in SUBSET V
      OBVIOUS
    <3> HIDE DEF Before
    <3> QED BY <3>1, <3>2, <2>1 DEF StrictSubsetOrdering
  <2>3. p \in Before(p)
    BY ReachedBasics
  <2> QED BY <2>2, <2>3
<1> QED BY <1>5

LEMMA VerticesFinite ==
  ASSUME NEW rs \in SUBSET Rule, IsFiniteSet(rs)
  PROVE  IsFiniteSet(Vertices(rs))
<1> DEFINE T == {TriggerPlace(t) : t \in NetTriggers(rs)}
           A == {ActionPlace(a) : a \in NetActions(rs)}
           f == [r \in rs |-> TriggerPlace(TrigOf[r])]
           g == [r \in rs |-> ActionPlace(ActOf[r])]
<1>1. f \in Surjection(rs, T)
  BY DEF Surjection, NetTriggers
<1>2. g \in Surjection(rs, A)
  BY DEF Surjection, NetActions
<1>3. IsFiniteSet(T)
  <2> HIDE DEF f, T
  <2> QED BY <1>1, FS_Surjection
<1>4. IsFiniteSet(A)
  <2> HIDE DEF g, A
  <2> QED BY <1>2, FS_Surjection
<1>5. Vertices(rs) = T \cup A
  BY DEF Vertices
<1> HIDE DEF T, A
<1> QED BY <1>3, <1>4, <1>5, FS_Union

\* The edges, and which end in a trigger and which in an action.
LEMMA EdgeEnds ==
  ASSUME NEW rs \in SUBSET Rule, NEW e \in Edges(rs)
  PROVE  \/ \E r \in rs : e[1] = TriggerPlace(TrigOf[r]) /\ e[2] = ActionPlace(ActOf[r])
         \/ \E r, s \in rs : /\ e[1] = ActionPlace(ActOf[s]) /\ e[2] = TriggerPlace(TrigOf[r])
                             /\ r \in TriggeredRules(rs, ActOf[s])
<1>1. CASE \E r \in rs : e = <<TriggerPlace(TrigOf[r]), ActionPlace(ActOf[r])>>
  BY <1>1
<1>2. CASE \E x \in CausedPairs(rs) : e = <<ActionPlace(x[1]), TriggerPlace(x[2])>>
  <2>1. PICK x \in CausedPairs(rs) : e = <<ActionPlace(x[1]), TriggerPlace(x[2])>>
    BY <1>2
  <2>2. PICK s \in rs : x[1] = ActOf[s]
    BY DEF CausedPairs, NetActions
  <2>3. PICK r \in TriggeredRules(rs, x[1]) : x[2] = TrigOf[r]
    BY DEF CausedPairs, TriggeredTriggers
  <2>4. r \in rs
    BY DEF TriggeredRules
  <2> QED BY <2>1, <2>2, <2>3, <2>4
<1> QED BY <1>1, <1>2 DEF Edges

LEMMA RuleEdge ==
  ASSUME NEW rs \in SUBSET Rule, NEW r \in rs
  PROVE  /\ <<TriggerPlace(TrigOf[r]), ActionPlace(ActOf[r])>> \in Edges(rs)
         /\ TriggerPlace(TrigOf[r]) \in Vertices(rs) /\ ActionPlace(ActOf[r]) \in Vertices(rs)
  BY DEF Edges, Vertices, NetTriggers, NetActions

\* Where an edge into a trigger comes from: an action that causes it.
LEMMA EdgeIntoTrigger ==
  ASSUME NEW rs \in SUBSET Rule, NEW e \in Edges(rs), NEW t, e[2] = TriggerPlace(t)
  PROVE  \E s \in rs : e[1] = ActionPlace(ActOf[s]) /\ Causes(ActOf[s], t)
<1>1. PICK r, s \in rs : /\ e[1] = ActionPlace(ActOf[s]) /\ e[2] = TriggerPlace(TrigOf[r])
                         /\ r \in TriggeredRules(rs, ActOf[s])
  BY EdgeEnds DEF TriggerPlace, ActionPlace
<1>2. TrigOf[r] = t
  BY <1>1, PlacesDiffer
<1> QED BY <1>1, <1>2 DEF TriggeredRules

\* What causes a trigger shares an entity with it: a trigger without has no cause.
LEMMA TextHasNoCause ==
  ASSUME NEW t \in TextOnly, NEW a
  PROVE  ~Causes(a, t)
  BY RuleNetAssumption DEF Causes

\* checkRule reports no loop at all: each trigger of a loop has an entity, with which
\* a trigger of the request's body is none of those stored.
LEMMA NoLoopReported ==
  ASSUME NEW rs \in SUBSET Rule, NEW r
  PROVE  ~LoopReported(rs, r)
<1> SUFFICES ASSUME NEW s \in rs, TrigOf[s] \in TextOnly, InLoop(rs, s) PROVE FALSE
  BY DEF LoopReported, Matches
<1> DEFINE p == TriggerPlace(TrigOf[s])
           q == ActionPlace(ActOf[s])
           S == Vertices(rs) \ {p}
<1>1. q \in S
  BY RuleEdge, PlacesDiffer
<1>2. \A e \in Edges(rs) : e[2] # p
  BY EdgeIntoTrigger, TextHasNoCause
<1>3. \A e \in Edges(rs) : e[2] \in Vertices(rs)
  BY EdgeEnds, RuleEdge
<1>4. S \in SUBSET Vertices(rs) /\ \A e \in Edges(rs) : e[1] \in S => e[2] \in S
  BY <1>2, <1>3
<1>5. p \in S
  <2>1. p \in ReachedFrom(Vertices(rs), Edges(rs), q)
    BY DEF InLoop
  <2> HIDE DEF p, q, S
  <2> QED BY <2>1, <1>1, <1>4 DEF ReachedFrom
<1> QED BY <1>5

\* The searched vertices, of a component or of the whole graph, have, with a vertex,
\* those an edge comes from, and a stored rule's trigger is one of its own.
LEMMA SearchedClosed ==
  ASSUME NEW rs \in SUBSET Rule, NEW r
  PROVE  /\ Searched(rs, TrigOf[r]) \subseteq Vertices(rs)
         /\ r \in rs => TriggerPlace(TrigOf[r]) \in Searched(rs, TrigOf[r])
         /\ rs # {} => Searched(rs, TrigOf[r]) # {}
         /\ \A e \in Edges(rs) : e[2] \in Searched(rs, TrigOf[r])
                                => e[1] \in Searched(rs, TrigOf[r])
<1> DEFINE t == TrigOf[r]
           both == Edges(rs) \cup {<<e[2], e[1]>> : e \in Edges(rs)}
<1>0. \A e \in Edges(rs) : e[1] \in Vertices(rs) /\ e[2] \in Vertices(rs)
  BY EdgeEnds, RuleEdge
<1>1. CASE \E u \in NetTriggers(rs) : Matches(t, u)
  <2>1. TriggerPlace(t) \in Vertices(rs)
    BY <1>1 DEF Vertices, Matches
  <2>2. Searched(rs, t) = ReachedFrom(Vertices(rs), both, TriggerPlace(t))
    BY <1>1 DEF Searched, Component
  <2>3. ASSUME NEW e \in Edges(rs), e[2] \in Searched(rs, t)
        PROVE  e[1] \in Searched(rs, t)
    <3> DEFINE back == <<e[2], e[1]>>
    <3>1. back \in both /\ back[1] = e[2] /\ back[2] = e[1] /\ e[1] \in Vertices(rs)
      BY <1>0
    <3> HIDE DEF both, back
    <3> QED BY <3>1, <2>1, <2>2, <2>3, ReachedBasics
  <2> QED BY <2>1, <2>2, <2>3, ReachedBasics
<1>2. CASE ~\E u \in NetTriggers(rs) : Matches(t, u)
  <2>1. Searched(rs, t) = Vertices(rs)
    BY <1>2 DEF Searched
  <2> QED BY <1>0, <2>1, RuleEdge
<1> QED BY <1>1, <1>2

\* Without a root every stored rule is caused by a stored one.  A request whose
\* trigger has a place always finds a root: that trigger itself.
LEMMA RootlessAllCaused ==
  ASSUME NEW rs \in SUBSET Rule, NEW r, RootPlaces(rs, r) = {}, NEW s \in rs
  PROVE  \E u \in rs : Causes(ActOf[u], TrigOf[s])
<1>1. ~\E u \in NetTriggers(rs) : Matches(TrigOf[r], u)
  <2> SUFFICES ASSUME NEW u \in NetTriggers(rs), Matches(TrigOf[r], u) PROVE FALSE
    OBVIOUS
  <2>1. u = TrigOf[r] /\ u \in TextOnly /\ TriggerPlace(u) \in Vertices(rs)
    BY DEF Matches, Vertices
  <2>2. TriggerPlace(u) \in Searched(rs, TrigOf[r])
    BY <2>1, ReachedBasics DEF Searched, Component
  <2>3. PICK e \in Edges(rs) : e[2] = TriggerPlace(u)
    BY <2>1, <2>2 DEF RootPlaces
  <2> QED BY <2>1, <2>3, EdgeIntoTrigger, TextHasNoCause
<1>2. TriggerPlace(TrigOf[s]) \in Searched(rs, TrigOf[r])
  BY <1>1, RuleEdge DEF Searched
<1>3. PICK e \in Edges(rs) : e[2] = TriggerPlace(TrigOf[s])
  BY <1>2 DEF RootPlaces
<1> QED BY <1>3, EdgeIntoTrigger

\* getRoot finds a trigger if there is a root at all: an action comes after the
\* triggers of its rules.
LEMMA RootsFound ==
  ASSUME NEW rs \in SUBSET Rule, NEW r, RootPlaces(rs, r) # {}
  PROVE  RootChoices(rs, r) \subseteq NetTriggers(rs)
<1> SUFFICES ASSUME NEW p \in RootPlaces(rs, r)
             PROVE  p[1] = "trigger" /\ p[2] \in NetTriggers(rs)
  BY DEF RootChoices
<1>1. p \in Vertices(rs) /\ \A e \in Edges(rs) : e[2] # p
  BY SearchedClosed DEF RootPlaces
<1>2. ASSUME NEW a \in NetActions(rs), p = ActionPlace(a) PROVE FALSE
  <2>1. PICK s \in rs : a = ActOf[s]
    BY DEF NetActions
  <2> DEFINE e == <<TriggerPlace(TrigOf[s]), ActionPlace(ActOf[s])>>
  <2>2. e \in Edges(rs) /\ e[2] = p
    BY <1>2, <2>1, RuleEdge
  <2> HIDE DEF e
  <2> QED BY <1>1, <2>2
<1> QED BY <1>1, <1>2 DEF Vertices, TriggerPlace

\* Searched vertices without a root have a loop among them, which need not go
\* through the checked rule.
LEMMA RootlessHasLoop ==
  ASSUME NEW rs \in SUBSET Rule, IsFiniteSet(rs), rs # {}, NEW r, RootPlaces(rs, r) = {}
  PROVE  \E s \in rs : /\ TriggerPlace(TrigOf[s]) \in Searched(rs, TrigOf[r])
                       /\ InLoop(rs, s)
<1> DEFINE C == Searched(rs, TrigOf[r])
           Reached(p) == ReachedFrom(Vertices(rs), Edges(rs), p)
<1>1. PICK p \in C : \A q \in C : p \in Reached(q) => q \in Reached(p)
  BY FirstVertex, VerticesFinite, SearchedClosed
<1>2. ASSUME NEW q \in C
      PROVE  \E e \in Edges(rs) : e[2] = q /\ e[1] \in C /\ q \in Reached(e[1])
  <2>1. PICK e \in Edges(rs) : e[2] = q
    BY <1>2 DEF RootPlaces
  <2>2. e[1] \in C /\ e[1] \in Vertices(rs) /\ q \in Vertices(rs)
    BY <2>1, SearchedClosed
  <2> QED BY <2>1, <2>2, ReachedBasics
\* A rule whose action is on the way round is in a loop.
<1>3. ASSUME NEW s \in rs, TriggerPlace(TrigOf[s]) \in C,
             TriggerPlace(TrigOf[s]) \in Reached(ActionPlace(ActOf[s]))
      PROVE  \E u \in rs : TriggerPlace(TrigOf[u]) \in C /\ InLoop(rs, u)
  BY <1>3 DEF InLoop
<1>4. PICK e \in Edges(rs) : e[2] = p /\ e[1] \in C /\ p \in Reached(e[1])
  BY <1>2
<1>5. e[1] \in Reached(p)
  BY <1>1, <1>4
<1>6. CASE \E s \in rs : e[1] = TriggerPlace(TrigOf[s]) /\ e[2] = ActionPlace(ActOf[s])
  BY <1>3, <1>4, <1>5, <1>6
<1>7. CASE \E u, s \in rs : e[1] = ActionPlace(ActOf[s]) /\ e[2] = TriggerPlace(TrigOf[u])
  <2>1. PICK d \in Edges(rs) : d[2] = e[1] /\ d[1] \in C /\ e[1] \in Reached(d[1])
    BY <1>2, <1>4
  <2>2. PICK s \in rs : d[1] = TriggerPlace(TrigOf[s]) /\ d[2] = ActionPlace(ActOf[s])
    BY <1>7, <2>1, EdgeEnds DEF TriggerPlace, ActionPlace
  <2>3. p \in Reached(d[1])
    BY <1>4, <2>1, ReachedIsTransitive
  <2>4. d[1] \in Reached(p)
    BY <1>1, <2>1, <2>3
  <2>5. d[1] \in Reached(e[1])
    BY <1>4, <2>4, ReachedIsTransitive
  <2> QED BY <1>3, <2>1, <2>2, <2>5
<1> QED BY <1>6, <1>7, EdgeEnds

\* When the searched vertices have no loop and one root, a rule is in the root's
\* cascade.
LEMMA OneRootLeadsToAll ==
  ASSUME NEW rs \in SUBSET Rule, IsFiniteSet(rs), NEW r \in rs, NEW t \in Trigger,
         RootChoices(rs, r) = {t},
         \A s \in rs : TriggerPlace(TrigOf[s]) \in Searched(rs, TrigOf[r]) => ~InLoop(rs, s)
  PROVE  r \in Cascade(rs, t)
<1> DEFINE C == Searched(rs, TrigOf[r])
           Reached(p) == ReachedFrom(Vertices(rs), Edges(rs), p)
<1> SUFFICES ASSUME NEW S \in SUBSET rs, RulesByTrigger(rs, t) \subseteq S,
                    \A s \in S : TriggeredRules(rs, ActOf[s]) \subseteq S,
                    r \notin S
             PROVE  FALSE
  BY DEF Cascade
\* The triggers of the searched rules that the cascade has missed.
<1> DEFINE Missed == {s \in rs : s \notin S /\ TriggerPlace(TrigOf[s]) \in C}
           T == {TriggerPlace(TrigOf[s]) : s \in Missed}
<1>1. T \in SUBSET Vertices(rs) /\ T # {}
  BY SearchedClosed
<1>2. PICK p \in T : \A q \in T : p \in Reached(q) => q \in Reached(p)
  <2> HIDE DEF T
  <2> QED BY <1>1, FirstVertex, VerticesFinite
<1>3. PICK s \in Missed : p = TriggerPlace(TrigOf[s])
  BY <1>2
<1>4. p \notin RootPlaces(rs, r)
  <2> SUFFICES ASSUME p \in RootPlaces(rs, r) PROVE FALSE
    OBVIOUS
  <2>1. TrigOf[s] = t
    BY <1>3 DEF RootChoices, TriggerPlace
  <2> QED BY <1>3, <2>1 DEF RulesByTrigger
<1>5. PICK e \in Edges(rs) : e[2] = p
  BY <1>3, <1>4 DEF RootPlaces
<1>6. PICK u, v \in rs : /\ e[1] = ActionPlace(ActOf[u]) /\ p = TriggerPlace(TrigOf[v])
                         /\ v \in TriggeredRules(rs, ActOf[u])
  BY <1>3, <1>5, EdgeEnds DEF TriggerPlace, ActionPlace
<1>7. s \in TriggeredRules(rs, ActOf[u])
  BY <1>3, <1>6 DEF TriggeredRules, TriggerPlace
<1> DEFINE d == <<TriggerPlace(TrigOf[u]), ActionPlace(ActOf[u])>>
<1>8. d \in Edges(rs) /\ d[1] = TriggerPlace(TrigOf[u]) /\ d[2] = e[1]
  BY <1>6, RuleEdge
<1>9. /\ TriggerPlace(TrigOf[u]) \in Vertices(rs) /\ e[1] \in Vertices(rs)
      /\ p \in Vertices(rs)
  BY <1>3, <1>6, RuleEdge
<1> HIDE DEF d
<1>10. u \in Missed
  <2>1. u \notin S
    BY <1>3, <1>7
  <2>2. TriggerPlace(TrigOf[u]) \in C
    BY <1>3, <1>5, <1>8, SearchedClosed
  <2> QED BY <2>1, <2>2
<1>11. e[1] \in Reached(TriggerPlace(TrigOf[u])) /\ p \in Reached(e[1])
  BY <1>5, <1>8, <1>9, ReachedBasics
<1>12. TriggerPlace(TrigOf[u]) \in Reached(p)
  BY <1>2, <1>10, <1>11, ReachedIsTransitive
<1>13. TriggerPlace(TrigOf[u]) \in Reached(e[1])
  BY <1>11, <1>12, ReachedIsTransitive
<1>14. InLoop(rs, u)
  BY <1>6, <1>13 DEF InLoop
<1> QED BY <1>10, <1>14
==============================================================================
