-------------------------- MODULE PolicyCheckProofs --------------------------
(***************************************************************************)
(* Proofs about PolicyCheck, for every rule set, every ontology and every  *)
(* bound MaxFired: its types, that a simulation run until the net is dead  *)
(* has executed exactly the rules the start trigger leads to, in causal    *)
(* order, why requests fail, that the net implements RuleCascade, what an  *)
(* answer holds, and what bounds the loop that ignores the stop flag.      *)
(***************************************************************************)
EXTENDS PolicyCheckRefinement, RuleNetProofs

(***************************************************************************)
(* Type correctness.                                                       *)
(***************************************************************************)

\* A recorded rule is a fired one.  fired is empty except between the two
\* halves of fireTransition's inner loop, and the thread has done nothing
\* before the request starts it.
Control ==
  /\ spc = "record" <=> fired # NoRule
  /\ spc = "idle" <=> rpc \in {"check", "root", "seed", "looped"}
                       \/ (rpc = "failed" /\ startTrigger = NoTrigger)
  /\ rpc \in {"sleep", "size", "copy", "answered"} => startTrigger # NoTrigger
  /\ spc = "idle" => log = <<>> /\ marking = EmptyMarking

LEMMA TypeInit == Init => TypeOK /\ Control
<1>1. EmptyMarking \in Marking
  BY DEF EmptyMarking, Marking
<1> SUFFICES ASSUME Init PROVE TypeOK /\ Control
  OBVIOUS
<1>2. TypeOK
  <2>1. rules \in SUBSET Rule /\ checked \in Rule /\ copied \in Nat /\ stop \in BOOLEAN
    BY DEF Init
  <2>2. rpc \in {"check", "root", "seed", "sleep", "size", "copy",
                  "looped", "answered", "failed"}
    BY DEF Init
  <2>3. spc \in {"idle", "loop", "inner", "record", "ended"}
    BY DEF Init
  <2>4. executed \in Seq(rules) /\ log \in Seq(rules)
    BY DEF Init
  <2>5. startTrigger \in NetTriggers(rules) \cup {NoTrigger} /\ fired \in rules \cup {NoRule}
    BY DEF Init
  <2>6. marking \in Marking
    BY <1>1 DEF Init
  <2> QED BY <2>1, <2>2, <2>3, <2>4, <2>5, <2>6 DEF TypeOK
<1>3. Control
  BY DEF Init, Control
<1> QED BY <1>2, <1>3

LEMMA TypeStep == TypeOK /\ Control /\ [Next]_vars => TypeOK' /\ Control'
<1> SUFFICES ASSUME TypeOK, Control, [Next]_vars
             PROVE  TypeOK' /\ Control'
  OBVIOUS
<1>1. CASE CheckLoops
  BY <1>1 DEF CheckLoops, TypeOK, Control, inputVars, threadVars
<1>2. CASE GetRoot
  BY <1>2, RootsAreTriggers DEF GetRoot, TypeOK, Control, inputVars, threadVars
<1>3. CASE StartSimulation
  <2>1. startTrigger \in Trigger /\ startTrigger \in Colour
    BY <1>3, RuleNetAssumption DEF StartSimulation, TypeOK, NetTriggers, Colour
  <2>2. marking' \in Marking
    BY <1>3, <2>1, Places, ClearedType, WithTokenType DEF StartSimulation, TypeOK
  <2> QED BY <1>3, <2>2 DEF StartSimulation, TypeOK, Control, inputVars
<1>4. CASE StartFails
  <2>1. marking' \in Marking
    BY <1>4, ClearedType DEF StartFails, TypeOK
  <2>2. Cleared(EmptyMarking) = EmptyMarking
    BY DEF Cleared, EmptyMarking
  <2> QED BY <1>4, <2>1, <2>2 DEF StartFails, TypeOK, Control, inputVars, threadVars
<1>5. CASE SetStop
  BY <1>5 DEF SetStop, TypeOK, Control, inputVars, threadVars
<1>6. CASE ReadSize
  BY <1>6 DEF ReadSize, TypeOK, Control, inputVars, threadVars
<1>7. CASE CopyRules
  BY <1>7 DEF CopyRules, TypeOK, Control, inputVars, threadVars
<1>8. CASE LoopTest
  BY <1>8 DEF LoopTest, TypeOK, Control, inputVars, requestVars
<1>9. CASE FireRule
  <2>1. PICK tr \in EnabledRules(marking, rules) :
          marking' = Fire(marking, tr) /\ fired' = tr.rule
    BY <1>9 DEF FireRule
  <2>2. marking' \in Marking
    BY <2>1, FireType DEF TypeOK
  <2>3. fired' \in rules /\ fired' # NoRule
    BY <2>1, EnabledRulesFire, RuleNetAssumption DEF TypeOK
  <2> QED BY <1>9, <2>2, <2>3 DEF FireRule, TypeOK, Control, inputVars, requestVars
<1>10. CASE RecordRule
  BY <1>10 DEF RecordRule, TypeOK, Control, inputVars, requestVars
<1>11. CASE FireOther
  <2>1. marking' \in Marking
    BY <1>11, FireType DEF FireOther, TypeOK
  <2> QED BY <1>11, <2>1 DEF FireOther, TypeOK, Control, inputVars, requestVars
<1>12. CASE UNCHANGED vars
  BY <1>12 DEF vars, TypeOK, Control
<1> QED
  BY <1>1, <1>2, <1>3, <1>4, <1>5, <1>6, <1>7, <1>8, <1>9, <1>10, <1>11, <1>12
  DEF Next, Request, Thread, Terminated

\* Every variable of a check stays in its type.
THEOREM TypeCorrect == Spec => [](TypeOK /\ Control)
BY TypeInit, TypeStep, PTL DEF Spec

(***************************************************************************)
(* Tokens: every token is where a transition expects its colour.           *)
(***************************************************************************)

TokensInPlace ==
  \A p \in Place, c \in Colour :
    marking[p][c] > 0 => c = ColourOf(p) /\ InNet(rules, p)

LEMMA FireKeepsPlaces ==
  ASSUME TypeOK, TokensInPlace, NEW tr \in Net(rules),
         rules' = rules, marking' = Fire(marking, tr)
  PROVE  TokensInPlace'
<1>1. AllInPlace(Fire(marking, tr), rules)
  BY FiringKeepsPlaces DEF TypeOK, TokensInPlace, AllInPlace
<1> QED BY <1>1 DEF TokensInPlace, AllInPlace

LEMMA TokensStep ==
  TypeOK /\ Control /\ TokensInPlace /\ [Next]_vars => TokensInPlace'
<1> SUFFICES ASSUME TypeOK, Control, TokensInPlace, [Next]_vars
             PROVE  TokensInPlace'
  OBVIOUS
<1>1. CASE UNCHANGED <<rules, marking>>
  BY <1>1 DEF TokensInPlace
<1>2. CASE StartSimulation
  <2>1. /\ marking = EmptyMarking /\ rules' = rules
        /\ startTrigger \in NetTriggers(rules)
        /\ startTrigger \in Trigger /\ startTrigger \in Colour
    BY <1>2, RuleNetAssumption
    DEF StartSimulation, TypeOK, Control, NetTriggers, Colour, inputVars
  <2>2. ASSUME NEW p \in Place, NEW c \in Colour, marking'[p][c] > 0
        PROVE  p = TriggerPlace(startTrigger) /\ c = startTrigger
    <3>1. Cleared(marking) = EmptyMarking
      BY <2>1 DEF Cleared, EmptyMarking
    <3>2. marking' = WithToken(EmptyMarking, TriggerPlace(startTrigger), startTrigger)
      BY <1>2, <3>1 DEF StartSimulation
    <3> QED BY <2>2, <3>2 DEF WithToken, EmptyMarking
  <2>3. InNet(rules, TriggerPlace(startTrigger))
    BY <2>1, TriggerPlaceHasTransition DEF InNet
  <2> QED BY <2>1, <2>2, <2>3, Places DEF TokensInPlace
<1>3. CASE StartFails
  <2>1. marking = EmptyMarking /\ rules' = rules
    BY <1>3 DEF StartFails, Control, inputVars
  <2>2. marking' = EmptyMarking
    BY <1>3, <2>1 DEF StartFails, Cleared, EmptyMarking
  <2> QED BY <2>1, <2>2 DEF TokensInPlace
<1>4. CASE FireRule
  <2>1. \E tr \in Net(rules) : marking' = Fire(marking, tr)
    BY <1>4, EnabledRulesFire DEF FireRule
  <2> QED BY <1>4, <2>1, FireKeepsPlaces DEF FireRule, inputVars
<1>5. CASE FireOther
  BY <1>1, <1>5, FireKeepsPlaces DEF FireOther, inputVars
<1> QED
  BY <1>1, <1>2, <1>3, <1>4, <1>5
  DEF Next, Request, Thread, Terminated, CheckLoops, GetRoot, SetStop, ReadSize, CopyRules,
      LoopTest, RecordRule, vars, inputVars, requestVars, threadVars

LEMMA TokensInit == Init => TokensInPlace
BY DEF Init, TokensInPlace, EmptyMarking

\* An enabled transition finds the token it removes: firing conserves tokens.
THEOREM EnabledTransitionsConsume == Spec => []FiringConsumes
<1>1. TypeOK /\ TokensInPlace => FiringConsumes
  <2> SUFFICES ASSUME TypeOK, TokensInPlace, NEW tr \in Net(rules), Enabled(marking, tr)
               PROVE  marking[tr.in][tr.takes] > 0
    BY DEF FiringConsumes
  <2>1. PICK c \in Colour : marking[tr.in][c] > 0
    BY DEF Enabled
  <2>2. tr.in \in Place /\ tr.takes = ColourOf(tr.in)
    BY NetFields DEF TypeOK
  <2> QED BY <2>1, <2>2 DEF TokensInPlace
<1> QED BY <1>1, TypeInit, TypeStep, TokensInit, TokensStep, PTL DEF Spec

(***************************************************************************)
(* No step robs a transition of its token.                                 *)
(***************************************************************************)
THEOREM NoStepRobs == Spec => NothingRobbed
<1>1. ASSUME TypeOK, Control, [Next]_vars,
             NEW x \in Net(rules), Enabled(marking, x), ~Enabled(marking', x),
             NEW y \in Net(rules), Enabled(marking, y), ~Enabled(marking', y)
      PROVE  x = y
  <2>1. PICK c \in Colour, d \in Colour : marking[x.in][c] > 0 /\ marking[y.in][d] > 0
    BY <1>1 DEF Enabled
  <2>2. x.in \in Place /\ y.in \in Place
    BY <1>1, NetFields DEF TypeOK
  <2>3. ASSUME NEW tr, marking' = Fire(marking, tr) PROVE x = y
    <3>0. marking \in Marking /\ marking' \in Marking
      BY <1>1, <2>3, FireType DEF TypeOK
    <3>1. ASSUME x.in # tr.in PROVE FALSE
      <4>1. marking'[x.in][c] >= marking[x.in][c]
        BY <1>1, <2>2, <2>3, <3>1, FireTokens DEF TypeOK
      <4>2. marking'[x.in][c] \in Nat /\ marking[x.in][c] \in Nat
        BY <2>1, <2>2, <3>0 DEF Marking
      <4> QED BY <1>1, <2>1, <4>1, <4>2 DEF Enabled
    <3>2. ASSUME y.in # tr.in PROVE FALSE
      <4>1. marking'[y.in][d] >= marking[y.in][d]
        BY <1>1, <2>2, <2>3, <3>2, FireTokens DEF TypeOK
      <4>2. marking'[y.in][d] \in Nat /\ marking[y.in][d] \in Nat
        BY <2>1, <2>2, <3>0 DEF Marking
      <4> QED BY <1>1, <2>1, <4>1, <4>2 DEF Enabled
    <3> QED BY <1>1, <3>1, <3>2, UniqueInput
  <2>4. marking # EmptyMarking
    BY <2>1, <2>2 DEF EmptyMarking
  <2>5. ~StartSimulation /\ ~StartFails
    BY <1>1, <2>4 DEF StartSimulation, StartFails, Control
  <2>6. marking' # marking
    BY <1>1
  <2>7. \E tr : marking' = Fire(marking, tr)
    BY <1>1, <2>5, <2>6
    DEF Next, Request, Thread, Terminated, CheckLoops, GetRoot, SetStop, ReadSize, CopyRules,
        LoopTest, FireRule, RecordRule, FireOther, vars
  <2> QED BY <2>3, <2>7
<1>2. TypeOK /\ Control /\ [Next]_vars
        => [\A x, y \in Net(rules) :
              /\ Enabled(marking, x) /\ ~Enabled(marking, x)'
              /\ Enabled(marking, y) /\ ~Enabled(marking, y)'
              => x = y]_vars
  BY <1>1 DEF Enabled
<1> QED BY <1>2, TypeInit, TypeStep, PTL DEF Spec, NothingRobbed

(***************************************************************************)
(* The cascade.  The inductive invariants speak about tokens: a token is   *)
(* upstream of the rules it will reach.  NoRuleForgotten says that what is *)
(* due has a token upstream; TokensExplained says that a token is upstream *)
(* only of what is due.                                                    *)
(***************************************************************************)

\* A rule owed stays owed, unless the firing executes it.
LEMMA OwedStays ==
  ASSUME TypeOK, NEW tr \in Net(rules), rules' = rules, marking' = Fire(marking, tr),
         NEW r \in rules, Owed(r), ~FiresRule(rules, tr, r)
  PROVE  Owed(r)'
<1>1. OnItsWay(marking, rules, r)
  BY DEF Owed, OnItsWay
<1>2. OnItsWay(Fire(marking, tr), rules, r)
  BY <1>1, TokenStays DEF TypeOK
<1> QED BY <1>2 DEF Owed, OnItsWay

(***************************************************************************)
(* What the two halves of the inner loop do to the set of rules fired.     *)
(***************************************************************************)
LEMMA RangeOfAppend ==
  ASSUME NEW S, NEW s \in Seq(S), NEW x \in S
  PROVE  RangeOf(Append(s, x)) = RangeOf(s) \cup {x}
<1>1. /\ DOMAIN s = 1 .. Len(s) /\ Len(s) \in Nat
      /\ DOMAIN Append(s, x) = 1 .. (Len(s) + 1)
      /\ \A i \in 1 .. Len(s) : Append(s, x)[i] = s[i]
      /\ Append(s, x)[Len(s) + 1] = x
  OBVIOUS
<1>2. \A i : i \in 1 .. (Len(s) + 1) <=> i \in 1 .. Len(s) \/ i = Len(s) + 1
  BY <1>1
<1> QED BY <1>1, <1>2 DEF RangeOf

LEMMA FiredByFireRule ==
  ASSUME TypeOK, Control, spc = "inner", log' = log, fired' \in rules
  PROVE  Fired' = Fired \cup {fired'}
<1>1. fired = NoRule /\ fired' # NoRule
  BY RuleNetAssumption DEF Control, TypeOK
<1> QED BY <1>1 DEF Fired

LEMMA FiredByRecordRule ==
  ASSUME TypeOK, Control, RecordRule
  PROVE  Fired' = Fired
<1>1. fired \in rules /\ fired # NoRule /\ log \in Seq(rules)
  BY DEF RecordRule, Control, TypeOK
<1>2. RangeOf(Append(log, fired)) = RangeOf(log) \cup {fired}
  BY <1>1, RangeOfAppend
<1> QED BY <1>1, <1>2 DEF Fired, RecordRule

\* Steps that touch neither tokens nor the rules fired.
Quiet ==
  /\ UNCHANGED <<rules, marking>>
  /\ Fired' = Fired
  /\ Started' = Started
  /\ Started => startTrigger' = startTrigger

\* Every step is quiet, starts the simulation, or fires one transition.
LEMMA StepKinds ==
  ASSUME TypeOK, Control, [Next]_vars
  PROVE  \/ Quiet
         \/ StartSimulation
         \/ FireRule
         \/ FireOther /\ Quiet
         \/ FireOther /\ \E tr \in Net(rules) : Enabled(marking, tr)
                                                 /\ marking' = Fire(marking, tr)
<1>1. CASE CheckLoops \/ SetStop \/ ReadSize \/ CopyRules
  BY <1>1
  DEF CheckLoops, SetStop, ReadSize, CopyRules, Quiet, Fired, Started, inputVars, threadVars
<1>2. CASE GetRoot
  BY <1>2 DEF GetRoot, Control, Quiet, Fired, Started, inputVars, threadVars
<1>3. CASE StartFails
  <2>1. marking = EmptyMarking
    BY <1>3 DEF StartFails, Control
  <2>2. marking' = marking
    BY <1>3, <2>1 DEF StartFails, Cleared, EmptyMarking
  <2> QED BY <1>3, <2>2 DEF StartFails, Quiet, Fired, Started, inputVars, threadVars
<1>4. CASE LoopTest
  BY <1>4 DEF LoopTest, Quiet, Fired, Started, inputVars, requestVars
<1>5. CASE RecordRule
  BY <1>5, FiredByRecordRule DEF RecordRule, Quiet, Started, inputVars, requestVars
<1>6. CASE FireOther
  BY <1>6 DEF FireOther, Quiet, Fired, Started, inputVars, requestVars
<1>7. CASE UNCHANGED vars
  BY <1>7 DEF vars, Quiet, Fired, Started
<1> QED
  BY <1>1, <1>2, <1>3, <1>4, <1>5, <1>6, <1>7 DEF Next, Request, Thread, Terminated

\* FireOther never fires a rule.
LEMMA OthersFireNoRule ==
  ASSUME FireOther, NEW tr, Enabled(marking, tr), NEW r
  PROVE  ~FiresRule(rules, tr, r)
<1> SUFFICES ASSUME FiresRule(rules, tr, r) PROVE FALSE
  OBVIOUS
<1>1. tr \in RuleTransitions(rules)
  BY DEF FiresRule, RuleTransitions
<1> QED BY <1>1 DEF FireOther, EnabledRules

(***************************************************************************)
(* No rule is forgotten.                                                   *)
(***************************************************************************)
LEMMA ForgottenStep ==
  TypeOK /\ Control /\ NoRuleForgotten /\ [Next]_vars => NoRuleForgotten'
<1> SUFFICES ASSUME TypeOK, Control, NoRuleForgotten, [Next]_vars
             PROVE  NoRuleForgotten'
  OBVIOUS
<1>1. CASE Quiet
  BY <1>1 DEF Quiet, NoRuleForgotten, Activated, Owed
<1>2. CASE StartSimulation
  <2>1. /\ spc = "idle" /\ log = <<>> /\ fired = NoRule /\ marking = EmptyMarking
        /\ rules' = rules /\ log' = log /\ fired' = fired
        /\ startTrigger' = startTrigger
        /\ startTrigger \in NetTriggers(rules) /\ startTrigger \in Colour
        /\ TriggerPlace(startTrigger) \in Place
    BY <1>2, RuleNetAssumption, Places
    DEF StartSimulation, Control, TypeOK, NetTriggers, Colour, inputVars
  <2>2. Fired' = {}
    BY <2>1 DEF Fired, RangeOf
  <2>3. marking'[TriggerPlace(startTrigger)][startTrigger] > 0
    <3>1. marking' = WithToken(EmptyMarking, TriggerPlace(startTrigger), startTrigger)
      BY <1>2, <2>1 DEF StartSimulation, Cleared, EmptyMarking
    <3> QED BY <2>1, <3>1 DEF WithToken, EmptyMarking
  <2> QED BY <2>1, <2>2, <2>3 DEF NoRuleForgotten, Activated, Owed
<1>3. CASE FireRule
  <2>1. PICK tr \in EnabledRules(marking, rules) :
          marking' = Fire(marking, tr) /\ fired' = tr.rule
    BY <1>3 DEF FireRule
  <2>2. /\ tr \in Net(rules) /\ fired' \in rules /\ FiresRule(rules, tr, fired')
        /\ rules' = rules /\ startTrigger' = startTrigger /\ Started' = Started
        /\ log' = log /\ spc = "inner"
    BY <1>3, <2>1, EnabledRulesFire DEF FireRule, Started, inputVars, requestVars
  <2>3. Fired' = Fired \cup {fired'}
    BY <2>2, FiredByFireRule
  <2>4. ASSUME NEW r \in rules, Owed(r), r # fired' PROVE Owed(r)'
    <3>1. ~FiresRule(rules, tr, r)
      BY <2>2, <2>4 DEF FiresRule, Transition
    <3> QED BY <2>1, <2>2, <2>4, <3>1, OwedStays
  <2>5. ASSUME NEW r \in rules, Causes(ActOf[fired'], TrigOf[r]) PROVE Owed(r)'
    <3>1. /\ ActOf[fired'] \in NetActions(rules) /\ ActOf[fired'] \in Action
          /\ ActOf[fired'] \in Colour /\ ActionPlace(ActOf[fired']) \in Place
      BY <2>2, RuleNetAssumption, Places DEF NetActions, TypeOK, Colour
    <3>2. ActionPlace(ActOf[fired']) \in tr.out /\ tr.gives = ActOf[fired']
      BY <2>2 DEF FiresRule, Transition
    <3>3. marking'[ActionPlace(ActOf[fired'])][ActOf[fired']] > 0
      BY <2>1, <3>1, <3>2, FireTokens DEF TypeOK
    <3> QED BY <2>2, <2>5, <3>1, <3>3 DEF Owed
  <2> SUFFICES ASSUME NEW r \in rules, Activated(TrigOf[r])', r \notin Fired'
               PROVE  Owed(r)'
    BY <2>2 DEF NoRuleForgotten
  <2>6. Activated(TrigOf[r]) \/ Causes(ActOf[fired'], TrigOf[r])
    BY <2>2, <2>3 DEF Activated
  <2> QED BY <2>3, <2>4, <2>5, <2>6 DEF NoRuleForgotten
<1>4. ASSUME FireOther, NEW tr \in Net(rules), Enabled(marking, tr),
             marking' = Fire(marking, tr)
      PROVE  NoRuleForgotten'
  <2>1. /\ rules' = rules /\ startTrigger' = startTrigger /\ Fired' = Fired
        /\ Started' = Started
    BY <1>4 DEF FireOther, Fired, Started, inputVars, requestVars
  <2>2. \A r \in rules : Owed(r) => Owed(r)'
    BY <1>4, <2>1, OwedStays, OthersFireNoRule
  <2> QED BY <2>1, <2>2 DEF NoRuleForgotten, Activated
<1> QED BY <1>1, <1>2, <1>3, <1>4, StepKinds

LEMMA ForgottenInit == Init => NoRuleForgotten
BY DEF Init, NoRuleForgotten, Activated, Started, Fired, RangeOf

\* Whatever transitions the thread picks, a rule whose trigger has occurred has
\* been fired or has a token on its way.
THEOREM NoActivationIsLost == Spec => []NoRuleForgotten
BY TypeInit, TypeStep, ForgottenInit, ForgottenStep, PTL DEF Spec

(***************************************************************************)
(* Every token is explained: it is upstream only of rules whose trigger    *)
(* has occurred.                                                           *)
(***************************************************************************)
TokensExplained ==
  \A p \in Place, c \in Colour, r \in rules :
    marking[p][c] > 0 /\ Upstream(p, r) => Activated(TrigOf[r])

\* The rule in hand has its cause in the list already.
FiredExplained ==
  fired # NoRule =>
    \/ TrigOf[fired] = startTrigger
    \/ \E i \in DOMAIN log : Causes(ActOf[log[i]], TrigOf[fired])

\* What has occurred stays so.
LEMMA ActivatedStays ==
  ASSUME Fired \subseteq Fired', Started' = Started,
         Started => startTrigger' = startTrigger,
         NEW t, Activated(t)
  PROVE  Activated(t)'
BY DEF Activated

LEMMA ExplainedFiring ==
  ASSUME TypeOK, TokensExplained, NEW tr \in Net(rules), Enabled(marking, tr),
         rules' = rules, marking' = Fire(marking, tr),
         Fired \subseteq Fired', Started' = Started, startTrigger' = startTrigger,
         \A r \in rules : FiresRule(rules, tr, r) => r \in Fired'
  PROVE  TokensExplained'
<1> SUFFICES ASSUME NEW p \in Place, NEW c \in Colour, NEW r \in rules,
                    Fire(marking, tr)[p][c] > 0, Upstream(p, r)
             PROVE  Activated(TrigOf[r])'
  BY DEF TokensExplained
<1>1. CASE marking[p][c] > 0
  BY <1>1, ActivatedStays DEF TokensExplained
<1>2. CASE p \in tr.out
  <2>1. CASE Upstream(tr.in, r)
    <3>1. tr.in \in Place /\ \E d \in Colour : marking[tr.in][d] > 0
      BY NetFields DEF TypeOK, Enabled
    <3>2. Activated(TrigOf[r])
      BY <2>1, <3>1 DEF TokensExplained
    <3> QED BY <3>2, ActivatedStays
  <2>2. CASE \E s \in rules : FiresRule(rules, tr, s) /\ Causes(ActOf[s], TrigOf[r])
    BY <2>2 DEF Activated
  <2> QED BY <1>2, <2>1, <2>2, FiringFollowsCauses DEF TypeOK
<1> QED BY <1>1, <1>2, FireTokens DEF TypeOK

LEMMA ExplainedStep ==
  TypeOK /\ Control /\ TokensExplained /\ [Next]_vars => TokensExplained'
<1> SUFFICES ASSUME TypeOK, Control, TokensExplained, [Next]_vars
             PROVE  TokensExplained'
  OBVIOUS
<1>1. CASE Quiet
  BY <1>1, ActivatedStays DEF Quiet, TokensExplained
<1>2. CASE StartSimulation
  <2>1. /\ marking' = WithToken(EmptyMarking, TriggerPlace(startTrigger), startTrigger)
        /\ rules' = rules /\ startTrigger' = startTrigger /\ Started'
    BY <1>2 DEF StartSimulation, Control, Cleared, EmptyMarking, Started, inputVars
  <2> SUFFICES ASSUME NEW p \in Place, NEW c \in Colour, NEW r \in rules,
                      marking'[p][c] > 0, Upstream(p, r)
               PROVE  Activated(TrigOf[r])'
    BY <2>1 DEF TokensExplained
  <2>2. p = TriggerPlace(startTrigger)
    BY <2>1 DEF WithToken, EmptyMarking
  <2>3. TrigOf[r] = startTrigger
    BY <2>2, PlacesDiffer DEF Upstream
  <2> QED BY <2>1, <2>3 DEF Activated
<1>3. CASE FireRule
  <2>1. PICK tr \in EnabledRules(marking, rules) :
          marking' = Fire(marking, tr) /\ fired' = tr.rule
    BY <1>3 DEF FireRule
  <2>2. /\ tr \in Net(rules) /\ Enabled(marking, tr) /\ fired' \in rules
        /\ rules' = rules /\ startTrigger' = startTrigger /\ Started' = Started
        /\ log' = log /\ spc = "inner"
    BY <1>3, <2>1, EnabledRulesFire DEF FireRule, Started, inputVars, requestVars
  <2>3. Fired' = Fired \cup {fired'}
    BY <2>2, FiredByFireRule
  <2>4. \A r \in rules : FiresRule(rules, tr, r) => r = fired'
    BY <2>1 DEF FiresRule, Transition
  <2> QED BY <2>1, <2>2, <2>3, <2>4, ExplainedFiring
<1>4. ASSUME FireOther, NEW tr \in Net(rules), Enabled(marking, tr),
             marking' = Fire(marking, tr)
      PROVE  TokensExplained'
  <2>1. /\ rules' = rules /\ startTrigger' = startTrigger /\ Fired' = Fired
        /\ Started' = Started
    BY <1>4 DEF FireOther, Fired, Started, inputVars, requestVars
  <2> QED BY <1>4, <2>1, ExplainedFiring, OthersFireNoRule
<1> QED BY <1>1, <1>2, <1>3, <1>4, StepKinds

LEMMA ExplainedInit == Init => TokensExplained
BY DEF Init, TokensExplained, EmptyMarking

\* The trigger of the rule a step fires has occurred before.
LEMMA FiredWasActivated ==
  ASSUME TypeOK, TokensExplained, FireRule
  PROVE  fired' \in rules /\ Activated(TrigOf[fired'])
<1>1. PICK tr \in EnabledRules(marking, rules) : fired' = tr.rule
  BY DEF FireRule
<1>2. /\ tr \in Net(rules) /\ Enabled(marking, tr)
      /\ fired' \in rules /\ FiresRule(rules, tr, fired')
  BY <1>1, EnabledRulesFire
<1>3. tr.in \in Place /\ \E c \in Colour : marking[tr.in][c] > 0
  BY <1>2, NetFields DEF TypeOK, Enabled
<1> QED BY <1>2, <1>3, RuleIsDownstream DEF TokensExplained

(***************************************************************************)
(* The simulation executes no more and no less than the cascade.           *)
(***************************************************************************)
\* Nothing fired is outside the cascade.
FiredInCascade ==
  /\ ~Started => Fired = {}
  /\ Started => Fired \subseteq Cascade(rules, startTrigger)

LEMMA CascadeStep ==
  /\ TypeOK /\ Control /\ TokensExplained /\ FiredInCascade /\ [Next]_vars
  => FiredInCascade'
<1> SUFFICES ASSUME TypeOK, Control, TokensExplained, FiredInCascade, [Next]_vars
             PROVE  FiredInCascade'
  OBVIOUS
<1>1. CASE Quiet
  BY <1>1 DEF Quiet, FiredInCascade
<1>2. CASE StartSimulation
  <2>1. /\ ~Started /\ rules' = rules /\ startTrigger' = startTrigger
        /\ Fired' = Fired /\ Started'
    BY <1>2 DEF StartSimulation, Control, Started, Fired, inputVars
  <2> QED BY <2>1 DEF FiredInCascade
<1>3. CASE FireRule
  <2>1. fired' \in rules /\ Activated(TrigOf[fired'])
    BY <1>3, FiredWasActivated
  <2>2. /\ rules' = rules /\ startTrigger' = startTrigger /\ Started' = Started
        /\ Started /\ log' = log /\ spc = "inner"
    BY <1>3 DEF FireRule, Started, inputVars, requestVars
  <2>3. Fired' = Fired \cup {fired'}
    BY <2>1, <2>2, FiredByFireRule
  <2>4. \/ fired' \in RulesByTrigger(rules, startTrigger)
        \/ \E s \in Fired : fired' \in TriggeredRules(rules, ActOf[s])
    BY <2>1 DEF Activated, RulesByTrigger, TriggeredRules
  <2>5. fired' \in Cascade(rules, startTrigger)
    BY <2>2, <2>4, CascadeIsClosed DEF FiredInCascade
  <2> QED BY <2>2, <2>3, <2>5 DEF FiredInCascade
<1>4. CASE FireOther
  BY <1>4 DEF FireOther, FiredInCascade, Fired, Started, inputVars, requestVars
<1> QED BY <1>1, <1>2, <1>3, <1>4, StepKinds

LEMMA CascadeInit == Init => FiredInCascade
BY DEF Init, FiredInCascade, Fired, RangeOf, Started

\* A token on the way to a rule keeps the net alive.
LEMMA OwedKeepsAlive ==
  ASSUME TypeOK, TokensInPlace, NEW r \in rules, Owed(r)
  PROVE  ~Dead(marking, rules)
<1>1. OnItsWay(marking, rules, r) /\ AllInPlace(marking, rules)
  BY DEF Owed, OnItsWay, TokensInPlace, AllInPlace
<1> QED BY <1>1, TokenKeepsAlive DEF TypeOK

\* A simulation that ends because the net is dead has executed exactly the
\* rules the start trigger leads to.
THEOREM DeadNetIsComplete == Spec => []CompleteAtDeadlock
<1>1. ASSUME TypeOK, Control, TokensInPlace, NoRuleForgotten, FiredInCascade
      PROVE  CompleteAtDeadlock
  <2> SUFFICES ASSUME spc = "ended", Dead(marking, rules)
               PROVE  RangeOf(log) = Cascade(rules, startTrigger)
    BY DEF CompleteAtDeadlock
  <2>1. Started /\ Fired = RangeOf(log)
    BY <1>1 DEF Control, Started, Fired
  <2>2. Fired \in SUBSET rules
    BY <1>1, <2>1, CascadeIsClosed DEF FiredInCascade
  <2>3. \A r \in rules : Activated(TrigOf[r]) => r \in Fired
    BY <1>1, OwedKeepsAlive DEF NoRuleForgotten
  <2>4. RulesByTrigger(rules, startTrigger) \subseteq Fired
    BY <2>1, <2>3 DEF RulesByTrigger, Activated
  <2>5. \A s \in Fired : TriggeredRules(rules, ActOf[s]) \subseteq Fired
    BY <2>3 DEF TriggeredRules, Activated
  <2>6. Cascade(rules, startTrigger) \subseteq Fired
    BY <2>2, <2>4, <2>5, CascadeIsLeast
  <2> QED BY <1>1, <2>1, <2>6 DEF FiredInCascade
<1> QED
  BY <1>1, TypeInit, TypeStep, TokensInit, TokensStep, ForgottenInit, ForgottenStep,
     ExplainedInit, ExplainedStep, CascadeInit, CascadeStep, PTL DEF Spec

(***************************************************************************)
(* The list is in causal order.                                            *)
(***************************************************************************)
LEMMA CausalStep ==
  TypeOK /\ Control /\ TokensExplained /\ FiredExplained /\ CausalLog /\ [Next]_vars
  => FiredExplained' /\ CausalLog'
<1> SUFFICES ASSUME TypeOK, Control, TokensExplained, FiredExplained, CausalLog,
                    [Next]_vars
             PROVE  FiredExplained' /\ CausalLog'
  OBVIOUS
<1>1. CASE UNCHANGED <<log, fired, startTrigger>>
  BY <1>1 DEF FiredExplained, CausalLog
<1>2. CASE GetRoot
  <2>1. log' = <<>> /\ fired' = NoRule
    BY <1>2 DEF GetRoot, Control, threadVars
  <2> QED BY <2>1 DEF FiredExplained, CausalLog
<1>3. CASE FireRule
  <2>1. fired' \in rules /\ Activated(TrigOf[fired'])
    BY <1>3, FiredWasActivated
  <2>2. fired = NoRule /\ log' = log /\ startTrigger' = startTrigger
    BY <1>3 DEF FireRule, Control, requestVars
  <2>3. CausalLog'
    BY <2>2 DEF CausalLog
  <2>4. Fired = RangeOf(log)
    BY <2>2 DEF Fired
  <2> QED BY <2>1, <2>2, <2>3, <2>4 DEF FiredExplained, Activated, RangeOf
<1>4. CASE RecordRule
  <2>1. /\ fired \in rules /\ fired # NoRule /\ log \in Seq(rules)
        /\ log' = Append(log, fired) /\ fired' = NoRule /\ startTrigger' = startTrigger
    BY <1>4 DEF RecordRule, Control, TypeOK, requestVars
  <2>2. /\ DOMAIN log = 1 .. Len(log) /\ Len(log) \in Nat
        /\ DOMAIN log' = 1 .. (Len(log) + 1)
        /\ \A i \in 1 .. Len(log) : log'[i] = log[i]
        /\ log'[Len(log) + 1] = fired
    BY <2>1
  <2>3. ASSUME NEW i \in 1 .. Len(log)
        PROVE  \/ TrigOf[log'[i]] = startTrigger
               \/ \E j \in 1 .. (i - 1) : Causes(ActOf[log'[j]], TrigOf[log'[i]])
    <3>1. \A j \in 1 .. (i - 1) : j \in 1 .. Len(log)
      BY <2>2
    <3> QED BY <2>2, <3>1 DEF CausalLog
  <2>4. \/ TrigOf[fired] = startTrigger
        \/ \E j \in 1 .. Len(log) : Causes(ActOf[log'[j]], TrigOf[fired])
    BY <2>1, <2>2 DEF FiredExplained
  <2>5. ASSUME NEW i \in DOMAIN log'
        PROVE  \/ TrigOf[log'[i]] = startTrigger
               \/ \E j \in 1 .. (i - 1) : Causes(ActOf[log'[j]], TrigOf[log'[i]])
    <3>1. CASE i = Len(log) + 1
      <4>1. 1 .. (i - 1) = 1 .. Len(log)
        BY <2>2, <3>1
      <4> QED BY <2>2, <2>4, <3>1, <4>1
    <3>2. CASE i # Len(log) + 1
      <4>1. i \in 1 .. Len(log)
        BY <2>2, <3>2
      <4> QED BY <2>3, <4>1
    <3> QED BY <3>1, <3>2
  <2> QED BY <2>1, <2>5 DEF CausalLog, FiredExplained
<1> QED
  BY <1>1, <1>2, <1>3, <1>4
  DEF Next, Request, Thread, Terminated, CheckLoops, StartSimulation, StartFails, SetStop,
      ReadSize, CopyRules, LoopTest, FireOther, vars, inputVars, requestVars, threadVars

LEMMA CausalInit == Init => FiredExplained /\ CausalLog
BY DEF Init, FiredExplained, CausalLog

\* Each recorded rule was started by the start trigger or caused by a rule
\* recorded before it, whenever the list is read.
THEOREM LogIsCausal == Spec => []CausalLog
BY TypeInit, TypeStep, ExplainedInit, ExplainedStep,
   CausalInit, CausalStep, PTL DEF Spec

(***************************************************************************)
(* Roots.  What is stored is finite, and a check without a start trigger   *)
(* has not found a root.                                                   *)
(***************************************************************************)
RootKnown ==
  /\ IsFiniteSet(rules)
  /\ rpc \in {"seed", "failed"} /\ startTrigger = NoTrigger => RootPlaces(rules, checked) = {}
  /\ rpc = "failed" /\ startTrigger # NoTrigger => Len(log) > copied

LEMMA RootInit == Init => RootKnown
  BY DEF Init, RootKnown

LEMMA RootStep == TypeOK /\ Control /\ RootKnown /\ [Next]_vars => RootKnown'
<1> SUFFICES ASSUME TypeOK, Control, RootKnown, [Next]_vars
             PROVE  RootKnown'
  OBVIOUS
<1>1. CASE GetRoot
  <2>1. RootPlaces(rules, checked) # {} => startTrigger' \in NetTriggers(rules)
    BY <1>1, RootsFound DEF GetRoot, TypeOK
  <2>2. NetTriggers(rules) \subseteq Trigger
    BY RuleNetAssumption DEF TypeOK, NetTriggers
  <2> QED BY <1>1, <2>1, <2>2, RuleNetAssumption DEF GetRoot, RootKnown, inputVars, threadVars
<1>2. CASE CheckLoops \/ StartSimulation \/ StartFails \/ SetStop \/ ReadSize
  BY <1>2 DEF CheckLoops, StartSimulation, StartFails, SetStop, ReadSize, RootKnown,
              inputVars, threadVars
<1>3. CASE CopyRules
  BY <1>3 DEF CopyRules, Control, RootKnown, inputVars, threadVars
<1>4. CASE LoopTest \/ FireRule \/ FireOther \/ Terminated \/ UNCHANGED vars
  BY <1>4 DEF LoopTest, FireRule, FireOther, Terminated, vars, RootKnown, inputVars, requestVars
<1>5. CASE RecordRule
  <2>1. Len(log') = Len(log) + 1 /\ Len(log) \in Nat /\ copied \in Nat
    BY <1>5 DEF RecordRule, TypeOK, Control
  <2> QED BY <1>5, <2>1 DEF RecordRule, RootKnown, inputVars, requestVars
<1> QED BY <1>1, <1>2, <1>3, <1>4, <1>5 DEF Next, Request, Thread

\* A request fails only when the list grew under the copy, or every stored rule is
\* caused by a stored one: whatever rule is checked, one that nothing causes, if
\* there is one, is a root for it.
THEOREM FailuresExplained == Spec => []FailureCauses
<1>1. ASSUME TypeOK, Control, RootKnown PROVE FailureCauses
  <2> SUFFICES ASSUME rpc = "failed", ~(Len(log) > copied), NEW r \in rules
               PROVE  \E s \in rules : Causes(ActOf[s], TrigOf[r])
    BY DEF FailureCauses
  <2>1. RootPlaces(rules, checked) = {} /\ rules \in SUBSET Rule
    BY <1>1 DEF RootKnown, TypeOK
  <2> QED BY <2>1, RootlessAllCaused
<1> QED BY <1>1, TypeInit, TypeStep, RootInit, RootStep, PTL DEF Spec

\* When the searched vertices have one root and no loop, a simulation that runs to
\* its end executes the rule that is checked.
THEOREM OneRootExecutesChecked == Spec => []UniqueRootReachesChecked
<1>1. ASSUME TypeOK, Control, RootKnown, CompleteAtDeadlock PROVE UniqueRootReachesChecked
  <2> SUFFICES ASSUME spc = "ended", Dead(marking, rules), checked \in rules,
                      RootChoices(rules, checked) = {startTrigger}, ~LoopSearched
               PROVE  checked \in RangeOf(log)
    BY DEF UniqueRootReachesChecked
  <2>1. startTrigger \in NetTriggers(rules)
    BY <1>1 DEF Control, TypeOK
  <2>2. startTrigger \in Trigger
    BY <1>1, <2>1, RuleNetAssumption DEF NetTriggers, TypeOK
  <2>3. checked \in Cascade(rules, startTrigger)
    BY <1>1, <2>2, OneRootLeadsToAll DEF RootKnown, TypeOK, LoopSearched
  <2> QED BY <1>1, <2>3 DEF CompleteAtDeadlock
<1> QED
  BY <1>1, TypeInit, TypeStep, RootInit, RootStep, DeadNetIsComplete, PTL DEF Spec

NoLoopAnswer == rpc # "looped"

\* No check is answered with a loop, whatever is stored and checked: the test of
\* checkRule ("involved") recognises no rule of a loop.
THEOREM LoopsGoUnreported == Spec => []NoLoopAnswer
<1>1. Init => NoLoopAnswer
  BY DEF Init, NoLoopAnswer
<1>2. ASSUME TypeOK, NoLoopAnswer, [Next]_vars PROVE NoLoopAnswer'
  <2> USE DEF NoLoopAnswer
  <2>1. CASE CheckLoops
    BY <1>2, <2>1, NoLoopReported DEF CheckLoops, TypeOK
  <2>2. CASE GetRoot \/ StartSimulation \/ StartFails \/ SetStop \/ ReadSize \/ CopyRules
    BY <2>2 DEF GetRoot, StartSimulation, StartFails, SetStop, ReadSize, CopyRules
  <2>3. CASE LoopTest \/ FireRule \/ RecordRule \/ FireOther
    BY <1>2, <2>3 DEF LoopTest, FireRule, RecordRule, FireOther, requestVars
  <2>4. CASE Terminated \/ UNCHANGED vars
    BY <1>2, <2>4 DEF Terminated, vars
  <2> QED BY <1>2, <2>1, <2>2, <2>3, <2>4 DEF Next, Request, Thread
<1> QED BY <1>1, <1>2, TypeInit, TypeStep, PTL DEF Spec

(***************************************************************************)
(* Sums: how they change when one summand does.                            *)
(***************************************************************************)
LEMMA TimesFinite ==
  ASSUME NEW f, NEW x, f[x] \in Nat
  PROVE  IsFiniteSet(Times(f, x))
<1> DEFINE g == [k \in 1 .. f[x] |-> <<x, k>>]
<1>1. g \in Surjection(1 .. f[x], Times(f, x))
  BY DEF Surjection, Times
<1>2. IsFiniteSet(1 .. f[x])
  BY FS_Interval
<1> HIDE DEF g
<1> QED BY <1>1, <1>2, FS_Surjection

LEMMA SumFinite ==
  ASSUME NEW W, IsFiniteSet(W), NEW f \in [W -> Nat]
  PROVE  IsFiniteSet(UNION {Times(f, x) : x \in DOMAIN f}) /\ Sum(f) \in Nat
<1> DEFINE S == {Times(f, x) : x \in DOMAIN f}
           g == [x \in W |-> Times(f, x)]
<1>1. g \in Surjection(W, S)
  BY DEF Surjection
<1>2. \A T \in S : IsFiniteSet(T)
  BY TimesFinite
<1>3. IsFiniteSet(S)
  <2> HIDE DEF g, S
  <2> QED BY <1>1, FS_Surjection
<1>4. IsFiniteSet(UNION S)
  <2> HIDE DEF S
  <2> QED BY <1>2, <1>3, FS_UNION
<1> QED BY <1>4, FS_CardinalityType DEF Sum

LEMMA SumOfNothing ==
  ASSUME NEW W, NEW f \in [W -> Nat], \A x \in W : f[x] = 0
  PROVE  Sum(f) = 0
<1>1. UNION {Times(f, x) : x \in DOMAIN f} = {}
  BY DEF Times
<1> QED BY <1>1, FS_EmptySet DEF Sum

LEMMA OneMore ==
  ASSUME NEW W, IsFiniteSet(W), NEW f \in [W -> Nat], NEW g \in [W -> Nat], NEW x \in W,
         g[x] = f[x] + 1, \A y \in W \ {x} : g[y] = f[y]
  PROVE  Sum(g) = Sum(f) + 1
<1> DEFINE F == UNION {Times(f, y) : y \in DOMAIN f}
           G == UNION {Times(g, y) : y \in DOMAIN g}
           last == <<x, f[x] + 1>>
<1>1. Times(g, x) = Times(f, x) \cup {last}
  <2>1. \A k : k \in 1 .. (f[x] + 1) <=> k \in 1 .. f[x] \/ k = f[x] + 1
    OBVIOUS
  <2> QED BY <2>1 DEF Times
<1>2. \A y \in W \ {x} : Times(g, y) = Times(f, y)
  BY DEF Times
<1>3. G = F \cup {last}
  <2>1. \A z : z \in G <=> \E y \in W : z \in Times(g, y)
    OBVIOUS
  <2>2. \A z : z \in F <=> \E y \in W : z \in Times(f, y)
    OBVIOUS
  <2> HIDE DEF F, G, last
  <2> QED BY <1>1, <1>2, <2>1, <2>2
<1>4. last \notin F
  BY DEF Times
<1>5. IsFiniteSet(F) /\ Sum(f) = Cardinality(F) /\ Sum(g) = Cardinality(G)
  BY SumFinite DEF Sum
<1> HIDE DEF F, G, last
<1> QED BY <1>3, <1>4, <1>5, FS_AddElement

\* What a firing does to a sum: at most one summand loses one, at most one gains one.
LEMMA SumMoves ==
  ASSUME NEW W, IsFiniteSet(W), NEW f \in [W -> Nat], NEW g \in [W -> Nat],
         NEW in, NEW O, in \notin O, in \in W => f[in] > 0,
         \A x, y \in O \cap W : x = y,
         \A w \in W : g[w] = (IF w = in THEN f[w] - 1 ELSE f[w]) + (IF w \in O THEN 1 ELSE 0)
  PROVE  /\ in \in W => Sum(f) > 0
         /\ Sum(g) = (IF in \in W THEN Sum(f) - 1 ELSE Sum(f))
                       + (IF O \cap W = {} THEN 0 ELSE 1)
<1> DEFINE mid == [w \in W |-> IF w = in THEN f[w] - 1 ELSE f[w]]
<1>1. mid \in [W -> Nat]
  OBVIOUS
<1>2. \A w \in W : mid[w] = IF w = in THEN f[w] - 1 ELSE f[w]
  OBVIOUS
<1> HIDE DEF mid
<1>3. Sum(f) \in Nat /\ Sum(g) \in Nat /\ Sum(mid) \in Nat
  BY <1>1, SumFinite
<1>4. Sum(f) = Sum(mid) + (IF in \in W THEN 1 ELSE 0)
  <2>1. CASE in \in W
    BY <1>1, <1>2, <1>3, <2>1, OneMore
  <2>2. CASE in \notin W
    <3>1. f = mid
      BY <1>1, <1>2, <2>2
    <3> QED BY <1>3, <2>2, <3>1
  <2> QED BY <2>1, <2>2
<1>5. Sum(g) = Sum(mid) + (IF O \cap W = {} THEN 0 ELSE 1)
  <2>1. CASE O \cap W = {}
    <3>1. g = mid
      BY <1>1, <1>2, <2>1
    <3> QED BY <1>3, <2>1, <3>1
  <2>2. CASE O \cap W # {}
    <3>1. PICK x \in O \cap W : TRUE
      BY <2>2
    <3>2. g[x] = mid[x] + 1 /\ \A y \in W \ {x} : g[y] = mid[y]
      BY <1>1, <1>2, <3>1
    <3> QED BY <1>1, <2>2, <3>1, <3>2, OneMore
  <2> QED BY <2>1, <2>2
<1> QED BY <1>3, <1>4, <1>5

(***************************************************************************)
(* Tokens on the way to a rule.                                            *)
(***************************************************************************)
LEMMA WayFinite ==
  ASSUME NEW rs \in SUBSET Rule, IsFiniteSet(rs), NEW r
  PROVE  IsFiniteSet(WayTo(rs, r))
<1> DEFINE t == TrigOf[r]
           A == {<<ActionPlace(a), a>> : a \in NetActions(rs)}
           B == {<<CopyOfAction(a, t), a>> : a \in NetActions(rs)}
           f == [s \in rs |-> <<ActionPlace(ActOf[s]), ActOf[s]>>]
           g == [s \in rs |-> <<CopyOfAction(ActOf[s], t), ActOf[s]>>]
           C == {<<TriggerPlace(t), t>>} \cup {<<CopyOfTrigger(r), t>>}
<1>1. f \in Surjection(rs, A)
  BY DEF Surjection, NetActions
<1>2. g \in Surjection(rs, B)
  BY DEF Surjection, NetActions
<1>3. IsFiniteSet(A)
  <2> HIDE DEF f, A
  <2> QED BY <1>1, FS_Surjection
<1>4. IsFiniteSet(B)
  <2> HIDE DEF g, B
  <2> QED BY <1>2, FS_Surjection
<1>5. IsFiniteSet(C)
  BY FS_Singleton, FS_Union
<1>6. WayTo(rs, r) \subseteq C \cup A \cup B
  BY DEF WayTo
<1> HIDE DEF A, B, C
<1>7. IsFiniteSet(C \cup A \cup B)
  BY <1>3, <1>4, <1>5, FS_Union
<1> QED BY <1>6, <1>7, FS_Subset

LEMMA WayIsInNet ==
  ASSUME NEW rs \in SUBSET Rule, NEW r \in rs, NEW w \in WayTo(rs, r)
  PROVE  w = <<w[1], w[2]>> /\ w[1] \in Place /\ w[2] \in Colour
<1>1. TrigOf[r] \in Trigger /\ NetActions(rs) \subseteq Action
  BY RuleNetAssumption DEF NetActions
<1> QED BY <1>1, Places DEF WayTo, Colour

\* The arcs of a transition as pairs of place and colour, and which are on the way
\* to rule r.
Taken(tr) == <<tr.in, tr.takes>>
Given(tr) == {<<p, tr.gives>> : p \in tr.out}

LEMMA WayOfRule ==
  ASSUME NEW rs \in SUBSET Rule, NEW r \in rs, NEW tr, NEW s, FiresRule(rs, tr, s)
  PROVE  /\ Taken(tr) \in WayTo(rs, r) <=> r = s
         /\ Given(tr) \cap WayTo(rs, r) # {} <=> r \in TriggeredRules(rs, ActOf[s])
         /\ \A x, y \in Given(tr) : x = y
         /\ Taken(tr) \notin Given(tr)
<1>1. s \in rs /\ tr.out = {ActionPlace(ActOf[s])} /\ tr.takes = TrigOf[s] /\ tr.gives = ActOf[s]
  BY DEF FiresRule, Transition
<1>2. Given(tr) = {<<ActionPlace(ActOf[s]), ActOf[s]>>}
  BY <1>1 DEF Given
<1>3. \/ tr.in = TriggerPlace(TrigOf[s]) /\ RulesByTrigger(rs, TrigOf[s]) = {s}
      \/ tr.in = CopyOfTrigger(s)
  BY InputOfRule
<1>4. Taken(tr) \in WayTo(rs, r) <=> r = s
  BY <1>1, <1>3, PlacesDiffer DEF WayTo, Taken, RulesByTrigger
<1>5. <<ActionPlace(ActOf[s]), ActOf[s]>> \in WayTo(rs, r) <=> r \in TriggeredRules(rs, ActOf[s])
  BY <1>1, PlacesDiffer DEF WayTo, TriggeredRules, NetActions
<1>6. Taken(tr) \notin Given(tr)
  BY <1>2, <1>3, PlacesDiffer DEF Taken
<1> QED BY <1>2, <1>4, <1>5, <1>6

LEMMA WayOfOthers ==
  ASSUME NEW rs \in SUBSET Rule, NEW r \in rs, NEW tr \in Net(rs),
         \A s \in rs : ~FiresRule(rs, tr, s)
  PROVE  /\ Given(tr) \cap WayTo(rs, r) # {} <=> Taken(tr) \in WayTo(rs, r)
         /\ \A x, y \in Given(tr) \cap WayTo(rs, r) : x = y
         /\ Taken(tr) \notin Given(tr)
<1>1. ASSUME NEW t, CopiesTrigger(rs, tr, t)
      PROVE  /\ Given(tr) \cap WayTo(rs, r) # {} <=> Taken(tr) \in WayTo(rs, r)
             /\ \A x, y \in Given(tr) \cap WayTo(rs, r) : x = y
             /\ Taken(tr) \notin Given(tr)
  <2>1. /\ Taken(tr) = <<TriggerPlace(t), t>>
        /\ Given(tr) = {<<CopyOfTrigger(s), t>> : s \in RulesByTrigger(rs, t)}
    BY <1>1 DEF CopiesTrigger, Transition, Taken, Given
  <2>2. Taken(tr) \in WayTo(rs, r) <=> TrigOf[r] = t
    BY <2>1, PlacesDiffer DEF WayTo
  <2>3. \A x : x \in Given(tr) \cap WayTo(rs, r)
              <=> x = <<CopyOfTrigger(r), t>> /\ TrigOf[r] = t
    BY <2>1, PlacesDiffer DEF WayTo, RulesByTrigger
  <2>4. Taken(tr) \notin Given(tr)
    BY <2>1, PlacesDiffer
  <2>5. Given(tr) \cap WayTo(rs, r) # {} <=> TrigOf[r] = t
    BY <2>3
  <2>6. \A x, y \in Given(tr) \cap WayTo(rs, r) : x = y
    BY <2>3
  <2> QED BY <2>2, <2>4, <2>5, <2>6
<1>2. ASSUME NEW a, NEW t, CausesTrigger(rs, tr, a, t)
      PROVE  /\ Given(tr) \cap WayTo(rs, r) # {} <=> Taken(tr) \in WayTo(rs, r)
             /\ \A x, y \in Given(tr) \cap WayTo(rs, r) : x = y
             /\ Taken(tr) \notin Given(tr)
  <2>1. /\ Given(tr) = {<<TriggerPlace(t), t>>} /\ tr.takes = a
        /\ a \in NetActions(rs) /\ t \in TriggeredTriggers(rs, a)
    BY <1>2 DEF CausesTrigger, Transition, Given
  <2>2. \/ tr.in = ActionPlace(a) /\ TriggeredTriggers(rs, a) = {t}
        \/ tr.in = CopyOfAction(a, t)
    BY <1>2, InputOfCause
  <2>3. Causes(a, TrigOf[r]) => TrigOf[r] \in TriggeredTriggers(rs, a)
    BY DEF TriggeredTriggers, TriggeredRules
  <2>4. Causes(a, t)
    BY <2>1 DEF TriggeredTriggers, TriggeredRules
  <2>5. Taken(tr) \in WayTo(rs, r) <=> TrigOf[r] = t
    BY <2>1, <2>2, <2>3, <2>4, PlacesDiffer DEF WayTo, Taken
  <2>6. <<TriggerPlace(t), t>> \in WayTo(rs, r) <=> TrigOf[r] = t
    BY PlacesDiffer DEF WayTo
  <2>7. Taken(tr) \notin Given(tr)
    BY <2>1, <2>2, PlacesDiffer DEF Taken
  <2> QED BY <2>1, <2>5, <2>6, <2>7
<1>3. ASSUME NEW a, CopiesAction(rs, tr, a)
      PROVE  /\ Given(tr) \cap WayTo(rs, r) # {} <=> Taken(tr) \in WayTo(rs, r)
             /\ \A x, y \in Given(tr) \cap WayTo(rs, r) : x = y
             /\ Taken(tr) \notin Given(tr)
  <2>1. /\ Taken(tr) = <<ActionPlace(a), a>> /\ a \in NetActions(rs)
        /\ Given(tr) = {<<CopyOfAction(a, t), a>> : t \in TriggeredTriggers(rs, a)}
    BY <1>3 DEF CopiesAction, Transition, Taken, Given
  <2>2. Causes(a, TrigOf[r]) => TrigOf[r] \in TriggeredTriggers(rs, a)
    BY DEF TriggeredTriggers, TriggeredRules
  <2>3. Taken(tr) \in WayTo(rs, r) <=> Causes(a, TrigOf[r])
    BY <2>1, PlacesDiffer DEF WayTo
  <2>4. \A x : x \in Given(tr) \cap WayTo(rs, r)
              <=> x = <<CopyOfAction(a, TrigOf[r]), a>> /\ Causes(a, TrigOf[r])
    BY <2>1, <2>2, PlacesDiffer DEF WayTo
  <2>5. Taken(tr) \notin Given(tr)
    BY <2>1, PlacesDiffer
  <2>6. Given(tr) \cap WayTo(rs, r) # {} <=> Causes(a, TrigOf[r])
    BY <2>4
  <2>7. \A x, y \in Given(tr) \cap WayTo(rs, r) : x = y
    BY <2>4
  <2> QED BY <2>3, <2>5, <2>6, <2>7
<1> QED BY <1>1, <1>2, <1>3, NetKinds

LEMMA FiringMovesTokens ==
  ASSUME NEW rs \in SUBSET Rule, IsFiniteSet(rs), NEW m \in Marking, NEW tr \in Net(rs),
         m[tr.in][tr.takes] > 0, NEW r \in rs
  PROVE  /\ TokensFor(m, rs, r) \in Nat /\ TokensFor(Fire(m, tr), rs, r) \in Nat
         /\ Taken(tr) \in WayTo(rs, r) => TokensFor(m, rs, r) > 0
         /\ TokensFor(Fire(m, tr), rs, r) =
               (IF Taken(tr) \in WayTo(rs, r) THEN TokensFor(m, rs, r) - 1
                                              ELSE TokensFor(m, rs, r))
                 + (IF Given(tr) \cap WayTo(rs, r) = {} THEN 0 ELSE 1)
<1> DEFINE W == WayTo(rs, r)
           f == [w \in W |-> m[w[1]][w[2]]]
           g == [w \in W |-> Fire(m, tr)[w[1]][w[2]]]
<1>1. IsFiniteSet(W) /\ \A w \in W : w = <<w[1], w[2]>> /\ w[1] \in Place /\ w[2] \in Colour
  BY WayFinite, WayIsInNet
<1>2. f \in [W -> Nat] /\ g \in [W -> Nat]
  BY <1>1, FireType DEF Marking
<1>3. /\ Taken(tr) \notin Given(tr)
      /\ \A x, y \in Given(tr) \cap W : x = y
  BY WayOfRule, WayOfOthers
<1>4. Taken(tr) \in W => f[Taken(tr)] > 0
  BY DEF Taken
<1>5. ASSUME NEW w \in W
      PROVE  g[w] = (IF w = Taken(tr) THEN f[w] - 1 ELSE f[w]) + (IF w \in Given(tr) THEN 1 ELSE 0)
  <2>1. w = Taken(tr) <=> w[1] = tr.in /\ w[2] = tr.takes
    BY <1>1 DEF Taken
  <2>2. w \in Given(tr) <=> w[1] \in tr.out /\ w[2] = tr.gives
    BY <1>1 DEF Given
  <2>3. g[w] = (IF w[1] = tr.in /\ w[2] = tr.takes /\ m[w[1]][w[2]] > 0
                THEN m[w[1]][w[2]] - 1 ELSE m[w[1]][w[2]])
                 + (IF w[1] \in tr.out /\ w[2] = tr.gives THEN 1 ELSE 0)
    BY <1>1 DEF Fire
  <2> QED BY <2>1, <2>2, <2>3
<1>6. Sum(f) = TokensFor(m, rs, r) /\ Sum(g) = TokensFor(Fire(m, tr), rs, r)
  BY DEF TokensFor
<1> HIDE DEF f, g
<1>7. /\ Taken(tr) \in W => Sum(f) > 0
      /\ Sum(g) = (IF Taken(tr) \in W THEN Sum(f) - 1 ELSE Sum(f))
                   + (IF Given(tr) \cap W = {} THEN 0 ELSE 1)
  BY <1>1, <1>2, <1>3, <1>4, <1>5, SumMoves
<1>8. Sum(f) \in Nat /\ Sum(g) \in Nat
  BY <1>1, <1>2, SumFinite
<1> QED BY <1>6, <1>7, <1>8

LEMMA NoTokens ==
  ASSUME NEW rs \in SUBSET Rule, NEW r \in rs
  PROVE  TokensFor(EmptyMarking, rs, r) = 0
<1> DEFINE f == [w \in WayTo(rs, r) |-> EmptyMarking[w[1]][w[2]]]
<1>1. f \in [WayTo(rs, r) -> Nat] /\ \A w \in WayTo(rs, r) : f[w] = 0
  BY WayIsInNet DEF EmptyMarking
<1> HIDE DEF f
<1>2. Sum(f) = 0
  BY <1>1, SumOfNothing
<1> QED BY <1>2 DEF TokensFor, f

LEMMA FirstToken ==
  ASSUME NEW rs \in SUBSET Rule, IsFiniteSet(rs), NEW r \in rs, NEW t \in Trigger
  PROVE  TokensFor(WithToken(EmptyMarking, TriggerPlace(t), t), rs, r)
           = IF TrigOf[r] = t THEN 1 ELSE 0
<1> DEFINE W == WayTo(rs, r)
           m == WithToken(EmptyMarking, TriggerPlace(t), t)
           f == [w \in W |-> EmptyMarking[w[1]][w[2]]]
           g == [w \in W |-> m[w[1]][w[2]]]
           first == <<TriggerPlace(t), t>>
<1>1. /\ IsFiniteSet(W)
      /\ \A w \in W : w = <<w[1], w[2]>> /\ w[1] \in Place /\ w[2] \in Colour
  BY WayFinite, WayIsInNet
<1>2. EmptyMarking \in Marking /\ m \in Marking
  BY WithTokenType, Places DEF EmptyMarking, Marking, Colour
<1>3. f \in [W -> Nat] /\ g \in [W -> Nat]
  <2> HIDE DEF m
  <2> QED BY <1>1, <1>2 DEF Marking
<1>4. Sum(f) = 0 /\ Sum(g) = TokensFor(m, rs, r)
  BY NoTokens DEF TokensFor
<1>5. first \in W <=> TrigOf[r] = t
  BY PlacesDiffer DEF WayTo
<1>6. \A w \in W : g[w] = IF w = first THEN f[w] + 1 ELSE f[w]
  BY <1>1 DEF WithToken, EmptyMarking
<1> HIDE DEF W, m, f, g, first
<1>7. CASE TrigOf[r] = t
  <2>1. Sum(g) = Sum(f) + 1
    BY <1>1, <1>3, <1>5, <1>6, <1>7, OneMore
  <2> QED BY <1>4, <1>7, <2>1 DEF m
<1>8. CASE TrigOf[r] # t
  <2>1. g = f
    BY <1>3, <1>5, <1>6, <1>8
  <2> QED BY <1>4, <1>8, <2>1 DEF m
<1> QED BY <1>7, <1>8

(***************************************************************************)
(* The steps of the check as steps of RuleCascade.                         *)
(***************************************************************************)
mapped == <<rules, Due, History>>

LEMMA InitIsInit == Init => Abstract!Init
<1> SUFFICES ASSUME Init PROVE Abstract!Init
  OBVIOUS
<1>1. \A r \in rules : TokensFor(marking, rules, r) = 0
  BY NoTokens DEF Init
<1>2. Due = [r \in Rule |-> 0] /\ History = <<>>
  BY <1>1 DEF Init, Due, History
<1> QED BY <1>2 DEF Init, Abstract!Init

\* The token that starts the simulation is the one occurrence of a trigger.
LEMMA StartOccurs ==
  ASSUME TypeOK, Control, RootKnown, StartSimulation
  PROVE  Abstract!Occur(startTrigger) /\ startTrigger \in NetTriggers(rules)
<1>1. startTrigger \in NetTriggers(rules)
  BY DEF StartSimulation, TypeOK
<1>2. startTrigger \in Trigger /\ rules \in SUBSET Rule /\ IsFiniteSet(rules)
  BY <1>1, RuleNetAssumption DEF TypeOK, NetTriggers, RootKnown
<1>3. /\ marking = EmptyMarking /\ fired = NoRule /\ log = <<>>
      /\ rules' = rules /\ fired' = fired /\ log' = log
  BY DEF StartSimulation, Control, inputVars
<1>4. marking' = WithToken(EmptyMarking, TriggerPlace(startTrigger), startTrigger)
  <2>1. Cleared(EmptyMarking) = EmptyMarking
    BY DEF Cleared, EmptyMarking
  <2> QED BY <1>3, <2>1 DEF StartSimulation
<1>5. History = <<>> /\ History' = History
  BY <1>3 DEF History
<1>6. \A r \in Rule : Due[r] = 0
  BY <1>2, <1>3, NoTokens DEF Due
<1>7. \A r \in rules : TokensFor(marking', rules, r) = IF TrigOf[r] = startTrigger THEN 1 ELSE 0
  BY <1>2, <1>4, FirstToken
<1>8. Due' = [r \in Rule |-> IF r \in RulesByTrigger(rules, startTrigger) THEN 1 ELSE 0]
  BY <1>3, <1>7 DEF Due, RulesByTrigger
<1> QED
  BY <1>1, <1>3, <1>5, <1>6, <1>8
  DEF Abstract!Occur, RulesByTrigger, Abstract!RulesByTrigger

LEMMA FiringRuleExecutes ==
  ASSUME TypeOK, Control, TokensInPlace, RootKnown, FireRule
  PROVE  \E s \in rules : Abstract!Execute(s)
<1>1. PICK tr \in EnabledRules(marking, rules) : marking' = Fire(marking, tr) /\ fired' = tr.rule
  BY DEF FireRule
<1>2. PICK s \in rules : fired' = s /\ FiresRule(rules, tr, s)
  BY <1>1, EnabledRulesFire
<1>3. /\ rules \in SUBSET Rule /\ IsFiniteSet(rules) /\ marking \in Marking
      /\ tr \in Net(rules) /\ Enabled(marking, tr)
  BY <1>1, EnabledRulesFire DEF TypeOK, RootKnown
<1>4. marking[tr.in][tr.takes] > 0
  BY <1>3, NetFields DEF Enabled, TokensInPlace
<1>5. rules' = rules /\ log' = log /\ fired = NoRule
  BY DEF FireRule, Control, inputVars
<1>6. History' = Append(History, s)
  BY <1>2, <1>5, RuleNetAssumption DEF History, TypeOK
<1>7. ASSUME NEW r \in rules
      PROVE  /\ TokensFor(marking', rules, r) =
                   (IF r = s THEN TokensFor(marking, rules, r) - 1
                             ELSE TokensFor(marking, rules, r))
                     + (IF r \in TriggeredRules(rules, ActOf[s]) THEN 1 ELSE 0)
             /\ r = s => TokensFor(marking, rules, r) > 0
  BY <1>1, <1>2, <1>3, <1>4, FiringMovesTokens, WayOfRule
<1>8. Due[s] > 0
  BY <1>3, <1>7 DEF Due
<1>9. Due' = [r \in Rule |-> (IF r = s THEN Due[r] - 1 ELSE Due[r])
                               + (IF r \in TriggeredRules(rules, ActOf[s]) THEN 1 ELSE 0)]
  <2>1. ASSUME NEW r \in Rule \ rules
        PROVE  r # s /\ r \notin TriggeredRules(rules, ActOf[s])
    BY DEF TriggeredRules
  <2> QED BY <1>3, <1>5, <1>7, <2>1 DEF Due
<1>10. Abstract!Execute(s)
  BY <1>5, <1>6, <1>8, <1>9
  DEF Abstract!Execute, TriggeredRules, Abstract!TriggeredRules, Causes, Abstract!Causes
<1> QED BY <1>10

LEMMA OtherFiringsStutter ==
  ASSUME TypeOK, Control, TokensInPlace, RootKnown, FireOther
  PROVE  UNCHANGED mapped
<1>1. /\ rules' = rules /\ log' = log /\ fired' = fired
      /\ rules \in SUBSET Rule /\ IsFiniteSet(rules) /\ marking \in Marking
  BY DEF FireOther, inputVars, TypeOK, RootKnown
<1>2. CASE UNCHANGED marking
  BY <1>1, <1>2 DEF mapped, Due, History
<1>3. CASE \E tr \in Net(rules) : Enabled(marking, tr) /\ marking' = Fire(marking, tr)
  <2>1. PICK tr \in Net(rules) : Enabled(marking, tr) /\ marking' = Fire(marking, tr)
    BY <1>3
  <2>2. \A s \in rules : ~FiresRule(rules, tr, s)
    BY <2>1 DEF FireOther, EnabledRules, FiresRule, RuleTransitions
  <2>3. marking[tr.in][tr.takes] > 0
    BY <1>1, <2>1, NetFields DEF Enabled, TokensInPlace
  <2>4. ASSUME NEW r \in rules
        PROVE  TokensFor(marking', rules, r) = TokensFor(marking, rules, r)
    <3>1. Given(tr) \cap WayTo(rules, r) # {} <=> Taken(tr) \in WayTo(rules, r)
      BY <1>1, <2>1, <2>2, WayOfOthers
    <3> QED BY <1>1, <2>1, <2>3, <3>1, FiringMovesTokens
  <2>5. Due' = Due
    BY <1>1, <2>4 DEF Due
  <2> QED BY <1>1, <2>5 DEF mapped, History
<1> QED BY <1>2, <1>3 DEF FireOther

LEMMA RecordingStutters ==
  ASSUME TypeOK, Control, RecordRule
  PROVE  UNCHANGED mapped
<1>1. /\ rules' = rules /\ marking' = marking
      /\ fired # NoRule /\ fired' = NoRule /\ log' = Append(log, fired)
  BY DEF RecordRule, Control, inputVars
<1> QED BY <1>1 DEF mapped, Due, History

LEMMA CascadeRefined ==
  ASSUME TypeOK, Control, TokensInPlace, RootKnown, [Next]_vars
  PROVE  [Abstract!Next]_mapped
<1>1. CASE StartSimulation
  BY <1>1, StartOccurs DEF Abstract!Next, NetTriggers, Abstract!NetTriggers
<1>2. CASE StartFails
  <2>1. Cleared(EmptyMarking) = EmptyMarking
    BY DEF Cleared, EmptyMarking
  <2> QED BY <1>2, <2>1 DEF StartFails, Control, inputVars, threadVars, mapped, Due, History
<1>3. CASE FireRule
  BY <1>3, FiringRuleExecutes DEF Abstract!Next
<1>4. CASE FireOther
  BY <1>4, OtherFiringsStutter
<1>5. CASE RecordRule
  BY <1>5, RecordingStutters
<1>6. CASE UNCHANGED <<rules, marking, fired, log>>
  BY <1>6 DEF mapped, Due, History
<1> QED
  BY <1>1, <1>2, <1>3, <1>4, <1>5, <1>6
  DEF Next, Request, Thread, Terminated, CheckLoops, GetRoot, SetStop, ReadSize, CopyRules,
      LoopTest, vars, inputVars, requestVars, threadVars

\* Every behaviour of the token game is one of RuleCascade: the start is an
\* occurrence, a rule fired is an execution, and copy and trigger transitions hand
\* tokens on without anything being lost, doubled or invented.
THEOREM NetImplementsCascade == Spec => ImplementsCascade
<1>1. TypeOK /\ Control /\ TokensInPlace /\ RootKnown /\ [Next]_vars
        => [Abstract!Next]_<<rules, Due, History>>
  BY CascadeRefined DEF mapped
<1> QED
  BY <1>1, InitIsInit, TypeInit, TypeStep, TokensInit, TokensStep, RootInit, RootStep, PTL
  DEF Spec, ImplementsCascade, Abstract!Spec

(***************************************************************************)
(* The answer.  The list is copied while the thread may still append to    *)
(* it: what is copied is the list as it was at some moment.                *)
(***************************************************************************)
AnswerKnown ==
  /\ rpc \in {"size", "copy", "answered"} => stop
  /\ rpc = "copy" => copied <= Len(log)
  /\ rpc = "answered" =>
       Len(executed) <= Len(log) /\ \A i \in 1 .. Len(executed) : executed[i] = log[i]

LEMMA AnswerInit == Init => AnswerKnown
BY DEF Init, AnswerKnown

LEMMA AnswerStep == TypeOK /\ Control /\ AnswerKnown /\ [Next]_vars => AnswerKnown'
<1> SUFFICES ASSUME TypeOK, Control, AnswerKnown, [Next]_vars
             PROVE  AnswerKnown'
  OBVIOUS
<1>1. Len(log) \in Nat /\ copied \in Nat
  BY DEF TypeOK
<1>2. CASE SetStop \/ CheckLoops \/ GetRoot \/ StartSimulation \/ StartFails
  BY <1>2 DEF SetStop, CheckLoops, GetRoot, StartSimulation, StartFails, AnswerKnown, threadVars
<1>3. CASE ReadSize
  BY <1>1, <1>3 DEF ReadSize, AnswerKnown, threadVars
<1>4. CASE CopyRules
  <2>1. CASE Len(log) > copied
    BY <1>4, <2>1 DEF CopyRules, AnswerKnown, threadVars
  <2>2. CASE ~(Len(log) > copied)
    <3>1. rpc = "copy" /\ rpc' = "answered" /\ executed' = log /\ stop' = stop /\ log' = log
      BY <1>4, <2>2 DEF CopyRules, threadVars
    <3> QED BY <1>1, <3>1 DEF AnswerKnown
  <2> QED BY <2>1, <2>2
<1>5. CASE RecordRule
  <2>1. /\ log \in Seq(rules) /\ fired \in rules /\ log' = Append(log, fired)
        /\ UNCHANGED <<rpc, executed, copied, stop>>
    BY <1>5 DEF RecordRule, TypeOK, Control, requestVars
  <2>2. Len(log') = Len(log) + 1 /\ \A i \in 1 .. Len(log) : log'[i] = log[i]
    BY <2>1
  <2>3. Len(executed) \in Nat
    BY DEF TypeOK
  <2>4. rpc = "answered" => \A i \in 1 .. Len(executed) : i \in 1 .. Len(log)
    BY <1>1, <2>3 DEF AnswerKnown
  <2> QED BY <1>1, <2>1, <2>2, <2>3, <2>4 DEF AnswerKnown
<1>6. CASE LoopTest \/ FireRule \/ FireOther \/ UNCHANGED vars
  BY <1>6 DEF LoopTest, FireRule, FireOther, vars, AnswerKnown, requestVars
<1> QED BY <1>2, <1>3, <1>4, <1>5, <1>6 DEF Next, Request, Thread, Terminated

\* Each rule of the answer has its cause in the answer, before it.
CausalAnswer ==
  rpc = "answered" =>
    \A i \in DOMAIN executed :
      \/ TrigOf[executed[i]] = startTrigger
      \/ \E j \in 1 .. (i - 1) : Causes(ActOf[executed[j]], TrigOf[executed[i]])

\* Although the thread goes on while the list is copied, an answer is in causal
\* order and lacks no rule's cause.
THEOREM AnswerIsCausal == Spec => []CausalAnswer
<1>1. ASSUME TypeOK, AnswerKnown, CausalLog PROVE CausalAnswer
  <2> SUFFICES ASSUME rpc = "answered", NEW i \in DOMAIN executed
               PROVE  \/ TrigOf[executed[i]] = startTrigger
                      \/ \E j \in 1 .. (i - 1) : Causes(ActOf[executed[j]], TrigOf[executed[i]])
    BY DEF CausalAnswer
  <2>1. /\ Len(executed) \in Nat /\ Len(log) \in Nat
        /\ DOMAIN executed = 1 .. Len(executed) /\ DOMAIN log = 1 .. Len(log)
    BY <1>1 DEF TypeOK
  <2>2. Len(executed) <= Len(log) /\ \A k \in 1 .. Len(executed) : executed[k] = log[k]
    BY <1>1 DEF AnswerKnown
  <2>3. i \in DOMAIN log /\ \A j \in 1 .. (i - 1) : j \in 1 .. Len(executed)
    BY <2>1, <2>2
  <2>4. \/ TrigOf[log[i]] = startTrigger
        \/ \E j \in 1 .. (i - 1) : Causes(ActOf[log[j]], TrigOf[log[i]])
    BY <1>1, <2>3 DEF CausalLog
  <2> QED BY <2>1, <2>2, <2>3, <2>4
<1> QED BY <1>1, TypeInit, TypeStep, AnswerInit, AnswerStep, LogIsCausal, PTL DEF Spec

(***************************************************************************)
(* Patience: the stop flag is raised only when the thread has ended, that  *)
(* is, the second has been enough.                                         *)
(***************************************************************************)
Patient == stop => spc = "ended"

UndisturbedCopy ==
  /\ spc = "ended" => Dead(marking, rules)
  /\ rpc = "copy" => copied = Len(log)
  /\ rpc = "answered" => executed = log
  /\ rpc = "failed" => startTrigger = NoTrigger

LEMMA UndisturbedInit == Init => UndisturbedCopy
BY DEF Init, UndisturbedCopy

LEMMA UndisturbedStep ==
  TypeOK /\ Control /\ AnswerKnown /\ Patient /\ UndisturbedCopy /\ [Next]_vars
  => UndisturbedCopy'
<1> SUFFICES ASSUME TypeOK, Control, AnswerKnown, Patient, UndisturbedCopy, [Next]_vars
             PROVE  UndisturbedCopy'
  OBVIOUS
<1>1. CASE CheckLoops \/ GetRoot \/ StartSimulation \/ StartFails
  BY <1>1 DEF CheckLoops, GetRoot, StartSimulation, StartFails, Control, UndisturbedCopy,
              inputVars, threadVars
<1>2. CASE SetStop \/ ReadSize
  BY <1>2 DEF SetStop, ReadSize, UndisturbedCopy, inputVars, threadVars
<1>3. CASE CopyRules
  <2>1. ~(Len(log) > copied)
    BY <1>3 DEF CopyRules, UndisturbedCopy, TypeOK
  <2> QED BY <1>3, <2>1 DEF CopyRules, UndisturbedCopy, inputVars, threadVars
<1>4. CASE LoopTest
  BY <1>4 DEF LoopTest, Patient, UndisturbedCopy, inputVars, requestVars
<1>5. CASE FireRule \/ RecordRule \/ FireOther
  <2>1. spc' # "ended" /\ ~stop /\ UNCHANGED <<rpc, startTrigger>>
    BY <1>5 DEF FireRule, RecordRule, FireOther, Patient, requestVars
  <2> QED BY <2>1 DEF AnswerKnown, UndisturbedCopy
<1>6. CASE UNCHANGED vars
  BY <1>6 DEF vars, UndisturbedCopy
<1> QED BY <1>1, <1>2, <1>3, <1>4, <1>5, <1>6 DEF Next, Request, Thread, Terminated

CompleteAnswer ==
  /\ rpc = "answered" => RangeOf(executed) = Cascade(rules, startTrigger)
  /\ rpc = "failed" => rules = {} \/ LoopSearched

\* The safety half of PatientCheckIsAnswered, and for any stored policies: when
\* one second is enough, an answer holds the complete cascade, and a request fails
\* only for want of a root, which takes a loop.
THEOREM PatientAnswerIsComplete == Spec /\ []Patient => []CompleteAnswer
<1>1. ASSUME TypeOK, Control, AnswerKnown, Patient, UndisturbedCopy, CompleteAtDeadlock,
             RootKnown
      PROVE  CompleteAnswer
  <2>1. ASSUME rpc = "answered" PROVE RangeOf(executed) = Cascade(rules, startTrigger)
    <3>1. spc = "ended"
      BY <1>1, <2>1 DEF AnswerKnown, Patient
    <3> QED BY <1>1, <2>1, <3>1 DEF UndisturbedCopy, CompleteAtDeadlock
  <2>2. ASSUME rpc = "failed", rules # {} PROVE LoopSearched
    <3>1. RootPlaces(rules, checked) = {} /\ IsFiniteSet(rules) /\ rules \in SUBSET Rule
      BY <1>1, <2>2 DEF RootKnown, UndisturbedCopy, TypeOK
    <3> QED BY <2>2, <3>1, RootlessHasLoop DEF LoopSearched
  <2> QED BY <2>1, <2>2 DEF CompleteAnswer
<1> QED
  BY <1>1, TypeInit, TypeStep, AnswerInit, AnswerStep, UndisturbedInit, UndisturbedStep,
     RootInit, RootStep, DeadNetIsComplete, PTL DEF Spec

(***************************************************************************)
(* The inner loop.  It does not look at the stop flag: what bounds it are  *)
(* the tokens at the inputs of rules, of which every round takes one.      *)
(***************************************************************************)
RuleArcs(rs) == {<<RuleInput(rs, r), TrigOf[r]>> : r \in rs}
TokensAtRules(m, rs) == Sum([w \in RuleArcs(rs) |-> m[w[1]][w[2]]])
Waiting == TokensAtRules(marking, rules)

LEMMA ArcsFinite ==
  ASSUME NEW rs \in SUBSET Rule, IsFiniteSet(rs)
  PROVE  /\ IsFiniteSet(RuleArcs(rs))
         /\ \A w \in RuleArcs(rs) : w = <<w[1], w[2]>> /\ w[1] \in Place /\ w[2] \in Colour
<1> DEFINE f == [r \in rs |-> <<RuleInput(rs, r), TrigOf[r]>>]
           A == RuleArcs(rs)
<1>1. f \in Surjection(rs, A)
  BY DEF Surjection, RuleArcs
<1>2. IsFiniteSet(A)
  <2> HIDE DEF f, A
  <2> QED BY <1>1, FS_Surjection
<1>3. \A r \in rs : TrigOf[r] \in Trigger /\ RuleInput(rs, r) \in Place
  BY RuleNetAssumption, Places DEF RuleInput
<1> QED BY <1>2, <1>3 DEF RuleArcs, Colour

LEMMA FiringTakesOne ==
  ASSUME NEW rs \in SUBSET Rule, IsFiniteSet(rs), NEW m \in Marking, NEW tr, NEW s,
         FiresRule(rs, tr, s), m[tr.in][tr.takes] > 0
  PROVE  /\ TokensAtRules(m, rs) \in Nat \ {0}
         /\ TokensAtRules(Fire(m, tr), rs) = TokensAtRules(m, rs) - 1
<1> DEFINE W == RuleArcs(rs)
           f == [w \in W |-> m[w[1]][w[2]]]
           g == [w \in W |-> Fire(m, tr)[w[1]][w[2]]]
<1>1. IsFiniteSet(W) /\ \A w \in W : w = <<w[1], w[2]>> /\ w[1] \in Place /\ w[2] \in Colour
  BY ArcsFinite
<1>2. f \in [W -> Nat] /\ g \in [W -> Nat]
  BY <1>1, FireType DEF Marking
<1>3. s \in rs /\ Taken(tr) = <<RuleInput(rs, s), TrigOf[s]>>
        /\ Given(tr) = {<<ActionPlace(ActOf[s]), ActOf[s]>>}
  BY DEF FiresRule, Transition, Taken, Given
<1>4. Taken(tr) \in W
  BY <1>3 DEF RuleArcs
<1>5. Given(tr) \cap W = {}
  BY <1>3, PlacesDiffer DEF RuleArcs, RuleInput
<1>6. f[Taken(tr)] > 0
  BY <1>4 DEF Taken
<1>7. ASSUME NEW w \in W
      PROVE  g[w] = (IF w = Taken(tr) THEN f[w] - 1 ELSE f[w]) + (IF w \in Given(tr) THEN 1 ELSE 0)
  <2>1. w = Taken(tr) <=> w[1] = tr.in /\ w[2] = tr.takes
    BY <1>1 DEF Taken
  <2>2. w \in Given(tr) <=> w[1] \in tr.out /\ w[2] = tr.gives
    BY <1>1 DEF Given
  <2>3. g[w] = (IF w[1] = tr.in /\ w[2] = tr.takes /\ m[w[1]][w[2]] > 0
                THEN m[w[1]][w[2]] - 1 ELSE m[w[1]][w[2]])
                 + (IF w[1] \in tr.out /\ w[2] = tr.gives THEN 1 ELSE 0)
    BY <1>1 DEF Fire
  <2> QED BY <2>1, <2>2, <2>3
<1>8. Sum(f) = TokensAtRules(m, rs) /\ Sum(g) = TokensAtRules(Fire(m, tr), rs)
  BY DEF TokensAtRules
<1>9. Taken(tr) \notin Given(tr) /\ \A x, y \in Given(tr) \cap W : x = y
  BY <1>4, <1>5
<1>10. Sum(f) \in Nat
  BY <1>1, <1>2, SumFinite
<1> HIDE DEF f, g, W
<1>11. Sum(f) > 0 /\ Sum(g) = Sum(f) - 1
  BY <1>1, <1>2, <1>4, <1>5, <1>6, <1>7, <1>9, <1>10, SumMoves
<1> QED BY <1>8, <1>10, <1>11

\* Within the inner loop no step adds a token at the input of a rule, and every
\* firing takes one away.
RoundCounts ==
  spc \in {"inner", "record"} /\ spc' \in {"inner", "record"} =>
    IF spc = "inner" /\ spc' = "record"
    THEN Waiting \in Nat \ {0} /\ Waiting' = Waiting - 1
    ELSE Waiting' = Waiting

InnerLoopCounts == [][RoundCounts]_vars

\* fireTransition's loop, which does not test the stop flag, is bounded: it fires
\* as many rules as tokens were at rules' inputs when it was entered, and no more.
\* This is the variant behind InnerLoopEnds.
THEOREM InnerLoopIsBounded == Spec => InnerLoopCounts
<1>1. ASSUME TypeOK, Control, TokensInPlace, RootKnown, [Next]_vars
      PROVE  [RoundCounts]_vars
  <2>1. CASE FireRule
    <3>1. PICK tr \in EnabledRules(marking, rules) : marking' = Fire(marking, tr)
      BY <2>1 DEF FireRule
    <3>2. PICK s \in rules : FiresRule(rules, tr, s)
      BY <1>1, <3>1, EnabledRulesFire DEF TypeOK
    <3>3. tr \in Net(rules) /\ Enabled(marking, tr)
      BY <1>1, <3>1, EnabledRulesFire DEF TypeOK
    <3>4. marking[tr.in][tr.takes] > 0
      BY <1>1, <3>3, NetFields DEF Enabled, TokensInPlace, TypeOK
    <3>5. rules' = rules /\ spc = "inner" /\ spc' = "record"
      BY <2>1 DEF FireRule, inputVars
    <3>6. Waiting \in Nat \ {0} /\ Waiting' = Waiting - 1
      BY <1>1, <3>1, <3>2, <3>4, <3>5, FiringTakesOne DEF Waiting, TypeOK, RootKnown
    <3> QED BY <3>5, <3>6 DEF RoundCounts
  <2>2. CASE RecordRule
    <3>1. spc = "record" /\ UNCHANGED <<rules, marking>>
      BY <2>2 DEF RecordRule, inputVars
    <3> QED BY <3>1 DEF Waiting, RoundCounts
  <2>3. CASE CheckLoops \/ GetRoot \/ SetStop \/ ReadSize \/ CopyRules
    <3>1. UNCHANGED <<rules, marking, spc>>
      BY <2>3 DEF CheckLoops, GetRoot, SetStop, ReadSize, CopyRules, inputVars, threadVars
    <3> QED BY <3>1 DEF Waiting, RoundCounts
  <2>4. CASE StartSimulation \/ StartFails \/ LoopTest \/ FireOther
    <3>1. ~(spc \in {"inner", "record"} /\ spc' \in {"inner", "record"})
      BY <1>1, <2>4 DEF StartSimulation, StartFails, LoopTest, FireOther, Control, threadVars
    <3> QED BY <3>1 DEF RoundCounts
  <2> QED BY <1>1, <2>1, <2>2, <2>3, <2>4 DEF Next, Request, Thread, Terminated
<1> QED
  BY <1>1, TypeInit, TypeStep, TokensInit, TokensStep, RootInit, RootStep, PTL
  DEF Spec, InnerLoopCounts
==============================================================================
