--------------------------- MODULE SharedNetProofs ---------------------------
(***************************************************************************)
(* Checks of one user at once, for any number of requests and any sets of  *)
(* rules, with loops or without: a check reports only rules that a request *)
(* on its net set off, and one that has its net for itself and ends before *)
(* it is stopped reports all of them.                                      *)
(***************************************************************************)
EXTENDS SharedNet, RuleNetProofs

(***************************************************************************)
(* Types, and where the two parts of a request are.                        *)
(***************************************************************************)
Located(c) ==
  /\ rpc[c] \in {"put", "get"} => net[c] = NoNet
  /\ rpc[c] = "get" => inMap # NoNet
  /\ rpc[c] \in {"clear", "seed"} => start[c] \in NetTriggers(NetRules(c)) \cup {NoTrigger}
  /\ tpc[c] # "idle" => rpc[c] \in {"sleep", "answered"} /\ start[c] \in Trigger
  /\ tpc[c] = "idle" => executed[c] = {}
  /\ tpc[c] = "fireRule" => chosen[c] \in RuleTransitions(NetRules(c))

Typed ==
  /\ TypeOK
  /\ DOMAIN chosen = Check /\ DOMAIN executed = Check
  /\ \A c \in Check : Located(c)

Firing == {"fireRule", "fireOther"}

\* What the types say of one request and its net.
LEMMA OneRequest ==
  ASSUME Typed, NEW c \in Check
  PROVE  /\ stored[c] \in RuleSets /\ stored[c] \subseteq Rule
         /\ net[c] \in Check => NetRules(c) \in RuleSets /\ NetRules(c) \subseteq Rule
         /\ NetRules(c) = stored[net[c]]
         /\ tpc[c] # "idle" => net[c] \in Check
         /\ rpc[c] \in {"root", "clear", "seed", "sleep", "answered"} => net[c] \in Check
         /\ tpc[c] \in Firing => chosen[c] \in Net(NetRules(c))
         /\ tpc[c] \notin Firing => chosen[c] = NoTransition
         /\ NoNet \notin Check
BY SharedNetAssumption DEF Typed, TypeOK, NetRules, Firing

\* Clearing a net leaves a marking, and puts no token anywhere.
LEMMA SweptType ==
  ASSUME NEW m \in Marking, NEW S
  PROVE  /\ Swept(m, S) \in Marking
         /\ \A p \in Place, k \in Colour : Swept(m, S)[p][k] > 0 => m[p][k] > 0
<1>1. Cleared(m) \in Marking
  BY ClearedType
<1>2. \A p \in Place, k \in Colour : m[p][k] \in Nat
  BY DEF Marking
<1>3. \A p \in Place, k \in Colour : Cleared(m)[p][k] > 0 => m[p][k] > 0
  BY <1>2 DEF Cleared
<1>4. \A p \in Place : Swept(m, S)[p] = m[p] \/ Swept(m, S)[p] = Cleared(m)[p]
  BY DEF Swept
<1>5. Swept(m, S) \in Marking
  BY <1>1 DEF Swept, Marking
<1> QED BY <1>3, <1>4, <1>5

\* A step of a request leaves its thread alone, but for the one that starts it.
LEMMA RequestStep ==
  ASSUME Typed, NEW c \in Check, Request(c)
  PROVE  Typed'
<1> USE SharedNetAssumption DEF Typed, TypeOK, Located, At, inputVars, threadVars, NetRules
<1>1. CASE PutNet(c)
  BY <1>1 DEF PutNet
<1>2. CASE GetNet(c)
  BY <1>2 DEF GetNet
<1>3. CASE GetRoot(c)
  <2>1. NetRules(c) \in SUBSET Rule
    BY <1>3, OneRequest DEF GetRoot
  <2>2. /\ RootChoices(NetRules(c), checked[c]) \subseteq NetTriggers(NetRules(c)) \cup {NoTrigger}
        /\ NetTriggers(NetRules(c)) \subseteq Trigger
    BY <2>1, RootsAreTriggers, RuleNetAssumption DEF NetTriggers
  <2> QED BY <1>3, <2>2 DEF GetRoot
<1>4. CASE Clear(c)
  <2>1. net[c] \in Check /\ marking[net[c]] \in Marking
    BY <1>4, OneRequest DEF Clear
  <2>2. \A S : Swept(marking[net[c]], S) \in Marking
    BY <2>1, SweptType
  <2> QED BY <1>4, <2>1, <2>2 DEF Clear
<1>5. CASE Seed(c)
  <2>1. net[c] \in Check /\ marking[net[c]] \in Marking /\ NetRules(c) \subseteq Rule
    BY <1>5, OneRequest DEF Seed
  <2>2. start[c] \in Trigger
    BY <1>5 DEF Seed
  <2>3. TriggerPlace(start[c]) \in Place /\ start[c] \in Colour
    BY <2>2, Places DEF Colour
  <2>4. WithToken(marking[net[c]], TriggerPlace(start[c]), start[c]) \in Marking
    BY <2>1, <2>3, WithTokenType
  <2> QED BY <1>5, <2>1, <2>2, <2>4 DEF Seed
<1>6. CASE SeedFails(c)
  BY <1>6 DEF SeedFails
<1>7. CASE Stop(c)
  BY <1>7 DEF Stop
<1> QED BY <1>1, <1>2, <1>3, <1>4, <1>5, <1>6, <1>7 DEF Request

LEMMA ThreadStep ==
  ASSUME Typed, NEW c \in Check, Thread(c)
  PROVE  Typed'
<1> USE SharedNetAssumption DEF Typed, TypeOK, Located, GoTo, Idling, inputVars, NetRules
<1>1. CASE LoopTest(c)
  BY <1>1 DEF LoopTest
<1>2. CASE ChooseRule(c)
  <2>1. EnabledRules(marking[net[c]], NetRules(c)) \subseteq Net(NetRules(c)) \cap RuleTransitions(NetRules(c))
    BY DEF EnabledRules, Net
  <2> QED BY <1>2, <2>1 DEF ChooseRule
<1>3. CASE ChooseOther(c)
  BY <1>3 DEF ChooseOther
<1>4. ASSUME FireChosen(c), tpc[c] \in Firing
      PROVE  /\ marking' \in [Check -> Marking]
             /\ chosen' = [chosen EXCEPT ![c] = NoTransition]
  <2>1. net[c] \in Check /\ marking[net[c]] \in Marking
    BY <1>4, OneRequest DEF Firing
  <2>2. Fire(marking[net[c]], chosen[c]) \in Marking
    BY <2>1, FireType
  <2> QED BY <1>4, <2>1, <2>2 DEF FireChosen
<1>5. CASE FireRule(c)
  <2>1. chosen[c].rule \in NetRules(c)
    BY <1>5 DEF FireRule, RuleTransitions, Transition
  <2> QED BY <1>4, <1>5, <2>1 DEF FireRule, FireChosen, Firing
<1>6. CASE FireOther(c)
  BY <1>4, <1>6 DEF FireOther, FireChosen, Firing
<1>7. CASE Break(c)
  BY <1>7 DEF Break
<1> QED BY <1>1, <1>2, <1>3, <1>5, <1>6, <1>7 DEF Thread

LEMMA TypedInit == Init => Typed
<1>1. EmptyMarking \in Marking
  BY DEF EmptyMarking, Marking
<1> QED BY <1>1, SharedNetAssumption DEF Init, Typed, TypeOK, Located

LEMMA TypedStep == Typed /\ [Next]_vars => Typed'
<1>1. ASSUME Typed, UNCHANGED vars PROVE Typed'
  BY <1>1 DEF vars, inputVars, threadVars, Typed, TypeOK, Located, NetRules
<1> QED BY <1>1, RequestStep, ThreadStep DEF Next

LEMMA AlwaysTyped == Spec => []Typed
BY TypedInit, TypedStep, PTL DEF Spec

\* The requests, the threads and the nets have the types the code gives them.
THEOREM TypesHold == Spec => []TypeOK
<1>1. Typed => TypeOK
  BY DEF Typed
<1> QED BY <1>1, AlwaysTyped, PTL

(***************************************************************************)
(* What one net's tokens and rules come from.                              *)
(***************************************************************************)
\* A request on net n has set off rule r.
CausedOn(n, r) ==
  \E d \in Check : net[d] = n /\ tpc[d] # "idle" /\ r \in Cascade(stored[n], start[d])

TokensCaused ==
  \A n \in Check : \A r \in stored[n], p \in Place, k \in Colour :
    marking[n][p][k] > 0 /\ Upstream(p, r) => CausedOn(n, r)

ChosenCaused ==
  \A c \in Check : tpc[c] \in Firing =>
    \A r \in NetRules(c) : Upstream(chosen[c].in, r) => CausedOn(net[c], r)

ReportsCaused == \A c \in Check : \A r \in executed[c] : CausedOn(net[c], r)

Sourced == TokensCaused /\ ChosenCaused /\ ReportsCaused

\* A request that runs keeps its net and its start trigger.
LEMMA RunningKeeps ==
  ASSUME Typed, [Next]_vars, NEW d \in Check, tpc[d] # "idle"
  PROVE  /\ net'[d] = net[d] /\ start'[d] = start[d] /\ tpc'[d] # "idle"
         /\ stored' = stored /\ NetRules(d)' = NetRules(d)
<1> USE DEF Typed, TypeOK, Located, NetRules, inputVars, threadVars, At, GoTo, Idling
<1>1. CASE UNCHANGED vars
  BY <1>1 DEF vars
<1>2. ASSUME NEW c \in Check, Request(c)
      PROVE  /\ net'[d] = net[d] /\ start'[d] = start[d] /\ tpc'[d] # "idle"
             /\ stored' = stored
  BY <1>2 DEF Request, PutNet, GetNet, GetRoot, Clear, Seed, SeedFails, Stop
<1>3. ASSUME NEW c \in Check, Thread(c)
      PROVE  net' = net /\ start' = start /\ tpc'[d] # "idle" /\ stored' = stored
  BY <1>3 DEF Thread, LoopTest, ChooseRule, FireRule, ChooseOther, FireOther, FireChosen, Break
<1> QED BY <1>1, <1>2, <1>3 DEF Next

LEMMA CausedStays ==
  ASSUME Typed, [Next]_vars
  PROVE  \A n, r : CausedOn(n, r) => CausedOn(n, r)'
BY RunningKeeps DEF CausedOn

\* Firing a transition whose token has causes makes tokens that have them too.
LEMMA CausesCarryOver ==
  ASSUME NEW n, NEW rs \in SUBSET Rule, stored[n] = rs,
         NEW tr \in Net(rs), \A s \in rs : Upstream(tr.in, s) => CausedOn(n, s),
         NEW p \in tr.out, NEW r \in rs, Upstream(p, r)
  PROVE  CausedOn(n, r)
<1>1. CASE Upstream(tr.in, r)
  BY <1>1
<1>2. ASSUME NEW s \in rs, FiresRule(rs, tr, s), Causes(ActOf[s], TrigOf[r])
      PROVE  CausedOn(n, r)
  <2>1. CausedOn(n, s)
    BY <1>2, RuleIsDownstream
  <2>2. r \in TriggeredRules(rs, ActOf[s])
    BY <1>2 DEF TriggeredRules
  <2> QED BY <2>1, <2>2, CascadeIsClosed DEF CausedOn
<1> QED BY <1>1, <1>2, FiringFollowsCauses

LEMMA SourcedInit == Init => Sourced
<1> SUFFICES ASSUME Init PROVE Sourced
  OBVIOUS
<1>1. \A n \in Check, p \in Place, k \in Colour : ~(marking[n][p][k] > 0)
  BY DEF Init, EmptyMarking
<1>2. ChosenCaused /\ ReportsCaused
  BY DEF Init, ChosenCaused, ReportsCaused, Firing
<1> QED BY <1>1, <1>2 DEF Sourced, TokensCaused

\* No new token, no new choice, no new report.
LEMMA SourcedOtherwise ==
  ASSUME Typed, Sourced, [Next]_vars, UNCHANGED executed,
         \A n \in Check, p \in Place, k \in Colour :
           marking'[n][p][k] > 0 => marking[n][p][k] > 0,
         \A c \in Check : tpc'[c] \in Firing =>
           /\ tpc[c] # "idle"
           /\ \A r \in NetRules(c) : Upstream(chosen'[c].in, r) => CausedOn(net[c], r)
  PROVE  Sourced'
<1>1. TokensCaused'
  <2>1. stored' = stored
    BY DEF Next, Request, PutNet, GetNet, GetRoot, Clear, Seed, SeedFails, Stop, Thread,
           LoopTest, ChooseRule, FireRule, ChooseOther, FireOther, FireChosen, Break,
           Idling, inputVars, vars
  <2> QED BY <2>1, CausedStays DEF Sourced, TokensCaused
<1>2. ReportsCaused'
  <2>1. \A c \in Check : \A r \in executed[c] : CausedOn(net[c], r) /\ tpc[c] # "idle"
    BY DEF Sourced, ReportsCaused, Typed, Located
  <2>2. \A c \in Check : \A r \in executed[c] : CausedOn(net'[c], r)
    BY <2>1, RunningKeeps
  <2> QED BY <2>2, CausedStays DEF ReportsCaused
<1>3. ChosenCaused'
  <2> SUFFICES ASSUME NEW c \in Check, tpc'[c] \in Firing, NEW r, r \in NetRules(c)',
                      Upstream(chosen'[c].in, r)
               PROVE  CausedOn(net[c], r)'
    BY DEF ChosenCaused
  <2>1. net'[c] = net[c] /\ NetRules(c)' = NetRules(c)
    BY RunningKeeps
  <2>2. CausedOn(net'[c], r)
    BY <2>1
  <2> QED BY <2>1, <2>2, CausedStays DEF CausedOn
<1> QED BY <1>1, <1>2, <1>3 DEF Sourced

\* The steps that leave chosen transitions and reports alone.
LEMMA SourcedQuiet ==
  ASSUME Typed, Sourced, NEW c \in Check,
         PutNet(c) \/ GetNet(c) \/ GetRoot(c) \/ Clear(c) \/ SeedFails(c) \/ Stop(c)
           \/ LoopTest(c) \/ Break(c)
  PROVE  Sourced'
<1> USE DEF PutNet, GetNet, GetRoot, Clear, SeedFails, Stop, LoopTest, Break, At, GoTo,
            inputVars, threadVars, Idling
<1>1. UNCHANGED executed
  OBVIOUS
<1>2. ASSUME NEW n \in Check, NEW p \in Place, NEW k \in Colour, marking'[n][p][k] > 0
      PROVE  marking[n][p][k] > 0
  <2>1. CASE Clear(c)
    <3>1. marking'[n] = marking[n] \/ \E S : marking'[n] = Swept(marking[n], S)
      BY <2>1 DEF Typed, TypeOK
    <3>2. marking[n] \in Marking
      BY DEF Typed, TypeOK
    <3> QED BY <1>2, <3>1, <3>2, SweptType
  <2>2. CASE ~Clear(c)
    BY <1>2, <2>2
  <2> QED BY <2>1, <2>2
<1>3. ASSUME NEW d \in Check, tpc'[d] \in Firing
      PROVE  tpc[d] \in Firing /\ chosen'[d] = chosen[d]
  BY <1>3 DEF Firing, Typed, TypeOK
<1>4. \A d \in Check : tpc'[d] \in Firing =>
        /\ tpc[d] # "idle"
        /\ \A r \in NetRules(d) : Upstream(chosen'[d].in, r) => CausedOn(net[d], r)
  BY <1>3 DEF Sourced, ChosenCaused, Firing
<1>5. [Next]_vars
  BY DEF Next, Request, Thread
<1> QED BY <1>1, <1>2, <1>4, <1>5, SourcedOtherwise

LEMMA SourcedChoose ==
  ASSUME Typed, Sourced, NEW c \in Check, ChooseRule(c) \/ ChooseOther(c)
  PROVE  Sourced'
<1> USE DEF ChooseRule, ChooseOther, GoTo, Idling
<1>1. UNCHANGED <<executed, marking>> /\ tpc[c] # "idle"
  OBVIOUS
<1>2. ASSUME tpc'[c] \in Firing
      PROVE  chosen'[c] \in Net(NetRules(c)) /\ Enabled(marking[net[c]], chosen'[c])
  BY <1>2, EnabledRulesFire DEF Firing, Typed, TypeOK
<1>3. ASSUME tpc'[c] \in Firing, NEW r \in NetRules(c), Upstream(chosen'[c].in, r)
      PROVE  CausedOn(net[c], r)
  <2>1. PICK k \in Colour : marking[net[c]][chosen'[c].in][k] > 0
    BY <1>2, <1>3 DEF Enabled
  <2>2. chosen'[c].in \in Place /\ net[c] \in Check /\ r \in stored[net[c]]
    BY <1>1, <1>2, <1>3, OneRequest, NetFields
  <2> QED BY <1>3, <2>1, <2>2 DEF Sourced, TokensCaused
<1>4. \A d \in Check \ {c} : tpc'[d] = tpc[d] /\ chosen'[d] = chosen[d]
  BY DEF Typed, TypeOK
<1>5. \A d \in Check : tpc'[d] \in Firing =>
        /\ tpc[d] # "idle"
        /\ \A r \in NetRules(d) : Upstream(chosen'[d].in, r) => CausedOn(net[d], r)
  BY <1>1, <1>3, <1>4 DEF Sourced, ChosenCaused, Firing
<1>6. [Next]_vars
  BY DEF Next, Thread
<1> QED BY <1>1, <1>5, <1>6, SourcedOtherwise

LEMMA SourcedSeed ==
  ASSUME Typed, Sourced, NEW c \in Check, Seed(c)
  PROVE  Sourced'
<1>1. /\ net[c] \in Check /\ start[c] \in Trigger /\ tpc'[c] # "idle"
      /\ marking[net[c]] \in Marking
      /\ UNCHANGED <<stored, net, start, chosen, executed>>
  BY OneRequest DEF Seed, At, inputVars, Typed, TypeOK, Located
<1>2. [Next]_vars
  BY DEF Next, Request
<1>3. TokensCaused'
  <2> SUFFICES ASSUME NEW n \in Check, NEW r \in stored[n], NEW p \in Place, NEW k \in Colour,
                      marking'[n][p][k] > 0, Upstream(p, r)
               PROVE  CausedOn(n, r)'
    BY <1>1 DEF TokensCaused
  <2>1. CASE marking[n][p][k] > 0
    BY <1>2, <2>1, CausedStays DEF Sourced, TokensCaused
  <2>2. CASE ~(marking[n][p][k] > 0)
    <3>1. n = net[c] /\ p = TriggerPlace(start[c])
      <4>1. marking' = [marking EXCEPT ![net[c]] =
                          WithToken(marking[net[c]], TriggerPlace(start[c]), start[c])]
        BY DEF Seed
      <4>2. n = net[c]
        BY <2>2, <4>1 DEF Typed, TypeOK
      <4>3. marking'[n] = WithToken(marking[n], TriggerPlace(start[c]), start[c])
        BY <1>1, <4>1, <4>2 DEF Typed, TypeOK
      <4> QED BY <1>1, <2>2, <4>2, <4>3 DEF WithToken, Marking
    <3>2. r \in Cascade(stored[n], start[c])
      <4>1. TrigOf[r] = start[c]
        BY <3>1, PlacesDiffer DEF Upstream
      <4> QED BY <4>1, CascadeIsClosed DEF RulesByTrigger
    <3> QED BY <1>1, <3>1, <3>2 DEF CausedOn
  <2> QED BY <2>1, <2>2
<1>4. ChosenCaused'
  <2> SUFFICES ASSUME NEW d \in Check, tpc'[d] \in Firing, NEW r \in NetRules(d),
                      Upstream(chosen[d].in, r)
               PROVE  CausedOn(net[d], r)'
    BY <1>1 DEF ChosenCaused, NetRules
  <2>1. tpc[d] \in Firing
    BY DEF Seed, Firing, Typed, TypeOK
  <2> QED BY <1>1, <1>2, <2>1, CausedStays DEF Sourced, ChosenCaused, CausedOn
<1>5. ReportsCaused'
  BY <1>1, <1>2, CausedStays DEF Sourced, ReportsCaused, CausedOn
<1> QED BY <1>3, <1>4, <1>5 DEF Sourced

LEMMA SourcedFire ==
  ASSUME Typed, Sourced, NEW c \in Check, FireRule(c) \/ FireOther(c)
  PROVE  Sourced'
<1> DEFINE tr == chosen[c]
<1>1. /\ net[c] \in Check /\ tpc[c] \in Firing /\ tr \in Net(NetRules(c))
      /\ tpc'[c] \notin Firing /\ NetRules(c) \in SUBSET Rule
      /\ UNCHANGED <<stored, net, start>>
  <2>1. tpc[c] \in Firing /\ tpc'[c] \notin Firing
    BY DEF FireRule, FireOther, GoTo, Firing, Typed, TypeOK
  <2> QED BY <2>1, OneRequest
          DEF FireRule, FireOther, FireChosen, inputVars, Typed, Firing
<1>2. [Next]_vars
  BY DEF Next, Thread
<1>3. \A r \in NetRules(c) : Upstream(tr.in, r) => CausedOn(net[c], r)
  BY <1>1 DEF Sourced, ChosenCaused
<1>4. TokensCaused'
  <2> SUFFICES ASSUME NEW n \in Check, NEW r \in stored[n], NEW p \in Place, NEW k \in Colour,
                      marking'[n][p][k] > 0, Upstream(p, r)
               PROVE  CausedOn(n, r)'
    BY <1>1 DEF TokensCaused
  <2>1. CASE marking[n][p][k] > 0
    BY <1>2, <2>1, CausedStays DEF Sourced, TokensCaused
  <2>2. CASE ~(marking[n][p][k] > 0)
    <3>1. n = net[c] /\ p \in tr.out
      <4>1. marking' = [marking EXCEPT ![net[c]] = Fire(marking[net[c]], tr)]
        BY DEF FireRule, FireOther, FireChosen
      <4>2. n = net[c]
        BY <2>2, <4>1 DEF Typed, TypeOK
      <4>3. marking[n] \in Marking /\ marking'[n] = Fire(marking[n], tr)
        BY <1>1, <4>1, <4>2 DEF Typed, TypeOK
      <4> QED BY <2>2, <4>2, <4>3, FireTokens
    <3>2. stored[n] = NetRules(c)
      BY <3>1 DEF NetRules
    <3>3. CausedOn(n, r)
      BY <1>1, <1>3, <3>1, <3>2, CausesCarryOver
    <3> QED BY <1>2, <3>3, CausedStays
  <2> QED BY <2>1, <2>2
<1>5. ChosenCaused'
  <2> SUFFICES ASSUME NEW d \in Check, tpc'[d] \in Firing, NEW r \in NetRules(d),
                      Upstream(chosen'[d].in, r)
               PROVE  CausedOn(net[d], r)'
    BY <1>1 DEF ChosenCaused, NetRules
  <2>1. d # c
    BY <1>1
  <2>2. tpc[d] \in Firing /\ chosen'[d] = chosen[d]
    BY <2>1 DEF FireRule, FireOther, FireChosen, GoTo, Firing, Typed, TypeOK
  <2> QED BY <1>1, <1>2, <2>2, CausedStays DEF Sourced, ChosenCaused, CausedOn
<1>6. ReportsCaused'
  <2> SUFFICES ASSUME NEW d \in Check, NEW r \in executed'[d]
               PROVE  CausedOn(net[d], r)'
    BY <1>1 DEF ReportsCaused
  <2>1. CASE r \in executed[d]
    BY <1>1, <1>2, <2>1, CausedStays DEF Sourced, ReportsCaused, CausedOn
  <2>2. CASE r \notin executed[d]
    <3>1. d = c /\ r = tr.rule /\ FireRule(c)
      BY <2>2 DEF FireRule, FireOther, Typed
    <3>2. tr \in RuleTransitions(NetRules(c))
      BY <3>1 DEF FireRule, GoTo, Typed, Located
    <3>3. r \in NetRules(c) /\ FiresRule(NetRules(c), tr, r)
      <4>1. PICK s \in NetRules(c) : FiresRule(NetRules(c), tr, s)
        BY <3>2 DEF RuleTransitions, FiresRule
      <4>2. tr.rule = s
        BY <4>1 DEF FiresRule, Transition
      <4> QED BY <3>1, <4>1, <4>2
    <3>4. CausedOn(net[c], r)
      BY <1>3, <3>3, RuleIsDownstream
    <3> QED BY <1>1, <1>2, <3>1, <3>4, CausedStays DEF CausedOn
  <2> QED BY <2>1, <2>2
<1> QED BY <1>4, <1>5, <1>6 DEF Sourced

LEMMA SourcedStep == Typed /\ Sourced /\ [Next]_vars => Sourced'
<1>1. ASSUME Typed, Sourced, UNCHANGED vars PROVE Sourced'
  <2>1. UNCHANGED <<stored, marking, net, tpc, chosen, executed, start>>
    BY <1>1 DEF vars, inputVars, threadVars
  <2> QED BY <1>1, <2>1
          DEF Sourced, TokensCaused, ChosenCaused, ReportsCaused, CausedOn, NetRules
<1> QED BY <1>1, SourcedQuiet, SourcedChoose, SourcedSeed, SourcedFire
        DEF Next, Request, Thread

\* A check reports only rules of a cascade that a request on its net started,
\* however many requests share the net (Simulation.run, PetriNetServiceImpl.getNet).
THEOREM OnlyCausedRules == Spec => []ExecutedWereCaused
<1>1. Typed /\ Sourced => ExecutedWereCaused
  <2> SUFFICES ASSUME Typed, Sourced, NEW c \in Check, NEW r \in executed[c]
               PROVE  \E d \in Check : /\ net[d] = net[c] /\ tpc[d] # "idle"
                                       /\ r \in Due[NetRules(c)][start[d]]
    BY DEF ExecutedWereCaused
  <2>1. PICK d \in Check : /\ net[d] = net[c] /\ tpc[d] # "idle"
                           /\ r \in Cascade(stored[net[c]], start[d])
    BY DEF Sourced, ReportsCaused, CausedOn
  <2>2. start[d] \in Trigger /\ NetRules(c) \in RuleSets
    BY <2>1, OneRequest DEF Typed, Located, NetRules
  <2>3. Due[NetRules(c)][start[d]] = Cascade(NetRules(c), start[d])
    BY <2>2 DEF Due
  <2> QED BY <2>1, <2>3 DEF NetRules
<1>2. Spec => []Sourced
  BY SourcedInit, SourcedStep, AlwaysTyped, PTL DEF Spec
<1> QED BY <1>1, <1>2, AlwaysTyped, PTL

(***************************************************************************)
(* A request that has its net for itself.                                  *)
(***************************************************************************)
PlacesKept == \A n \in Check : AllInPlace(marking[n], stored[n])

LEMMA PlacesKeptStep == Typed /\ PlacesKept /\ [Next]_vars => PlacesKept'
<1> SUFFICES ASSUME Typed, PlacesKept, [Next]_vars PROVE PlacesKept'
  OBVIOUS
<1>0. stored' = stored
  BY DEF Next, Request, PutNet, GetNet, GetRoot, Clear, Seed, SeedFails, Stop, Thread,
         LoopTest, ChooseRule, FireRule, ChooseOther, FireOther, FireChosen, Break,
         Idling, inputVars, vars
<1>1. CASE UNCHANGED marking
  BY <1>0, <1>1 DEF PlacesKept
<1>2. ASSUME NEW c \in Check, Clear(c)
      PROVE  PlacesKept'
  <2>1. ASSUME NEW n \in Check
        PROVE  AllInPlace(marking'[n], stored[n])
    <3>1. marking'[n] = marking[n] \/ \E S : marking'[n] = Swept(marking[n], S)
      BY <1>2 DEF Clear, Typed, TypeOK
    <3>2. marking[n] \in Marking /\ AllInPlace(marking[n], stored[n])
      BY DEF Typed, TypeOK, PlacesKept
    <3> QED BY <3>1, <3>2, SweptType DEF AllInPlace
  <2> QED BY <1>0, <2>1 DEF PlacesKept
<1>3. ASSUME NEW c \in Check, Seed(c)
      PROVE  PlacesKept'
  <2>1. ASSUME NEW n \in Check
        PROVE  AllInPlace(marking'[n], stored[n])
    <3> DEFINE p0 == TriggerPlace(start[c])
    <3>1. marking[n] \in Marking /\ AllInPlace(marking[n], stored[n])
      BY DEF Typed, TypeOK, PlacesKept
    <3>2. CASE n # net[c]
      BY <1>3, <3>1, <3>2 DEF Seed, Typed, TypeOK
    <3>3. CASE n = net[c]
      <4>1. marking'[n] = WithToken(marking[n], p0, start[c])
        BY <1>3, <3>3 DEF Seed, Typed, TypeOK
      <4>2. start[c] \in NetTriggers(stored[n]) /\ start[c] \in Trigger
        BY <1>3, <3>3 DEF Seed, At, Typed, TypeOK, Located, NetRules
      <4>3. InNet(stored[n], p0) /\ ColourOf(p0) = start[c]
        BY <4>2, TriggerPlaceHasTransition, Places DEF InNet
      <4>4. ASSUME NEW p \in Place, NEW k \in Colour, marking'[n][p][k] > 0
            PROVE  marking[n][p][k] > 0 \/ (p = p0 /\ k = start[c])
        BY <3>1, <4>1, <4>4 DEF WithToken, Marking
      <4> QED BY <3>1, <4>3, <4>4 DEF AllInPlace
    <3> QED BY <3>2, <3>3
  <2> QED BY <1>0, <2>1 DEF PlacesKept
<1>4. ASSUME NEW c \in Check, FireRule(c) \/ FireOther(c)
      PROVE  PlacesKept'
  <2>1. ASSUME NEW n \in Check
        PROVE  AllInPlace(marking'[n], stored[n])
    <3>1. marking[n] \in Marking /\ AllInPlace(marking[n], stored[n])
      BY DEF Typed, TypeOK, PlacesKept
    <3>2. marking' = [marking EXCEPT ![net[c]] = Fire(marking[net[c]], chosen[c])]
      BY <1>4 DEF FireRule, FireOther, FireChosen
    <3>3. CASE n # net[c]
      BY <3>1, <3>2, <3>3 DEF Typed, TypeOK
    <3>4. CASE n = net[c]
      <4>1. chosen[c] \in Net(stored[n]) /\ stored[n] \in SUBSET Rule
        BY <1>4, <3>4, OneRequest DEF FireRule, FireOther, GoTo, Firing, NetRules
      <4>2. marking'[n] = Fire(marking[n], chosen[c])
        BY <3>2, <3>4 DEF Typed, TypeOK
      <4> QED BY <3>1, <4>1, <4>2, FiringKeepsPlaces
    <3> QED BY <3>3, <3>4
  <2> QED BY <1>0, <2>1 DEF PlacesKept
<1> QED BY <1>1, <1>2, <1>3, <1>4
        DEF Next, Request, PutNet, GetNet, GetRoot, SeedFails, Stop, Thread,
            LoopTest, ChooseRule, ChooseOther, Break, Idling, vars

LEMMA SharedStays ==
  ASSUME Typed, [Next]_vars, NEW c \in Check, tpc[c] # "idle", Shared(c)
  PROVE  Shared(c)'
<1>1. PICK d \in Check \ {c} : net[d] = net[c]
  BY DEF Shared
<1>2. rpc[d] \notin {"put", "get"} /\ net'[c] = net[c]
  BY <1>1, OneRequest, RunningKeeps DEF Typed, Located
<1>3. net'[d] = net[d]
  BY <1>2 DEF Next, Request, PutNet, GetNet, GetRoot, Clear, Seed, SeedFails, Stop, At, Thread,
              LoopTest, ChooseRule, FireRule, ChooseOther, FireOther, FireChosen, Break,
              Idling, vars, Typed, TypeOK
<1> QED BY <1>1, <1>2, <1>3 DEF Shared

\* A rule that the reports of a check call for.
CalledFor(c, r) ==
  TrigOf[r] = start[c] \/ \E s \in executed[c] : Causes(ActOf[s], TrigOf[r])

Undisturbed(c) ==
  /\ \A r \in NetRules(c) : CalledFor(c, r) =>
       r \in executed[c] \/ OnItsWay(marking[net[c]], NetRules(c), r)
  /\ tpc[c] = "others" => EnabledRules(marking[net[c]], NetRules(c)) = {}
  /\ tpc[c] = "fireOther" => \A r \in NetRules(c) : ~FiresRule(NetRules(c), chosen[c], r)
  /\ tpc[c] = "ended" /\ rpc[c] = "sleep" => Dead(marking[net[c]], NetRules(c))

AloneUndisturbed == \A c \in Check : tpc[c] # "idle" /\ ~Shared(c) => Undisturbed(c)

\* Nothing of a check changes when a request on another net takes a step.
LEMMA OthersLeaveAlone ==
  ASSUME Typed, NEW c \in Check, tpc[c] # "idle", ~Shared(c), Undisturbed(c),
         NEW d \in Check, d # c, Request(d) \/ Thread(d)
  PROVE  Undisturbed(c)'
<1>1. net[c] \in Check /\ net[d] # net[c]
  BY OneRequest DEF Shared
<1>2. /\ tpc'[c] = tpc[c] /\ chosen'[c] = chosen[c] /\ executed'[c] = executed[c]
      /\ rpc'[c] = rpc[c] /\ start'[c] = start[c] /\ net'[c] = net[c] /\ stored' = stored
  BY DEF Request, PutNet, GetNet, GetRoot, Clear, Seed, SeedFails, Stop, At, Thread,
         LoopTest, ChooseRule, FireRule, ChooseOther, FireOther, FireChosen, Break,
         GoTo, Idling, inputVars, threadVars, Typed, TypeOK
<1>3. marking'[net[c]] = marking[net[c]]
  BY <1>1
  DEF Request, PutNet, GetNet, GetRoot, Clear, Seed, SeedFails, Stop, Thread,
      LoopTest, ChooseRule, FireRule, ChooseOther, FireOther, FireChosen, Break,
      Idling, Typed, TypeOK
<1> QED BY <1>2, <1>3 DEF Undisturbed, CalledFor, NetRules

LEMMA UndisturbedSeed ==
  ASSUME Typed, NEW c \in Check, Seed(c)
  PROVE  Undisturbed(c)'
<1> DEFINE n == net[c]
<1> DEFINE rs == NetRules(c)
<1>1. /\ n \in Check /\ marking[n] \in Marking /\ rs \in SUBSET Rule
      /\ start[c] \in Trigger /\ executed[c] = {} /\ tpc'[c] = "loop"
      /\ UNCHANGED <<stored, net, start, executed>> /\ rs' = rs
      /\ marking'[n] = WithToken(marking[n], TriggerPlace(start[c]), start[c])
  BY OneRequest DEF Seed, At, inputVars, Typed, TypeOK, Located, NetRules
<1>2. TriggerPlace(start[c]) \in Place /\ start[c] \in Colour
  BY <1>1, Places DEF Colour
<1>3. marking'[n][TriggerPlace(start[c])][start[c]] > 0
  BY <1>1, <1>2 DEF WithToken, Marking
<1>4. ASSUME NEW r \in rs, CalledFor(c, r)'
      PROVE  OnItsWay(marking'[n], rs, r)
  <2>1. TrigOf[r] = start[c]
    BY <1>1, <1>4 DEF CalledFor
  <2> QED BY <1>3, <2>1 DEF OnItsWay
<1> QED BY <1>1, <1>4 DEF Undisturbed

LEMMA UndisturbedFire ==
  ASSUME Typed, NEW c \in Check, Undisturbed(c), FireRule(c) \/ FireOther(c)
  PROVE  Undisturbed(c)'
<1> DEFINE n == net[c]
<1> DEFINE rs == NetRules(c)
<1> DEFINE tr == chosen[c]
<1>1. /\ n \in Check /\ marking[n] \in Marking /\ rs \in SUBSET Rule /\ tr \in Net(rs)
      /\ tpc'[c] \in {"rules", "loop"}
      /\ UNCHANGED <<stored, net, start>> /\ rs' = rs
      /\ marking'[n] = Fire(marking[n], tr)
  <2>1. tpc[c] \in Firing /\ tpc'[c] \in {"rules", "loop"}
    BY DEF FireRule, FireOther, GoTo, Firing, Typed, TypeOK
  <2>2. n \in Check /\ rs \in SUBSET Rule /\ tr \in Net(rs)
    BY <2>1, OneRequest DEF Firing
  <2>3. /\ UNCHANGED <<stored, net, start>> /\ rs' = rs
        /\ marking'[n] = Fire(marking[n], tr) /\ marking[n] \in Marking
    BY <2>2 DEF FireRule, FireOther, FireChosen, inputVars, Typed, TypeOK, NetRules
  <2> QED BY <2>1, <2>2, <2>3
<1>2. ASSUME FireRule(c)
      PROVE  /\ FiresRule(rs, tr, tr.rule)
             /\ executed'[c] = executed[c] \cup {tr.rule}
             /\ \A r \in rs : FiresRule(rs, tr, r) => r = tr.rule
  <2>1. tr \in RuleTransitions(rs)
    BY <1>2 DEF FireRule, GoTo, Typed, Located
  <2>2. \A r : FiresRule(rs, tr, r) => r = tr.rule
    BY DEF FiresRule, Transition
  <2>3. PICK s \in rs : FiresRule(rs, tr, s)
    BY <2>1 DEF RuleTransitions, FiresRule
  <2>4. executed'[c] = executed[c] \cup {tr.rule}
    BY <1>2 DEF FireRule, Typed
  <2> QED BY <2>2, <2>3, <2>4
<1>3. ASSUME FireOther(c)
      PROVE  executed' = executed /\ \A r \in rs : ~FiresRule(rs, tr, r)
  BY <1>3 DEF FireOther, GoTo, Undisturbed
<1>4. ASSUME NEW r \in rs, CalledFor(c, r)'
      PROVE  r \in executed'[c] \/ OnItsWay(marking'[n], rs, r)
  <2>1. CASE CalledFor(c, r)
    <3>1. CASE r \in executed[c]
      BY <1>2, <1>3, <3>1
    <3>2. CASE FiresRule(rs, tr, r)
      BY <1>2, <1>3, <3>2
    <3>3. CASE OnItsWay(marking[n], rs, r) /\ ~FiresRule(rs, tr, r)
      BY <1>1, <3>3, TokenStays
    <3> QED BY <2>1, <3>1, <3>2, <3>3 DEF Undisturbed
  <2>2. CASE ~CalledFor(c, r)
    <3>1. FireRule(c) /\ Causes(ActOf[tr.rule], TrigOf[r])
      BY <1>1, <1>2, <1>3, <1>4, <2>2 DEF CalledFor
    <3>2. /\ tr.out = {ActionPlace(ActOf[tr.rule])} /\ tr.gives = ActOf[tr.rule]
          /\ ActOf[tr.rule] \in NetActions(rs)
      BY <1>2, <3>1 DEF FiresRule, Transition, NetActions
    <3>3. tr.out \subseteq Place /\ tr.gives \in Colour
      BY <1>1, NetFields
    <3>4. marking'[n][ActionPlace(ActOf[tr.rule])][ActOf[tr.rule]] > 0
      BY <1>1, <3>2, <3>3, FireTokens
    <3> QED BY <3>1, <3>2, <3>4 DEF OnItsWay
  <2> QED BY <2>1, <2>2
<1> QED BY <1>1, <1>4 DEF Undisturbed

\* The other steps of a check that runs: the ones that look at the net.
LEMMA UndisturbedLook ==
  ASSUME Typed, NEW c \in Check, ~Shared(c), tpc[c] # "idle", Undisturbed(c),
         Request(c) \/ Thread(c), ~FireRule(c), ~FireOther(c)
  PROVE  Undisturbed(c)'
<1> DEFINE m == marking[net[c]]
<1> DEFINE rs == NetRules(c)
<1>1. Stop(c) \/ LoopTest(c) \/ ChooseRule(c) \/ ChooseOther(c)
  BY DEF Request, PutNet, GetNet, GetRoot, Clear, Seed, SeedFails, At, Thread, Break,
         Typed, Located
<1>2. UNCHANGED <<stored, net, start, executed, marking>> /\ rs' = rs
  BY <1>1 DEF Stop, LoopTest, ChooseRule, ChooseOther, Idling, inputVars, threadVars, NetRules
<1>3. \A r \in rs : CalledFor(c, r)' => r \in executed'[c] \/ OnItsWay(m, rs, r)
  BY <1>2 DEF CalledFor, Undisturbed
<1>4. tpc'[c] = "others" => EnabledRules(m, rs) = {}
  BY <1>1 DEF Stop, LoopTest, ChooseRule, ChooseOther, GoTo, threadVars, Undisturbed,
              Typed, TypeOK
<1>5. tpc'[c] = "ended" /\ rpc'[c] = "sleep" => Dead(m, rs)
  BY <1>1 DEF Stop, LoopTest, ChooseRule, ChooseOther, At, GoTo, Idling, threadVars,
              Undisturbed, Typed, TypeOK, Located
<1>6. ASSUME tpc'[c] = "fireOther", NEW r \in rs, FiresRule(rs, chosen'[c], r)
      PROVE  FALSE
  <2>1. CASE ChooseOther(c)
    <3>1. Enabled(m, chosen'[c]) /\ EnabledRules(m, rs) = {}
      BY <1>6, <2>1 DEF ChooseOther, GoTo, Undisturbed, Typed, TypeOK
    <3>2. chosen'[c] \in RuleTransitions(rs)
      BY <1>6 DEF RuleTransitions, FiresRule
    <3> QED BY <3>1, <3>2 DEF EnabledRules
  <2>2. CASE ~ChooseOther(c)
    <3>1. tpc[c] = "fireOther" /\ chosen'[c] = chosen[c]
      BY <1>1, <1>6, <2>2 DEF Stop, LoopTest, ChooseRule, GoTo, threadVars, Typed, TypeOK
    <3> QED BY <1>6, <3>1 DEF Undisturbed
  <2> QED BY <2>1, <2>2
<1> QED BY <1>2, <1>3, <1>4, <1>5, <1>6 DEF Undisturbed

LEMMA AloneUndisturbedStep ==
  Typed /\ AloneUndisturbed /\ [Next]_vars => AloneUndisturbed'
<1> SUFFICES ASSUME Typed, AloneUndisturbed, [Next]_vars,
                    NEW c \in Check, tpc'[c] # "idle", ~Shared(c)'
             PROVE  Undisturbed(c)'
  BY DEF AloneUndisturbed
<1>1. CASE tpc[c] = "idle"
  <2>1. Seed(c)
    BY <1>1 DEF Next, Request, PutNet, GetNet, GetRoot, Clear, SeedFails, Stop, Thread,
           LoopTest, ChooseRule, FireRule, ChooseOther, FireOther, FireChosen, Break, GoTo,
           threadVars, vars, Typed, TypeOK, Seed
  <2> QED BY <2>1, UndisturbedSeed
<1>2. CASE tpc[c] # "idle"
  <2>1. ~Shared(c) /\ Undisturbed(c)
    BY <1>2, SharedStays DEF AloneUndisturbed
  <2>2. CASE UNCHANGED vars
    BY <2>1, <2>2 DEF vars, inputVars, threadVars, Undisturbed, CalledFor, NetRules
  <2>3. CASE Request(c) \/ Thread(c)
    BY <1>2, <2>1, <2>3, UndisturbedLook, UndisturbedFire
  <2>4. CASE \E d \in Check \ {c} : Request(d) \/ Thread(d)
    BY <1>2, <2>1, <2>4, OthersLeaveAlone
  <2> QED BY <2>2, <2>3, <2>4 DEF Next
<1> QED BY <1>1, <1>2

\* A check that shares its net with no other and whose thread ends before it is
\* stopped reports the whole cascade of its start trigger, and nothing else: the
\* checks of other nets do not disturb it (PetriNetServiceImpl.getNet).
THEOREM AloneReportsAll == Spec => []AloneIsComplete
<1>1. ASSUME Typed, Sourced, PlacesKept, AloneUndisturbed,
             NEW c \in Check, tpc[c] = "ended", rpc[c] = "sleep", ~Shared(c)
      PROVE  executed[c] = Due[NetRules(c)][start[c]]
  <2> DEFINE rs == NetRules(c)
  <2>1. /\ rs \in RuleSets /\ rs \in SUBSET Rule /\ net[c] \in Check
        /\ start[c] \in Trigger /\ executed[c] \subseteq rs
        /\ marking[net[c]] \in Marking
    BY <1>1, OneRequest DEF Typed, TypeOK, Located, NetRules
  <2>2. Due[rs][start[c]] = Cascade(rs, start[c])
    BY <2>1 DEF Due
  <2>3. executed[c] \subseteq Cascade(rs, start[c])
    <3> SUFFICES ASSUME NEW r \in executed[c] PROVE r \in Cascade(rs, start[c])
      OBVIOUS
    <3>1. PICK d \in Check : net[d] = net[c] /\ r \in Cascade(stored[net[c]], start[d])
      BY <1>1 DEF Sourced, ReportsCaused, CausedOn
    <3>2. d = c
      BY <1>1, <3>1 DEF Shared
    <3> QED BY <3>1, <3>2 DEF NetRules
  <2>4. \A r \in rs : CalledFor(c, r) => r \in executed[c]
    <3>1. AllInPlace(marking[net[c]], rs)
      BY <1>1, <2>1 DEF PlacesKept, NetRules
    <3>2. Undisturbed(c) /\ Dead(marking[net[c]], rs)
      BY <1>1 DEF AloneUndisturbed, Undisturbed
    <3> QED BY <2>1, <3>1, <3>2, TokenKeepsAlive DEF Undisturbed
  <2>5. Cascade(rs, start[c]) \subseteq executed[c]
    <3>1. RulesByTrigger(rs, start[c]) \subseteq executed[c]
      BY <2>4 DEF RulesByTrigger, CalledFor
    <3>2. \A s \in executed[c] : TriggeredRules(rs, ActOf[s]) \subseteq executed[c]
      BY <2>4 DEF TriggeredRules, CalledFor
    <3> QED BY <2>1, <3>1, <3>2, CascadeIsLeast
  <2> QED BY <2>2, <2>3, <2>5
<1>2. Typed /\ Sourced /\ PlacesKept /\ AloneUndisturbed => AloneIsComplete
  BY <1>1 DEF AloneIsComplete
<1>3. Init => PlacesKept /\ AloneUndisturbed
  <2>1. Init => PlacesKept
    BY DEF Init, PlacesKept, AllInPlace, EmptyMarking
  <2> QED BY <2>1 DEF Init, AloneUndisturbed
<1>4. Spec => [](Sourced /\ PlacesKept /\ AloneUndisturbed)
  BY <1>3, SourcedInit, SourcedStep, PlacesKeptStep, AloneUndisturbedStep, AlwaysTyped,
     PTL DEF Spec
<1> QED BY <1>2, <1>4, AlwaysTyped, PTL
==============================================================================
