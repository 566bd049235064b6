------------------------------- MODULE RuleNet -------------------------------
(***************************************************************************)
(* The coloured Petri net that PetriNetServiceImpl.buildNet makes of a     *)
(* user's high-level policies, and the directed graph kept next to it.     *)
(*                                                                         *)
(* A policy (class Rule) is a trigger-action pair.  Its trigger and its    *)
(* action are places of the net; firing the rule moves the token of the    *)
(* trigger to the action; an action that, according to the ontology, makes *)
(* a trigger occur hands the token on to the place of that trigger.  A     *)
(* place with several consumers gets a copy transition and one copy place  *)
(* for each of them.                                                       *)
(*                                                                         *)
(* Tokens carry the trigger or the action they were made from (class       *)
(* Token), every timestamp is 0, and no place has a capacity.              *)
(***************************************************************************)
EXTENDS Naturals

CONSTANTS
  Rule,         \* the policies a user may store
  Trigger,      \* triggers, up to Trigger.equals
  Action,       \* actions, up to Action.equals
  TrigOf,       \* Rule.getTrigger
  ActOf,        \* Rule.getAction
  ServiceOf,    \* getService of a trigger or of an action
  EntitiesOf,   \* the details of a trigger or an action that are IoT entities
  TextOnly,     \* triggers and actions without an entity or location detail
  OwlTriggers,  \* pairs <<a, t>> for which OWLService.triggers(a, t) is true
  NoRule,       \* no rule in hand
  NoTrigger     \* the Java null of getRoot

ASSUME RuleNetAssumption ==
  /\ TrigOf \in [Rule -> Trigger]
  /\ ActOf \in [Rule -> Action]
  /\ Trigger \cap Action = {}
  /\ NoRule \notin Rule
  /\ NoTrigger \notin Trigger
  /\ OwlTriggers \subseteq Action \X Trigger
  /\ TextOnly \subseteq Trigger \cup Action
  /\ \A x \in TextOnly : EntitiesOf[x] = {}

(***************************************************************************)
(* The shape of the net.                                                   *)
(***************************************************************************)

\* getTriggeredRules: action a makes trigger t occur when both act on the
\* same service, share an IoT entity, and the ontology relates them.
Causes(a, t) ==
  /\ ServiceOf[a] = ServiceOf[t]
  /\ EntitiesOf[a] \cap EntitiesOf[t] # {}
  /\ <<a, t>> \in OwlTriggers

RulesByTrigger(rs, t) == {r \in rs : TrigOf[r] = t}

\* Faulty variant: the devices of action and trigger are not compared.
TriggeredRulesAnyDevice(rs, a) ==
  {r \in rs : ServiceOf[a] = ServiceOf[TrigOf[r]] /\ <<a, TrigOf[r]>> \in OwlTriggers}

TriggeredRules(rs, a) == {r \in rs : Causes(a, TrigOf[r])}
TriggeredTriggers(rs, a) == {TrigOf[r] : r \in TriggeredRules(rs, a)}

NetTriggers(rs) == {TrigOf[r] : r \in rs}
NetActions(rs) == {ActOf[r] : r \in rs}

IsSingle(S) == \E x \in S : S = {x}

\* Places.  One per distinct trigger and action; a copy place per rule of a
\* trigger that several rules share, and per trigger that an action causes.
TriggerPlace(t) == <<"trigger", t>>
ActionPlace(a) == <<"action", a>>
CopyOfTrigger(r) == <<"triggerCopy", r>>
CopyOfAction(a, t) == <<"actionCopy", <<a, t>>>>

Place ==
  {TriggerPlace(t) : t \in Trigger} \cup {ActionPlace(a) : a \in Action}
    \cup {CopyOfTrigger(r) : r \in Rule}
    \cup {CopyOfAction(x[1], x[2]) : x \in Action \X Trigger}

Colour == Trigger \cup Action

\* A transition has one input arc, from "in", and an output arc to each place
\* of "out".  It removes a token equal to "takes" and creates a "gives" token
\* in every output place; "rule" is the rule of a RuleTransition.
Transition(rule, in, out, takes, gives) ==
  [rule |-> rule, in |-> in, out |-> out, takes |-> takes, gives |-> gives]

\* Faulty variant: rules that share a trigger all read the trigger's place.
RuleInputShared(rs, r) == TriggerPlace(TrigOf[r])

RuleInput(rs, r) ==
  IF IsSingle(RulesByTrigger(rs, TrigOf[r]))
  THEN TriggerPlace(TrigOf[r]) ELSE CopyOfTrigger(r)

RuleTransitions(rs) ==
  {Transition(r, RuleInput(rs, r), {ActionPlace(ActOf[r])}, TrigOf[r], ActOf[r]) :
     r \in rs}

TriggerCopies(rs) ==
  {Transition(NoRule, TriggerPlace(t),
              {CopyOfTrigger(r) : r \in RulesByTrigger(rs, t)}, t, t) :
     t \in {u \in NetTriggers(rs) : ~IsSingle(RulesByTrigger(rs, u))}}

\* Faulty variant: the trigger transitions of an action share its place.
TriggerInputShared(rs, a, t) == ActionPlace(a)

TriggerInput(rs, a, t) ==
  IF IsSingle(TriggeredTriggers(rs, a)) THEN ActionPlace(a) ELSE CopyOfAction(a, t)

\* Faulty variant: buildNet relates actions and triggers of any two devices.
CausedPairsAnyDevice(rs) ==
  {x \in NetActions(rs) \X NetTriggers(rs) :
     ServiceOf[x[1]] = ServiceOf[x[2]] /\ x \in OwlTriggers}

CausedPairs(rs) ==
  {x \in NetActions(rs) \X NetTriggers(rs) : x[2] \in TriggeredTriggers(rs, x[1])}

\* Faulty variant: the transition is not told its action (as by the other two
\* constructors of TriggerTransition) and removes trigger tokens instead.
TriggerTransitionsNoAction(rs) ==
  {Transition(NoRule, TriggerInput(rs, x[1], x[2]), {TriggerPlace(x[2])}, x[2], x[2]) :
     x \in CausedPairs(rs)}

TriggerTransitions(rs) ==
  {Transition(NoRule, TriggerInput(rs, x[1], x[2]), {TriggerPlace(x[2])}, x[1], x[2]) :
     x \in CausedPairs(rs)}

ActionCopies(rs) ==
  {Transition(NoRule, ActionPlace(a),
              {CopyOfAction(a, t) : t \in TriggeredTriggers(rs, a)}, a, a) :
     a \in {b \in NetActions(rs) : /\ TriggeredTriggers(rs, b) # {}
                                   /\ ~IsSingle(TriggeredTriggers(rs, b))}}

Net(rs) ==
  RuleTransitions(rs) \cup TriggerCopies(rs)
    \cup TriggerTransitions(rs) \cup ActionCopies(rs)

(***************************************************************************)
(* The token game.  A marking gives, for a place and a colour, how many    *)
(* equal tokens the place holds.                                           *)
(***************************************************************************)
Marking == [Place -> [Colour -> Nat]]

EmptyMarking == [p \in Place |-> [c \in Colour |-> 0]]

\* Transition.enabled looks at the number of tokens, never at their colour.
Enabled(m, tr) == \E c \in Colour : m[tr.in][c] > 0

\* fire of the three kinds of transition: removeTokens drops one equal token
\* if there is one and silently drops nothing if there is none.
Fire(m, tr) ==
  [p \in Place |-> [c \in Colour |->
     (IF p = tr.in /\ c = tr.takes /\ m[p][c] > 0 THEN m[p][c] - 1 ELSE m[p][c])
       + (IF p \in tr.out /\ c = tr.gives THEN 1 ELSE 0)]]

\* Faulty variant: the test "instanceof RuleTransition" is missing.
EnabledRulesUntyped(m, rs) == {tr \in Net(rs) : Enabled(m, tr)}

EnabledRules(m, rs) == {tr \in RuleTransitions(rs) : Enabled(m, tr)}

\* PetriNet.isDead
Dead(m, rs) == \A tr \in Net(rs) : ~Enabled(m, tr)

\* ExtendedPetriNet.removeAllTokens passes each place a copy of its own tokens:
\* TokenSet.removeAll throws at the second equal token, the exception is
\* swallowed, and of k > 1 equal tokens k - 1 stay.
Cleared(m) ==
  [p \in Place |-> [c \in Colour |-> IF m[p][c] > 1 THEN m[p][c] - 1 ELSE 0]]

WithToken(m, p, c) == [m EXCEPT ![p][c] = @ + 1]

(***************************************************************************)
(* The graph over the trigger and action places.                           *)
(***************************************************************************)
Vertices(rs) ==
  {TriggerPlace(t) : t \in NetTriggers(rs)} \cup {ActionPlace(a) : a \in NetActions(rs)}

Edges(rs) ==
  {<<TriggerPlace(TrigOf[r]), ActionPlace(ActOf[r])>> : r \in rs}
    \cup {<<ActionPlace(x[1]), TriggerPlace(x[2])>> : x \in CausedPairs(rs)}

\* The vertices reachable from p: those in every set that holds p and is
\* closed under the edges.
ReachedFrom(V, E, p) ==
  {q \in V : \A S \in SUBSET V :
     (p \in S /\ \A e \in E : e[1] \in S => e[2] \in S) => q \in S}

\* ConnectivityInspector.connectedSetOf, edges taken both ways.
Component(rs, t) ==
  ReachedFrom(Vertices(rs), Edges(rs) \cup {<<e[2], e[1]>> : e \in Edges(rs)},
              TriggerPlace(t))

\* x of a checked rule against y of a stored one.  checkRule, unlike saveRule and
\* the database service, leaves an entity or a location of the request's body a
\* map, which Detail.equals finds different from every stored value.
Matches(x, y) == x = y /\ x \in TextOnly

\* The vertices in which getRoot looks for a root.  A trigger without a place of
\* its own makes it look up the set of the null place, which is the whole graph.
Searched(rs, t) ==
  IF \E u \in NetTriggers(rs) : Matches(t, u) THEN Component(rs, t) ELSE Vertices(rs)

\* ExtendedPetriNet.getRoot: the first vertex of in-degree 0 in the iteration
\* order of a hash set, so any of them; null when there is none.
\*
\* Faulty variant: vertices with one incoming edge.
RootPlacesOffByOne(rs, r) ==
  {p \in Searched(rs, TrigOf[r]) : IsSingle({e \in Edges(rs) : e[2] = p})}

RootPlaces(rs, r) ==
  {p \in Searched(rs, TrigOf[r]) : \A e \in Edges(rs) : e[2] # p}

RootChoices(rs, r) ==
  IF RootPlaces(rs, r) = {} THEN {NoTrigger}
  ELSE {IF p[1] = "trigger" THEN p[2] ELSE NoTrigger : p \in RootPlaces(rs, r)}

\* Some simple cycle of the graph takes the edge from the trigger to the action
\* of the stored rule r.
InLoop(rs, r) ==
  TriggerPlace(TrigOf[r])
    \in ReachedFrom(Vertices(rs), Edges(rs), ActionPlace(ActOf[r]))

\* checkRule reports a loop when a rule of it has the trigger and the action of
\* the rule in the request's body ("involved").
LoopReported(rs, r) ==
  \E s \in rs : /\ Matches(TrigOf[r], TrigOf[s]) /\ Matches(ActOf[r], ActOf[s])
                /\ InLoop(rs, s)

\* Rules a run from trigger t should execute: the least set that holds the
\* rules of t and, with a rule, the rules its action triggers.
Cascade(rs, t) ==
  {r \in rs : \A S \in SUBSET rs :
     (/\ RulesByTrigger(rs, t) \subseteq S
      /\ \A s \in S : TriggeredRules(rs, ActOf[s]) \subseteq S) => r \in S}
==============================================================================
