----------------------------- MODULE PolicyCheck -----------------------------
(***************************************************************************)
(* One POST /sifis/check: the request thread of SifisController.checkRule  *)
(* and the Simulation thread it starts on the net just built.              *)
(*                                                                         *)
(* The request looks for loops through the checked rule and for a root of  *)
(* the graph, in the rule's connected component if the rule has a place    *)
(* there, puts one token on the root, starts the simulation, sleeps one    *)
(* second, raises the stop flag and copies the list of simulated rules.    *)
(* It never joins the thread and the list is not synchronised, so the      *)
(* simulation goes on while the list is copied.                            *)
(***************************************************************************)
EXTENDS RuleNet, Sequences, FiniteSets

CONSTANTS
  MaxFired    \* bound: the one second sleep ends by the time the simulation
              \* has recorded this many rules

ASSUME MaxFiredAssumption == MaxFired \in Nat \ {0}

VARIABLES
  rules,         \* the user's stored policies, as read from the database
  checked,       \* the rule in the request's body
  rpc,           \* where the request thread is
  startTrigger,  \* RuleProblems.startTrigger
  copied,        \* size of simulatedRules when the copy was started
  executed,      \* the array getSimualtedRules returns
  marking,       \* tokens of the net
  spc,           \* where the Simulation thread is
  fired,         \* rule fired and not yet added to simulatedRules
  log,           \* Simulation.simulatedRules
  stop           \* Simulation.stop

inputVars == <<rules, checked>>
requestVars == <<rpc, startTrigger, copied, executed>>
threadVars == <<spc, fired, log>>
vars == <<rules, checked, rpc, startTrigger, copied, executed,
          marking, spc, fired, log, stop>>

TypeOK ==
  /\ rules \in SUBSET Rule
  /\ checked \in Rule
  /\ rpc \in {"check", "root", "seed", "sleep", "size", "copy",
              "looped", "answered", "failed"}
  /\ startTrigger \in NetTriggers(rules) \cup {NoTrigger}
  /\ copied \in Nat
  /\ executed \in Seq(rules)
  /\ marking \in Marking
  /\ spc \in {"idle", "loop", "inner", "record", "ended"}
  /\ fired \in rules \cup {NoRule}
  /\ log \in Seq(rules)
  /\ stop \in BOOLEAN

\* The net is new: buildNet leaves no token in it.
Init ==
  /\ rules \in SUBSET Rule /\ IsFiniteSet(rules)
  /\ checked \in Rule
  /\ rpc = "check"
  /\ startTrigger = NoTrigger
  /\ copied = 0
  /\ executed = <<>>
  /\ marking = EmptyMarking
  /\ spc = "idle"
  /\ fired = NoRule
  /\ log = <<>>
  /\ stop = FALSE

(***************************************************************************)
(* The request thread.                                                     *)
(***************************************************************************)

\* checkRule reports the loops in which it recognises the checked rule and, if
\* there is one, answers without a simulation.
CheckLoops ==
  /\ rpc = "check"
  /\ rpc' = IF LoopReported(rules, checked) THEN "looped" ELSE "root"
  /\ UNCHANGED <<inputVars, startTrigger, copied, executed, marking, threadVars, stop>>

GetRoot ==
  /\ rpc = "root"
  /\ startTrigger' \in RootChoices(rules, checked)
  /\ rpc' = "seed"
  /\ UNCHANGED <<inputVars, copied, executed, marking, threadVars, stop>>

\* getSimualtedRules up to simulator.start().
StartSimulation ==
  /\ rpc = "seed"
  /\ startTrigger # NoTrigger
  /\ marking' = WithToken(Cleared(marking), TriggerPlace(startTrigger), startTrigger)
  /\ rpc' = "sleep"
  /\ spc' = "loop"
  /\ UNCHANGED <<inputVars, startTrigger, copied, executed, fired, log, stop>>

\* No trigger place for null: the call on it throws and the request fails.
StartFails ==
  /\ rpc = "seed"
  /\ startTrigger = NoTrigger
  /\ marking' = Cleared(marking)
  /\ rpc' = "failed"
  /\ UNCHANGED <<inputVars, startTrigger, copied, executed, threadVars, stop>>

\* Faulty variant: the request waits for the thread instead of a time.
SetStopJoin ==
  /\ rpc = "sleep" /\ spc = "ended"
  /\ stop' = TRUE
  /\ rpc' = "size"
  /\ UNCHANGED <<inputVars, startTrigger, copied, executed, marking, threadVars>>

\* The sleep is over: nothing relates it to the thread's progress.
SetStop ==
  /\ rpc = "sleep"
  /\ stop' = TRUE
  /\ rpc' = "size"
  /\ UNCHANGED <<inputVars, startTrigger, copied, executed, marking, threadVars>>

\* rules.addAll(simulatedRules) first allocates an array of the list's size...
ReadSize ==
  /\ rpc = "size"
  /\ copied' = Len(log)
  /\ rpc' = "copy"
  /\ UNCHANGED <<inputVars, startTrigger, executed, marking, threadVars, stop>>

\* ... then walks the list; a list that has grown runs over the array's end.
CopyRules ==
  /\ rpc = "copy"
  /\ IF Len(log) > copied
     THEN rpc' = "failed" /\ UNCHANGED executed
     ELSE rpc' = "answered" /\ executed' = log
  /\ UNCHANGED <<inputVars, startTrigger, copied, marking, threadVars, stop>>

Request ==
  CheckLoops \/ GetRoot \/ StartSimulation \/ StartFails \/ SetStop \/ ReadSize \/ CopyRules

(***************************************************************************)
(* The Simulation thread.                                                  *)
(***************************************************************************)

\* Faulty variant: the loop does not read the stop flag.
LoopTestDeaf ==
  /\ spc = "loop"
  /\ \/ Dead(marking, rules) /\ spc' = "ended"
     \/ ~Dead(marking, rules) /\ Len(log) < MaxFired /\ spc' = "inner"
  /\ UNCHANGED <<inputVars, requestVars, marking, fired, log, stop>>

\* while (!isFinished() && !stop)
LoopTest ==
  /\ spc = "loop"
  /\ \/ /\ Dead(marking, rules) \/ stop
        /\ spc' = "ended"
     \/ /\ ~Dead(marking, rules) /\ ~stop
        /\ Len(log) < MaxFired
        /\ spc' = "inner"
  /\ UNCHANGED <<inputVars, requestVars, marking, fired, log, stop>>

\* fireTransition fires rule transitions, in random order, as long as one is
\* enabled; this inner loop does not look at the stop flag.
FireRule ==
  /\ spc = "inner"
  /\ \E tr \in EnabledRules(marking, rules) :
       /\ marking' = Fire(marking, tr)
       /\ fired' = tr.rule
  /\ spc' = "record"
  /\ UNCHANGED <<inputVars, requestVars, log, stop>>

RecordRule ==
  /\ spc = "record"
  /\ log' = Append(log, fired)
  /\ fired' = NoRule
  /\ spc' = "inner"
  /\ UNCHANGED <<inputVars, requestVars, marking, stop>>

\* Faulty variants: a round fires any transition at any time; a round does not
\* come back to the loop's test.
FireOtherEager ==
  /\ spc = "inner"
  /\ \/ \E tr \in Net(rules) : Enabled(marking, tr) /\ marking' = Fire(marking, tr)
     \/ Dead(marking, rules) /\ UNCHANGED marking
  /\ spc' = "loop"
  /\ UNCHANGED <<inputVars, requestVars, fired, log, stop>>

FireOtherStays ==
  /\ spc = "inner"
  /\ EnabledRules(marking, rules) = {}
  /\ \/ \E tr \in Net(rules) : Enabled(marking, tr) /\ marking' = Fire(marking, tr)
     \/ Dead(marking, rules) /\ UNCHANGED marking
  /\ UNCHANGED <<inputVars, requestVars, spc, fired, log, stop>>

\* With no rule transition enabled, one other transition, if there is one.
FireOther ==
  /\ spc = "inner"
  /\ EnabledRules(marking, rules) = {}
  /\ \/ \E tr \in Net(rules) : Enabled(marking, tr) /\ marking' = Fire(marking, tr)
     \/ Dead(marking, rules) /\ UNCHANGED marking
  /\ spc' = "loop"
  /\ UNCHANGED <<inputVars, requestVars, fired, log, stop>>

Thread == LoopTest \/ FireRule \/ RecordRule \/ FireOther

\* The request has its answer and the thread, if it was started, has ended.
Terminated ==
  /\ rpc \in {"looped", "answered", "failed"}
  /\ spc \in {"idle", "ended"}
  /\ UNCHANGED vars

Next == Request \/ Thread \/ Terminated

\* Both threads are scheduled and Thread.sleep returns.
Spec == Init /\ [][Next]_vars /\ WF_vars(Request) /\ WF_vars(Thread)

(***************************************************************************)
(* Vocabulary of the properties.                                           *)
(***************************************************************************)
RangeOf(s) == {s[i] : i \in DOMAIN s}

\* Rules fired so far, recorded or not.
Fired == RangeOf(log) \cup ({fired} \ {NoRule})

\* The simulation of startTrigger has been started.
Started == spc # "idle"

\* A token somewhere upstream of rule r that is still to reach it.
Owed(r) ==
  LET t == TrigOf[r] IN
  \/ marking[TriggerPlace(t)][t] > 0
  \/ marking[CopyOfTrigger(r)][t] > 0
  \/ \E a \in NetActions(rules) : /\ Causes(a, t)
                                  /\ \/ marking[ActionPlace(a)][a] > 0
                                     \/ marking[CopyOfAction(a, t)][a] > 0

\* Trigger t has occurred in the simulation.
Activated(t) ==
  \/ Started /\ t = startTrigger
  \/ \E r \in Fired : Causes(ActOf[r], t)

\* A rule among the searched vertices, maybe not the checked one, is in a loop.
LoopSearched ==
  \E r \in rules : /\ TriggerPlace(TrigOf[r]) \in Searched(rules, TrigOf[checked])
                   /\ InLoop(rules, r)

(***************************************************************************)
(* Safety.                                                                 *)
(***************************************************************************)

\* A transition is enabled by the number of tokens but removes them by colour:
\* an enabled transition always finds the token it is to remove.  Were it not
\* so, it would create tokens from nothing, for ever (buildNet, fire).
FiringConsumes ==
  \A tr \in Net(rules) : Enabled(marking, tr) => marking[tr.in][tr.takes] > 0

\* No rule is forgotten: a rule whose trigger has occurred has been fired or
\* some token on its way will fire it, whatever transitions the thread picks
\* (copy places of buildNet, random choice of fireTransition).
NoRuleForgotten ==
  \A r \in rules : Activated(TrigOf[r]) => r \in Fired \/ Owed(r)

\* A simulation that ends because the net is dead has executed exactly the
\* rules the start trigger leads to (run's "Deadlock" exit).
CompleteAtDeadlock ==
  spc = "ended" /\ Dead(marking, rules)
    => RangeOf(log) = Cascade(rules, startTrigger)

\* The list is in causal order: the trigger of each recorded rule is the start
\* trigger or was caused by a rule recorded before it.
CausalLog ==
  \A i \in DOMAIN log :
    \/ TrigOf[log[i]] = startTrigger
    \/ \E j \in 1 .. (i - 1) : Causes(ActOf[log[j]], TrigOf[log[i]])

\* When the vertices getRoot searches, be they the checked rule's component or
\* the whole graph, have no cycle and a single root, the simulation from that root
\* executes the checked rule.
UniqueRootReachesChecked ==
  spc = "ended" /\ Dead(marking, rules)
    /\ checked \in rules /\ RootChoices(rules, checked) = {startTrigger}
    /\ ~LoopSearched
    => checked \in RangeOf(log)

\* A request fails for one of two reasons only: the list grew under the copy, or
\* every stored rule is caused by a stored one.  One rule that nothing causes
\* gives every check of its user a root, though maybe not one of the checked rule.
FailureCauses ==
  rpc = "failed" =>
    \/ Len(log) > copied
    \/ \A r \in rules : \E s \in rules : Causes(ActOf[s], TrigOf[r])

\* What the comment of getRoot says: the root is one of "the connected component
\* in the graph that includes the rule" (ExtendedPetriNet.java:110).
RootOfComponent ==
  checked \in rules /\ startTrigger # NoTrigger
    => TriggerPlace(startTrigger) \in Component(rules, TrigOf[checked])

(***************************************************************************)
(* Action and liveness properties.                                         *)
(***************************************************************************)

\* No step robs a transition of its token: a step of the simulation disables at
\* most the transition it fires, so the random order in which fireTransition
\* picks transitions does not decide which rules are executed.
NothingRobbed ==
  [][\A x, y \in Net(rules) :
       /\ Enabled(marking, x) /\ ~Enabled(marking, x)'
       /\ Enabled(marking, y) /\ ~Enabled(marking, y)'
       => x = y]_vars

\* Every request gets an answer, and a thread that was started ends.
RequestEnds == <>(rpc \in {"looped", "answered", "failed"})
ThreadEnds == spc # "idle" ~> spc = "ended"

\* The inner loop, which does not test the stop flag, always ends: firing rules
\* never enables a rule.
InnerLoopEnds == spc = "inner" ~> spc = "loop"

\* Without a loop among the stored rules the simulation of a check ends by
\* itself, and the request is answered with the complete cascade...
AcyclicCheckIsAnswered ==
  rpc = "check" /\ checked \in rules /\ (\A r \in rules : ~InLoop(rules, r))
    ~> /\ rpc = "answered"
       /\ RangeOf(executed) = Cascade(rules, startTrigger)

\* ... on a machine on which one second is enough, that is, if the sleep outlasts
\* the simulation.
PatientCheckIsAnswered == [](stop => spc = "ended") => AcyclicCheckIsAnswered

==============================================================================
