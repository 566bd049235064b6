---------------------------- MODULE RuleAnalysis ----------------------------
(***************************************************************************)
(* The second half of SifisController.checkRule: what it makes of the rules *)
(* that a simulation has executed.  The simulation itself is the abstract    *)
(* one of RuleCascade, which PolicyCheck implements; it is cut off at any    *)
(* moment, as the request does after one second.                           *)
(*                                                                         *)
(* The request goes once over the executed rules.  For each it makes a list  *)
(* of the rules that are redundant with it and one of those inconsistent     *)
(* with it, drops a list that a reported one contains, and computes the      *)
(* parents of every executed rule anew.  A list is the set of its positions  *)
(* in executed: a rule may have been executed, and then is listed, twice.    *)
(***************************************************************************)
EXTENDS RuleCascade

CONSTANTS
  MLClass,      \* classes of the ontology
  MLClassesOf,  \* the classes an action has in the base ontology
  MaxAnalysed,  \* the executed rules checkRule looks at (40 in the code)
  MaxRecorded   \* bound on the rules executed within the second

ASSUME RuleAnalysisAssumption ==
  /\ MLClassesOf \in [Action -> SUBSET MLClass]
  /\ MaxAnalysed \in Nat \ {0}
  /\ MaxRecorded \in Nat

VARIABLES
  checked,       \* the rule of the request
  phase,         \* "simulate", "analyse", "answered" or "failed"
  executed,      \* simulatedRules, cut to MaxAnalysed
  next,          \* i of the loop
  inconsistent,  \* RuleProblems.inconsistentRules
  redundant,     \* RuleProblems.redundantRules
  parents        \* Rule.parents

cascade == <<rules, due, history>>
problems == <<inconsistent, redundant, parents>>
analysisVars == <<rules, due, history, checked, phase, executed, next,
                  inconsistent, redundant, parents>>

(* A check whose loop is reported would be answered before any of this. *)
AnalysisInit ==
  /\ Init
  /\ checked \in Rule
  /\ ~ LoopReported(rules, checked)
  /\ phase = "simulate"
  /\ executed = <<>>
  /\ next = 1
  /\ inconsistent = {}
  /\ redundant = {}
  /\ parents = [r \in Rule |-> {}]

Start ==
  /\ phase = "simulate"
  /\ \E t \in RootChoices(rules, checked) \cap NetTriggers(rules) : Occur(t)
  /\ UNCHANGED <<checked, phase, executed, next, inconsistent, redundant, parents>>

Simulate ==
  /\ phase = "simulate"
  /\ Len(history) < MaxRecorded
  /\ \E r \in rules : Execute(r)
  /\ UNCHANGED <<checked, phase, executed, next, inconsistent, redundant, parents>>

Started == history # <<>> \/ \E r \in Rule : due[r] > 0

\* Faulty variant: the cut looks at the wrong end of the list.
CutOffLast ==
  /\ phase = "simulate" /\ Started
  /\ phase' = "analyse"
  /\ executed' = SubSeq(history, IF Len(history) > MaxAnalysed
                                 THEN Len(history) - MaxAnalysed + 1 ELSE 1, Len(history))
  /\ UNCHANGED <<rules, due, history, checked, next, inconsistent, redundant, parents>>

CutOff ==
  /\ phase = "simulate" /\ Started
  /\ phase' = "analyse"
  /\ executed' = SubSeq(history, 1, IF Len(history) > MaxAnalysed
                                    THEN MaxAnalysed ELSE Len(history))
  /\ UNCHANGED <<rules, due, history, checked, next, inconsistent, redundant, parents>>

-----------------------------------------------------------------------------
(* One round of the loop. *)

EqualsML(a, b) == MLClassesOf[a] \cap MLClassesOf[b] # {}

Others(i) == DOMAIN executed \ {i}
AlikeWith(i) == {j \in Others(i) : EqualsML(ActOf[executed[i]], ActOf[executed[j]])}
RulesAt(L) == {executed[k] : k \in L}

\* Faulty variant: a list with one rule in common with a reported one is dropped.
ContainedPartly(lists, L) == \E K \in lists : RulesAt(L) \cap RulesAt(K) # {}

(* containsInconsistency, containsRedundancy *)
Contained(lists, L) == \E K \in lists : RulesAt(L) \subseteq RulesAt(K)

\* The list of rule i and others joins lists when it has a second rule and is new.
Joins(lists, i, others) == others # {} /\ ~ Contained(lists, {i} \cup others)

\* Faulty variant: the head of the list is off by one.
WithListShifted(lists, i, others) ==
  IF Joins(lists, i, others) THEN lists \cup {{i + 1} \cup others} ELSE lists

WithList(lists, i, others) ==
  IF Joins(lists, i, others) THEN lists \cup {{i} \cup others} ELSE lists

\* The inner loop over the executed rules: one whose trigger is the trigger of
\* the rule before it is passed over, the last round for a rule counts.
ParentRounds(r) ==
  {k \in DOMAIN executed \ {1} :
     executed[k] = r /\ TrigOf[executed[k]] # TrigOf[executed[k - 1]]}

\* Faulty variant: the rule's own predecessor is left out.
ParentsShort(r) ==
  {s \in Rule : \E k \in ParentRounds(r), j \in DOMAIN executed :
     j < k - 1 /\ executed[j] = s /\ Causes(ActOf[s], TrigOf[r])}

\* Faulty variant: whatever acts on a device of the trigger is a parent.
ParentsByDevice(r) ==
  {s \in Rule : \E k \in ParentRounds(r), j \in DOMAIN executed :
     j < k /\ executed[j] = s /\ EntitiesOf[ActOf[s]] \cap EntitiesOf[TrigOf[r]] # {}}

Parents(r) ==
  {s \in Rule : \E k \in ParentRounds(r), j \in DOMAIN executed :
     j < k /\ executed[j] = s /\ Causes(ActOf[s], TrigOf[r])}

(* hashCode and the JSON writer follow parents; from these rules for ever. *)
Endless(r) == \E S \in SUBSET Rule : r \in S /\ \A s \in S : parents[s] \cap S # {}

(* Adding a list to a HashSet computes the hash of its rules. *)
HashEnds(lists, i, others) ==
  Joins(lists, i, others) => \A r \in RulesAt({i} \cup others) : ~ Endless(r)

CanHash ==
  /\ HashEnds(inconsistent, next, Others(next) \ AlikeWith(next))
  /\ HashEnds(redundant, next, AlikeWith(next))

Analyse ==
  /\ phase = "analyse" /\ next \in DOMAIN executed
  /\ CanHash
  /\ inconsistent' = WithList(inconsistent, next, Others(next) \ AlikeWith(next))
  /\ redundant' = WithList(redundant, next, AlikeWith(next))
  /\ parents' = [r \in Rule |-> Parents(r)]
  /\ next' = next + 1
  /\ UNCHANGED <<rules, due, history, checked, phase, executed>>

(* The answer holds the executed rules, each with its parents. *)
Answer ==
  /\ phase = "analyse" /\ next \notin DOMAIN executed
  /\ \A k \in DOMAIN executed : ~ Endless(executed[k])
  /\ phase' = "answered"
  /\ UNCHANGED <<rules, due, history, checked, executed, next, inconsistent, redundant, parents>>

(* StackOverflowError, in the hash of a list or in the JSON writer. *)
Overflow ==
  /\ phase = "analyse"
  /\ IF next \in DOMAIN executed THEN ~ CanHash
     ELSE \E k \in DOMAIN executed : Endless(executed[k])
  /\ phase' = "failed"
  /\ UNCHANGED <<rules, due, history, checked, executed, next, inconsistent, redundant, parents>>

AnalysisNext == Start \/ Simulate \/ CutOff \/ Analyse \/ Answer \/ Overflow

AnalysisSpec == AnalysisInit /\ [][AnalysisNext]_analysisVars

-----------------------------------------------------------------------------
(* Correctness. *)

AnalysisTypeOK ==
  /\ rules \subseteq Rule
  /\ due \in [Rule -> Nat]
  /\ history \in Seq(Rule)
  /\ checked \in Rule
  /\ phase \in {"simulate", "analyse", "answered", "failed"}
  /\ executed \in Seq(Rule)
  /\ next \in Nat \ {0}
  /\ inconsistent \subseteq SUBSET DOMAIN executed
  /\ redundant \subseteq SUBSET DOMAIN executed
  /\ parents \in [Rule -> SUBSET Rule]

(* Dropping lists that a reported list contains loses no problem: any two     *)
(* executions are together in a redundancy list when their actions have a     *)
(* class in common, and in an inconsistency list when they have none.        *)
PairsReported ==
  phase = "answered" =>
    \A i \in DOMAIN executed : \A j \in Others(i) :
      LET pair == {executed[i], executed[j]}
          lists == IF EqualsML(ActOf[executed[i]], ActOf[executed[j]]) THEN redundant ELSE inconsistent
      IN  \E L \in lists : pair \subseteq RulesAt(L)

(* The user can follow every effect back to a cause: a rule that the start    *)
(* did not trigger, and that does not follow a rule of the same trigger, has   *)
(* a parent, although the list was cut off and parents are sought before it.  *)
EffectsHaveParents ==
  phase = "answered" =>
    \A k \in DOMAIN executed \ {1} :
      TrigOf[executed[k]] \notin {TrigOf[executed[1]], TrigOf[executed[k - 1]]} =>
        parents[executed[k]] # {}

\* No stored rules cause each other in a circle.
NoCausalLoops ==
  \A S \in SUBSET rules : S # {} =>
    \E r \in S : \A s \in S : ~ Causes(ActOf[s], TrigOf[r])

(* Without causal loops among the stored rules the analysis ends with an      *)
(* answer: whatever the cut left of the executions, no rule becomes its own   *)
(* ancestor, neither a hash code nor the answer is endless.                  *)
LoopFreeIsAnswered == NoCausalLoops => phase # "failed"

(* What the repository's test expects of a check.  The loop test does not     *)
(* ensure it: it passes over loops without the checked rule, and recognises   *)
(* no rule of a loop as the checked one.                                     *)
AnalysisIsAnswered == phase # "failed"
=============================================================================
