-------------------------- MODULE RuleAnalysisProofs --------------------------
(***************************************************************************)
(* Proofs about what checkRule makes of the executed rules.                *)
(*                                                                         *)
(* The lists: after the round of i, every pair with i is in a list, since  *)
(* a list is dropped only for one that holds all its rules, and lists only *)
(* grow.  The parents: what is due was caused, so the list is causal up to *)
(* any cut, and the loop computes the parents of all rules in every round. *)
(***************************************************************************)
EXTENDS RuleAnalysis, TLAPS

-----------------------------------------------------------------------------
(* Type correctness. *)

\* Before the cut, the analysis has done nothing.
Fresh ==
  phase = "simulate" =>
    executed = <<>> /\ next = 1 /\ inconsistent = {} /\ redundant = {}
      /\ parents = [r \in Rule |-> {}]

\* A longest prefix of the history becomes executed.
LEMMA CutIsPrefix ==
  ASSUME AnalysisTypeOK, CutOff
  PROVE  /\ executed' \in Seq(Rule)
         /\ DOMAIN executed' \subseteq DOMAIN history
         /\ DOMAIN executed' = 1 .. Len(executed')
         /\ \A k \in DOMAIN executed' : executed'[k] = history[k]
<1> DEFINE m == IF Len(history) > MaxAnalysed THEN MaxAnalysed ELSE Len(history)
<1>1. history \in Seq(Rule) /\ Len(history) \in Nat /\ MaxAnalysed \in Nat
  BY RuleAnalysisAssumption DEF AnalysisTypeOK
<1>2. m \in 0 .. Len(history)
  BY <1>1
<1>3. executed' = SubSeq(history, 1, m)
  BY DEF CutOff
<1>4. /\ SubSeq(history, 1, m) \in Seq(Rule)
      /\ Len(SubSeq(history, 1, m)) = m
      /\ \A k \in 1 .. m : SubSeq(history, 1, m)[k] = history[k]
  BY <1>1, <1>2
<1> QED BY <1>1, <1>2, <1>3, <1>4

LEMMA WithListType ==
  ASSUME NEW lists, lists \subseteq SUBSET DOMAIN executed,
         NEW i \in DOMAIN executed, NEW others \in SUBSET DOMAIN executed
  PROVE  WithList(lists, i, others) \subseteq SUBSET DOMAIN executed
BY DEF WithList

LEMMA AnalysisTypeInit == AnalysisInit => AnalysisTypeOK /\ Fresh
BY DEF AnalysisInit, Init, AnalysisTypeOK, Fresh

LEMMA AnalysisTypeStep ==
  AnalysisTypeOK /\ Fresh /\ [AnalysisNext]_analysisVars => AnalysisTypeOK' /\ Fresh'
<1> SUFFICES ASSUME AnalysisTypeOK, Fresh, [AnalysisNext]_analysisVars
             PROVE  AnalysisTypeOK' /\ Fresh'
  OBVIOUS
<1>1. CASE Start
  <2>1. rules' \subseteq Rule /\ due' \in [Rule -> Nat] /\ history' \in Seq(Rule)
    BY <1>1 DEF Start, Occur, AnalysisTypeOK
  <2> QED BY <1>1, <2>1 DEF Start, AnalysisTypeOK, Fresh
<1>2. CASE Simulate
  <2>1. PICK r \in rules : Execute(r)
    BY <1>2 DEF Simulate
  <2>2. due' \in [Rule -> Nat]
    BY <2>1 DEF Execute, AnalysisTypeOK
  <2>3. history' \in Seq(Rule) /\ rules' \subseteq Rule
    BY <2>1 DEF Execute, AnalysisTypeOK
  <2> QED BY <1>2, <2>2, <2>3 DEF Simulate, AnalysisTypeOK, Fresh
<1>3. CASE CutOff
  <2>1. executed' \in Seq(Rule)
    BY <1>3, CutIsPrefix
  <2> QED BY <1>3, <2>1 DEF CutOff, AnalysisTypeOK, Fresh
<1>4. CASE Analyse
  <2>0. /\ inconsistent' = WithList(inconsistent, next, Others(next) \ AlikeWith(next))
        /\ redundant' = WithList(redundant, next, AlikeWith(next))
        /\ next \in DOMAIN executed /\ next' = next + 1 /\ next \in Nat
        /\ phase' = phase /\ phase # "simulate" /\ executed' = executed
        /\ rules' = rules /\ due' = due /\ history' = history /\ checked' = checked
    BY <1>4 DEF Analyse, AnalysisTypeOK
  <2>1. inconsistent' \subseteq SUBSET DOMAIN executed
    <3>1. Others(next) \ AlikeWith(next) \in SUBSET DOMAIN executed
      BY DEF Others
    <3> QED BY <2>0, <3>1, WithListType DEF AnalysisTypeOK
  <2>2. redundant' \subseteq SUBSET DOMAIN executed
    <3>1. AlikeWith(next) \in SUBSET DOMAIN executed
      BY DEF Others, AlikeWith
    <3> QED BY <2>0, <3>1, WithListType DEF AnalysisTypeOK
  <2>3. parents' \in [Rule -> SUBSET Rule]
    BY <1>4 DEF Analyse, Parents
  <2>4. Fresh'
    BY <2>0 DEF Fresh
  <2>5. executed' \in Seq(Rule) /\ next' \in Nat \ {0}
    BY <2>0 DEF AnalysisTypeOK
  <2>6. /\ rules' \subseteq Rule /\ due' \in [Rule -> Nat] /\ history' \in Seq(Rule)
        /\ checked' \in Rule /\ phase' \in {"simulate", "analyse", "answered", "failed"}
    BY <2>0 DEF AnalysisTypeOK
  <2> QED BY <2>0, <2>1, <2>2, <2>3, <2>4, <2>5, <2>6 DEF AnalysisTypeOK
<1>5. CASE Answer \/ Overflow
  BY <1>5 DEF Answer, Overflow, AnalysisTypeOK, Fresh
<1>6. CASE UNCHANGED analysisVars
  BY <1>6 DEF analysisVars, AnalysisTypeOK, Fresh
<1> QED BY <1>1, <1>2, <1>3, <1>4, <1>5, <1>6 DEF AnalysisNext

\* The variables of the analysis have their types; lists hold positions of the
\* executed rules.
THEOREM AnalysisTypeCorrect == AnalysisSpec => []AnalysisTypeOK
BY AnalysisTypeInit, AnalysisTypeStep, PTL DEF AnalysisSpec

-----------------------------------------------------------------------------
(* Every pair is reported. *)

Listed(i, j) ==
  \E L \in (IF EqualsML(ActOf[executed[i]], ActOf[executed[j]])
            THEN redundant ELSE inconsistent) :
    {executed[i], executed[j]} \subseteq RulesAt(L)

\* The pairs of the rules analysed so far are in the lists.
AnalysedListed ==
  \A i \in DOMAIN executed : i < next => \A j \in Others(i) : Listed(i, j)

\* A list that is not added has its rules in one that is there.
LEMMA WithListCovers ==
  ASSUME NEW lists, NEW i, NEW others, NEW j \in others
  PROVE  /\ lists \subseteq WithList(lists, i, others)
         /\ \E L \in WithList(lists, i, others) :
              {executed[i], executed[j]} \subseteq RulesAt(L)
<1>1. {executed[i], executed[j]} \subseteq RulesAt({i} \cup others)
  BY DEF RulesAt
<1>2. others # {}
  OBVIOUS
<1>3. CASE Contained(lists, {i} \cup others)
  BY <1>1, <1>3 DEF Contained, WithList, Joins
<1>4. CASE ~ Contained(lists, {i} \cup others)
  BY <1>1, <1>2, <1>4 DEF WithList, Joins
<1> QED BY <1>3, <1>4

LEMMA WithListGrows ==
  ASSUME NEW lists, NEW i, NEW others
  PROVE  lists \subseteq WithList(lists, i, others)
BY DEF WithList

LEMMA ListedNow ==
  ASSUME executed' = executed, NEW i, NEW j,
         \E L \in (IF EqualsML(ActOf[executed[i]], ActOf[executed[j]])
                  THEN redundant' ELSE inconsistent') :
           {executed[i], executed[j]} \subseteq RulesAt(L)
  PROVE  Listed(i, j)'
<1>1. \A L : RulesAt(L)' = RulesAt(L)
  BY DEF RulesAt
<1>2. EqualsML(ActOf[executed[i]], ActOf[executed[j]])'
        = EqualsML(ActOf[executed[i]], ActOf[executed[j]])
  BY DEF EqualsML
<1>3. CASE EqualsML(ActOf[executed[i]], ActOf[executed[j]])
  <2>1. \E L \in redundant' : {executed'[i], executed'[j]} \subseteq RulesAt(L)'
    BY <1>1, <1>3
  <2> QED BY <1>2, <1>3, <2>1 DEF Listed
<1>4. CASE ~ EqualsML(ActOf[executed[i]], ActOf[executed[j]])
  <2>1. \E L \in inconsistent' : {executed'[i], executed'[j]} \subseteq RulesAt(L)'
    BY <1>1, <1>4
  <2> QED BY <1>2, <1>4, <2>1 DEF Listed
<1> QED BY <1>3, <1>4

LEMMA ListedLater ==
  ASSUME executed' = executed, inconsistent \subseteq inconsistent',
         redundant \subseteq redundant', NEW i, NEW j, Listed(i, j)
  PROVE  Listed(i, j)'
<1>1. \E L \in (IF EqualsML(ActOf[executed[i]], ActOf[executed[j]])
                THEN redundant' ELSE inconsistent') :
         {executed[i], executed[j]} \subseteq RulesAt(L)
  BY DEF Listed
<1> QED BY <1>1, ListedNow

LEMMA ListedStep ==
  AnalysisTypeOK /\ Fresh /\ AnalysedListed /\ [AnalysisNext]_analysisVars => AnalysedListed'
<1> SUFFICES ASSUME AnalysisTypeOK, Fresh, AnalysedListed, [AnalysisNext]_analysisVars
             PROVE  AnalysedListed'
  OBVIOUS
<1>1. CASE UNCHANGED <<executed, next, inconsistent, redundant>>
  BY <1>1 DEF AnalysedListed, Listed, Others, RulesAt
<1>2. CASE CutOff
  <2>1. next' = 1 /\ DOMAIN executed' \subseteq Nat \ {0}
    BY <1>2, CutIsPrefix DEF CutOff, Fresh
  <2> QED BY <2>1 DEF AnalysedListed
<1>3. CASE Analyse
  <2>1. /\ executed' = executed /\ next' = next + 1 /\ next \in DOMAIN executed
        /\ inconsistent' = WithList(inconsistent, next, Others(next) \ AlikeWith(next))
        /\ redundant' = WithList(redundant, next, AlikeWith(next))
        /\ DOMAIN executed \subseteq Nat /\ next \in Nat
    BY <1>3 DEF Analyse, AnalysisTypeOK
  <2>2. inconsistent \subseteq inconsistent' /\ redundant \subseteq redundant'
    BY <2>1, WithListGrows
  <2>3. ASSUME NEW i \in DOMAIN executed, NEW j \in Others(i), i < next
        PROVE  Listed(i, j)'
    <3>1. Listed(i, j)
      BY <2>3 DEF AnalysedListed
    <3> QED BY <2>1, <2>2, <3>1, ListedLater
  <2>4. ASSUME NEW j \in Others(next)
        PROVE  \E L \in (IF EqualsML(ActOf[executed[next]], ActOf[executed[j]])
                         THEN redundant' ELSE inconsistent') :
                 {executed[next], executed[j]} \subseteq RulesAt(L)
    <3>1. CASE EqualsML(ActOf[executed[next]], ActOf[executed[j]])
      <4>1. j \in AlikeWith(next)
        BY <2>4, <3>1 DEF AlikeWith
      <4> QED BY <2>1, <3>1, <4>1, WithListCovers
    <3>2. CASE ~ EqualsML(ActOf[executed[next]], ActOf[executed[j]])
      <4>1. j \in Others(next) \ AlikeWith(next)
        BY <2>4, <3>2 DEF AlikeWith
      <4> QED BY <2>1, <3>2, <4>1, WithListCovers
    <3> QED BY <3>1, <3>2
  <2>5. ASSUME NEW i \in DOMAIN executed, i < next + 1, NEW j \in Others(i)
        PROVE  Listed(i, j)'
    <3>1. CASE i < next
      BY <2>3, <2>5, <3>1
    <3>2. CASE i = next
      <4>1. j \in Others(next)
        BY <2>5, <3>2
      <4> QED BY <2>1, <2>4, <3>2, <4>1, ListedNow
    <3> QED BY <2>1, <2>5, <3>1, <3>2
  <2> QED BY <2>1, <2>5 DEF AnalysedListed, Others
<1> QED
  BY <1>1, <1>2, <1>3
  DEF AnalysisNext, Start, Simulate, Answer, Overflow, analysisVars

LEMMA ListedInit == AnalysisInit => AnalysedListed
BY DEF AnalysisInit, AnalysedListed

\* An answer comes after the last round.
AnsweredLast == phase = "answered" => next \notin DOMAIN executed

LEMMA AnsweredStep ==
  AnalysisTypeOK /\ AnsweredLast /\ [AnalysisNext]_analysisVars => AnsweredLast'
BY DEF AnalysisNext, Start, Simulate, CutOff, Analyse, Answer, Overflow, analysisVars,
       AnsweredLast, AnalysisTypeOK

LEMMA AnsweredInit == AnalysisInit => AnsweredLast
BY DEF AnalysisInit, AnsweredLast

\* Leaving out lists that a reported list contains loses no problem.
THEOREM EveryPairIsReported == AnalysisSpec => []PairsReported
<1>1. ASSUME AnalysisTypeOK, AnalysedListed, AnsweredLast
      PROVE  PairsReported
  <2> SUFFICES ASSUME phase = "answered", NEW i \in DOMAIN executed, NEW j \in Others(i)
               PROVE  Listed(i, j)
    BY DEF PairsReported, Listed
  <2>1. next \in Nat \ {0} /\ next \notin DOMAIN executed /\ DOMAIN executed = 1 .. Len(executed)
        /\ Len(executed) \in Nat
    BY <1>1 DEF AnalysisTypeOK, AnsweredLast
  <2>2. i < next
    BY <2>1
  <2> QED BY <1>1, <2>2 DEF AnalysedListed
<1> QED
  BY <1>1, AnalysisTypeInit, AnalysisTypeStep, ListedInit, ListedStep,
     AnsweredInit, AnsweredStep, PTL DEF AnalysisSpec
-----------------------------------------------------------------------------
(* Every effect has a parent. *)

\* What has been executed, and what is due, was triggered by the start or caused.
CausedHistory ==
  /\ \A k \in DOMAIN history :
       \/ TrigOf[history[k]] = TrigOf[history[1]]
       \/ \E j \in 1 .. (k - 1) : Causes(ActOf[history[j]], TrigOf[history[k]])
  /\ history = <<>> =>
       \A r, s \in Rule : due[r] > 0 /\ due[s] > 0 => TrigOf[r] = TrigOf[s]
  /\ history # <<>> =>
       \A r \in Rule : due[r] > 0 =>
         \/ TrigOf[r] = TrigOf[history[1]]
         \/ \E j \in DOMAIN history : Causes(ActOf[history[j]], TrigOf[r])

\* A prefix of the history is as causal.
CausedExecuted ==
  \A k \in DOMAIN executed :
    \/ TrigOf[executed[k]] = TrigOf[executed[1]]
    \/ \E j \in 1 .. (k - 1) : Causes(ActOf[executed[j]], TrigOf[executed[k]])

\* Parents are computed in the first round, and never change after it.
ParentsKnown ==
  IF next > 1 THEN parents = [r \in Rule |-> Parents(r)]
  ELSE parents = [r \in Rule |-> {}]

LEMMA CausedInit == AnalysisInit => CausedHistory /\ CausedExecuted /\ ParentsKnown
BY DEF AnalysisInit, Init, CausedHistory, CausedExecuted, ParentsKnown

LEMMA CausedHistoryStep ==
  AnalysisTypeOK /\ CausedHistory /\ [AnalysisNext]_analysisVars => CausedHistory'
<1> SUFFICES ASSUME AnalysisTypeOK, CausedHistory, [AnalysisNext]_analysisVars
             PROVE  CausedHistory'
  OBVIOUS
<1>1. CASE UNCHANGED <<due, history>>
  BY <1>1 DEF CausedHistory
<1>2. CASE Start
  <2>1. PICK t : Occur(t)
    BY <1>2 DEF Start
  <2>2. history = <<>> /\ history' = <<>>
    BY <2>1 DEF Occur
  <2>3. ASSUME NEW r \in Rule, due'[r] > 0 PROVE TrigOf[r] = t
    BY <2>1, <2>3 DEF Occur, RulesByTrigger
  <2> QED BY <2>2, <2>3 DEF CausedHistory
<1>3. CASE Simulate
  <2>1. PICK q \in rules : Execute(q)
    BY <1>3 DEF Simulate
  <2>2. /\ q \in Rule /\ due[q] > 0 /\ due \in [Rule -> Nat]
        /\ history \in Seq(Rule) /\ history' = Append(history, q)
    BY <2>1 DEF Execute, AnalysisTypeOK
  <2>3. /\ DOMAIN history = 1 .. Len(history) /\ Len(history) \in Nat
        /\ DOMAIN history' = 1 .. (Len(history) + 1)
        /\ \A k \in 1 .. Len(history) : history'[k] = history[k]
        /\ history'[Len(history) + 1] = q
        /\ history' # <<>>
    BY <2>2
  <2>4. \/ TrigOf[q] = TrigOf[history'[1]]
        \/ \E j \in 1 .. Len(history) : Causes(ActOf[history'[j]], TrigOf[q])
    <3>1. CASE history = <<>>
      BY <2>3, <3>1
    <3>2. CASE history # <<>>
      <4>1. 1 \in 1 .. Len(history)
        BY <2>2, <2>3, <3>2
      <4> QED BY <2>2, <2>3, <3>2, <4>1 DEF CausedHistory
    <3> QED BY <3>1, <3>2
  <2>5. ASSUME NEW k \in DOMAIN history'
        PROVE  \/ TrigOf[history'[k]] = TrigOf[history'[1]]
               \/ \E j \in 1 .. (k - 1) : Causes(ActOf[history'[j]], TrigOf[history'[k]])
    <3>1. CASE k = Len(history) + 1
      <4>1. 1 .. (k - 1) = 1 .. Len(history)
        BY <2>3, <3>1
      <4> QED BY <2>3, <2>4, <3>1, <4>1
    <3>2. CASE k # Len(history) + 1
      <4>1. /\ k \in 1 .. Len(history) /\ 1 \in 1 .. Len(history)
            /\ \A j \in 1 .. (k - 1) : j \in 1 .. Len(history)
        BY <2>3, <3>2
      <4> QED BY <2>3, <4>1 DEF CausedHistory
    <3> QED BY <3>1, <3>2
  <2>6. ASSUME NEW r \in Rule, due'[r] > 0
        PROVE  \/ TrigOf[r] = TrigOf[history'[1]]
               \/ \E j \in DOMAIN history' : Causes(ActOf[history'[j]], TrigOf[r])
    <3>1. CASE r \in TriggeredRules(rules, ActOf[q])
      <4>1. Causes(ActOf[history'[Len(history) + 1]], TrigOf[r])
        BY <2>3, <3>1 DEF TriggeredRules
      <4> QED BY <2>3, <4>1
    <3>2. CASE r \notin TriggeredRules(rules, ActOf[q])
      <4>1. due[r] > 0
        <5>1. due'[r] = (IF r = q THEN due[r] - 1 ELSE due[r])
          BY <2>1, <2>2, <3>2 DEF Execute
        <5> QED BY <2>2, <2>6, <5>1
      <4>2. CASE history = <<>>
        <5>1. TrigOf[r] = TrigOf[q]
          BY <2>2, <4>1, <4>2 DEF CausedHistory
        <5> QED BY <2>3, <4>2, <5>1
      <4>3. CASE history # <<>>
        <5>1. 1 \in 1 .. Len(history)
          BY <2>2, <2>3, <4>3
        <5>2. \A j \in DOMAIN history : j \in DOMAIN history' /\ history'[j] = history[j]
          BY <2>3
        <5> QED BY <2>3, <4>1, <4>3, <5>1, <5>2 DEF CausedHistory
      <4> QED BY <4>2, <4>3
    <3> QED BY <3>1, <3>2
  <2> QED BY <2>3, <2>5, <2>6 DEF CausedHistory
<1> QED
  BY <1>1, <1>2, <1>3
  DEF AnalysisNext, CutOff, Analyse, Answer, Overflow, analysisVars

LEMMA CausedExecutedStep ==
  AnalysisTypeOK /\ CausedHistory /\ CausedExecuted /\ [AnalysisNext]_analysisVars
  => CausedExecuted'
<1> SUFFICES ASSUME AnalysisTypeOK, CausedHistory, CausedExecuted,
                    [AnalysisNext]_analysisVars
             PROVE  CausedExecuted'
  OBVIOUS
<1>1. CASE executed' = executed
  BY <1>1 DEF CausedExecuted
<1>2. CASE CutOff
  <2>1. /\ DOMAIN executed' \subseteq DOMAIN history
        /\ DOMAIN executed' = 1 .. Len(executed') /\ Len(executed') \in Nat
        /\ \A k \in DOMAIN executed' : executed'[k] = history[k]
    BY <1>2, CutIsPrefix
  <2> SUFFICES ASSUME NEW k \in DOMAIN executed'
               PROVE  \/ TrigOf[executed'[k]] = TrigOf[executed'[1]]
                      \/ \E j \in 1 .. (k - 1) :
                           Causes(ActOf[executed'[j]], TrigOf[executed'[k]])
    BY DEF CausedExecuted
  <2>2. 1 \in DOMAIN executed' /\ \A j \in 1 .. (k - 1) : j \in DOMAIN executed'
    BY <2>1
  <2> QED BY <2>1, <2>2 DEF CausedHistory
<1> QED
  BY <1>1, <1>2
  DEF AnalysisNext, Start, Simulate, Analyse, Answer, Overflow, analysisVars

LEMMA ParentsKnownStep ==
  AnalysisTypeOK /\ Fresh /\ ParentsKnown /\ [AnalysisNext]_analysisVars => ParentsKnown'
<1> SUFFICES ASSUME AnalysisTypeOK, Fresh, ParentsKnown, [AnalysisNext]_analysisVars
             PROVE  ParentsKnown'
  OBVIOUS
<1>1. CASE UNCHANGED <<executed, next, parents>>
  BY <1>1 DEF ParentsKnown, Parents, ParentRounds
<1>2. CASE CutOff
  BY <1>2 DEF CutOff, Fresh, ParentsKnown
<1>3. CASE Analyse
  <2>1. next' = next + 1 /\ next \in Nat \ {0} /\ executed' = executed
        /\ parents' = [r \in Rule |-> Parents(r)]
    BY <1>3 DEF Analyse, AnalysisTypeOK
  <2> QED BY <2>1 DEF ParentsKnown, Parents, ParentRounds
<1> QED
  BY <1>1, <1>2, <1>3
  DEF AnalysisNext, Start, Simulate, Answer, Overflow, analysisVars

\* The user can follow every effect back, however the simulation was cut off.
THEOREM EveryEffectHasParents == AnalysisSpec => []EffectsHaveParents
<1>1. ASSUME AnalysisTypeOK, AnsweredLast, CausedExecuted, ParentsKnown
      PROVE  EffectsHaveParents
  <2> SUFFICES ASSUME phase = "answered", NEW k \in DOMAIN executed \ {1},
                      TrigOf[executed[k]] \notin {TrigOf[executed[1]], TrigOf[executed[k - 1]]}
               PROVE  parents[executed[k]] # {}
    BY DEF EffectsHaveParents
  <2>1. /\ next \in Nat \ {0} /\ next \notin DOMAIN executed /\ executed \in Seq(Rule)
        /\ DOMAIN executed = 1 .. Len(executed) /\ Len(executed) \in Nat
    BY <1>1 DEF AnalysisTypeOK, AnsweredLast
  <2>2. parents = [r \in Rule |-> Parents(r)]
    BY <1>1, <2>1 DEF ParentsKnown
  <2>3. PICK j \in 1 .. (k - 1) : Causes(ActOf[executed[j]], TrigOf[executed[k]])
    BY <1>1 DEF CausedExecuted
  <2>4. j \in DOMAIN executed /\ j < k /\ executed[j] \in Rule /\ executed[k] \in Rule
    BY <2>1
  <2>5. k \in ParentRounds(executed[k])
    BY DEF ParentRounds
  <2>6. executed[j] \in Parents(executed[k])
    BY <2>3, <2>4, <2>5 DEF Parents
  <2> QED BY <2>2, <2>4, <2>6
<1> QED
  BY <1>1, AnalysisTypeInit, AnalysisTypeStep, AnsweredInit, AnsweredStep,
     CausedInit, CausedHistoryStep, CausedExecutedStep, ParentsKnownStep, PTL
  DEF AnalysisSpec

-----------------------------------------------------------------------------
(* The analysis is answered when the stored rules have no causal loops. *)

ExecutedAreStored ==
  /\ \A k \in DOMAIN history : history[k] \in rules
  /\ \A k \in DOMAIN executed : executed[k] \in rules

LEMMA StoredInit == AnalysisInit => ExecutedAreStored
BY DEF AnalysisInit, Init, ExecutedAreStored

LEMMA StoredStep ==
  AnalysisTypeOK /\ ExecutedAreStored /\ [AnalysisNext]_analysisVars
  => ExecutedAreStored' /\ rules' = rules
<1> SUFFICES ASSUME AnalysisTypeOK, ExecutedAreStored, [AnalysisNext]_analysisVars
             PROVE  ExecutedAreStored' /\ rules' = rules
  OBVIOUS
<1>1. CASE UNCHANGED <<rules, history, executed>>
  BY <1>1 DEF ExecutedAreStored
<1>2. CASE Start
  BY <1>2 DEF Start, Occur, ExecutedAreStored
<1>3. CASE Simulate
  <2>1. PICK q \in rules : Execute(q)
    BY <1>3 DEF Simulate
  <2>2. q \in Rule /\ history \in Seq(Rule) /\ history' = Append(history, q)
        /\ rules' = rules /\ executed' = executed
    BY <1>3, <2>1 DEF Simulate, Execute, AnalysisTypeOK
  <2>3. ASSUME NEW k \in DOMAIN history' PROVE history'[k] \in rules
    <3>1. CASE k = Len(history) + 1
      BY <2>2, <3>1
    <3>2. CASE k # Len(history) + 1
      <4>1. k \in DOMAIN history /\ history'[k] = history[k]
        BY <2>2, <2>3, <3>2
      <4> QED BY <4>1 DEF ExecutedAreStored
    <3> QED BY <3>1, <3>2
  <2> QED BY <2>2, <2>3 DEF ExecutedAreStored
<1>4. CASE CutOff
  <2>1. /\ DOMAIN executed' \subseteq DOMAIN history
        /\ \A k \in DOMAIN executed' : executed'[k] = history[k]
    BY <1>4, CutIsPrefix
  <2> QED BY <1>4, <2>1 DEF CutOff, ExecutedAreStored
<1> QED
  BY <1>1, <1>2, <1>3, <1>4
  DEF AnalysisNext, Analyse, Answer, Overflow, analysisVars

LEMMA ParentsAreCauses ==
  ASSUME ParentsKnown, ExecutedAreStored, NEW r \in Rule, NEW s \in parents[r]
  PROVE  s \in rules /\ Causes(ActOf[s], TrigOf[r])
BY DEF ParentsKnown, ExecutedAreStored, Parents

LEMMA NothingEndless ==
  ASSUME NoCausalLoops, ParentsKnown, ExecutedAreStored, rules \subseteq Rule, NEW r
  PROVE  ~ Endless(r)
<1> SUFFICES ASSUME Endless(r) PROVE FALSE
  OBVIOUS
<1>1. PICK S \in SUBSET Rule : r \in S /\ \A s \in S : parents[s] \cap S # {}
  BY DEF Endless
<1>2. S \cap rules # {}
  BY <1>1, ParentsAreCauses
<1>3. PICK s \in S \cap rules : \A q \in S \cap rules : ~ Causes(ActOf[q], TrigOf[s])
  BY <1>2 DEF NoCausalLoops
<1>4. PICK q \in S : q \in parents[s]
  BY <1>1
<1> QED BY <1>3, <1>4, ParentsAreCauses

LEMMA LoopFreeStep ==
  AnalysisTypeOK /\ ParentsKnown /\ ExecutedAreStored /\ LoopFreeIsAnswered
    /\ [AnalysisNext]_analysisVars
  => LoopFreeIsAnswered'
<1> SUFFICES ASSUME AnalysisTypeOK, ParentsKnown, ExecutedAreStored, LoopFreeIsAnswered,
                    [AnalysisNext]_analysisVars, NoCausalLoops'
             PROVE  phase' # "failed"
  BY DEF LoopFreeIsAnswered
<1>1. NoCausalLoops /\ phase # "failed"
  <2>1. rules' = rules
    BY StoredStep
  <2>2. NoCausalLoops
    BY <2>1 DEF NoCausalLoops, Causes
  <2> QED BY <2>2 DEF LoopFreeIsAnswered
<1>2. CASE Overflow
  <2>1. \A r : ~ Endless(r)
    BY <1>1, NothingEndless DEF AnalysisTypeOK
  <2> QED BY <1>2, <2>1 DEF Overflow, CanHash, HashEnds
<1> QED
  BY <1>1, <1>2 DEF AnalysisNext, Start, Simulate, CutOff, Analyse, Answer, analysisVars

\* Without causal loops among the stored rules no analysis overflows the stack:
\* hash codes and the written answer are finite.
THEOREM LoopFreeChecksAreAnswered == AnalysisSpec => []LoopFreeIsAnswered
<1>1. AnalysisInit => LoopFreeIsAnswered
  BY DEF AnalysisInit, LoopFreeIsAnswered
<1> QED
  BY <1>1, LoopFreeStep, StoredInit, StoredStep, AnalysisTypeInit, AnalysisTypeStep,
     CausedInit, ParentsKnownStep, PTL DEF AnalysisSpec

-----------------------------------------------------------------------------
(* The simulation that is analysed. *)

\* Up to the cut the analysis sees a run of RuleCascade, which PolicyCheck's net
\* implements, and after it nothing is executed any more: what is proved here
\* of the executed rules holds of those that the token game executes.
THEOREM AnalysisRunsTheCascade == AnalysisSpec => Spec
<1>1. AnalysisInit => Init
  BY DEF AnalysisInit
<1>2. ASSUME [AnalysisNext]_analysisVars
      PROVE  [Next]_<<rules, due, history>>
  <2>1. CASE Start
    BY <2>1 DEF Start, Next
  <2>2. CASE Simulate
    BY <2>2 DEF Simulate, Next
  <2>3. CASE UNCHANGED <<rules, due, history>>
    BY <2>3
  <2> QED
    BY <1>2, <2>1, <2>2, <2>3
    DEF AnalysisNext, CutOff, Analyse, Answer, Overflow, analysisVars
<1> QED BY <1>1, <1>2, PTL DEF AnalysisSpec, Spec
=============================================================================
