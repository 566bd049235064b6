SPECIFICATION AnalysisSpec
CONSTANTS
  r1 = r1 r2 = r2 r3 = r3 r4 = r4 r5 = r5
  t1 = t1 t2 = t2 t3 = t3 a1 = a1 a2 = a2 a3 = a3
  lamp = lamp tv = tv door = door light = light alarm = alarm
  Rule = {r1, r2, r3, r4, r5}
  Trigger = {t1, t2, t3}
  Action = {a1, a2, a3}
  NoRule = NoRule
  NoTrigger = NoTrigger
  TrigOf <- MCTrigOf
  ActOf <- MCActOf
  ServiceOf <- MCServiceOf
  EntitiesOf <- MCEntitiesOf
  TextOnly = {t1}
  OwlTriggers <- MCOwlTriggers
  MLClass = {light, alarm}
  MLClassesOf <- MCClassesOf
  MaxAnalysed = 5
  MaxRecorded = 7
CHECK_DEADLOCK FALSE
INVARIANTS
  AnalysisTypeOK
  PairsReported
  EffectsHaveParents
  LoopFreeIsAnswered
