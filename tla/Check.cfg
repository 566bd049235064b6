SPECIFICATION Spec
CONSTANTS
  r1 = r1 r2 = r2 r3 = r3 r4 = r4
  t1 = t1 t2 = t2 t3 = t3 a1 = a1 a2 = a2 a3 = a3 a4 = a4
  lamp = lamp tv = tv
  Rule = {r1, r2, r3, r4}
  Trigger = {t1, t2, t3}
  Action = {a1, a2, a3, a4}
  NoRule = NoRule
  NoTrigger = NoTrigger
  TrigOf <- MCTrigOf
  ActOf <- MCActOf
  ServiceOf <- MCServiceOf
  EntitiesOf <- MCEntitiesOf
  TextOnly = {t1}
  OwlTriggers <- MCOwlTriggers
  MaxFired = 5
INVARIANTS
  TypeOK
  FiringConsumes
  NoRuleForgotten
  CompleteAtDeadlock
  CausalLog
  UniqueRootReachesChecked
  FailureCauses
PROPERTIES
  NothingRobbed
  ImplementsCascade
  PatientCheckIsAnswered
  RequestEnds
  ThreadEnds
  InnerLoopEnds
