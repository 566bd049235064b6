SPECIFICATION Spec
CONSTANTS
  c1 = c1 c2 = c2
  r1 = r1 r2 = r2 r3 = r3
  t1 = t1 t2 = t2 t3 = t3 a1 = a1 a2 = a2
  lamp = lamp tv = tv door = door
  Rule = {r1, r2, r3}
  Trigger = {t1, t2, t3}
  Action = {a1, a2}
  NoRule = NoRule NoTrigger = NoTrigger NoNet = NoNet NoTransition = NoTransition
  TrigOf <- MCTrigOf
  ActOf <- MCActOf
  ServiceOf <- MCServiceOf
  EntitiesOf <- MCEntitiesOf
  TextOnly = {t1}
  OwlTriggers <- MCTriggers
  Check = {c1, c2}
  Asked = {r2}
  RuleSets <- MCRuleSets
SYMMETRY Symmetry
CHECK_DEADLOCK FALSE
INVARIANTS
  TypeOK
  ExecutedWereCaused
  AloneIsComplete
