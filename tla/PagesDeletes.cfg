SPECIFICATION Spec
CONSTANTS
  a1 = a1 Deny = Deny marketplace = marketplace
  None = None
  Blank = Blank
  Trigger <- MCTrigger
  Action = {a1}
  Effect = {Deny}
  Subject = {marketplace}
  Id = {1, 2}
  BigIds = {2}
  Table <- MCTable
  Draft <- MCDraft
  s1 = s1 s2 = s2
  Slots = {s1, s2}
  MaxHistory = 2
PROPERTIES
  DeletesShownRule
