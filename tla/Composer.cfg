SPECIFICATION Spec
CONSTANTS
  t1 = t1 t2 = t2 a1 = a1 a2 = a2
  Deny = Deny marketplace = marketplace
  Trigger = {t1, t2}
  Action = {a1, a2}
  Effect = {Deny}
  Subject = {marketplace}
  Id = {1}
  None = None
  Blank = Blank
  Table <- MCTable
  MaxHistory = 7
  MaxSaved = 1
INVARIANTS
  TypeOK
PROPERTIES
  SavedAsShownUnlessOvertaken
  SavedFits
  ReloadKeepsPolicy
