SPECIFICATION Spec
CONSTANTS
  th1 = th1 th2 = th2
  o1 = o1 o2 = o2
  Thread = {th1, th2}
  Reasoner = {o1, o2}
  User = {demo, ann}
  Shipped = {demo}
  demo = demo ann = ann
  NoReasoner = NoReasoner
  NoUser = NoUser
  Free = Free
  Lost = Lost
  MaxRows = 2
INVARIANTS
  PoolServesNext
