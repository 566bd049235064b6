SPECIFICATION Spec
CONSTANTS
  s1 = s1 s2 = s2
  on = on off = off
  None = None Garbled = Garbled
  Session = {s1, s2}
  Command = {on, off}
  TypeOf <- MCTypeOf
  EntityOf <- MCEntityOf
  DeviceOf <- MCDeviceOf
  Rules <- MCRules
  Leftover <- MCLeftover
  MaxTime = 1
SYMMETRY Symmetry
CHECK_DEADLOCK FALSE
INVARIANTS
  TypeOK
  DownloadsOwnAlone
  PublishesOwn
