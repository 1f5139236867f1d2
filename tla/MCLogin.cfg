\* Overlapping logins of every kind across a reload.
CONSTANTS
  None = None
  codex = codex
  gemini = gemini
  device = device
  p1 = p1
  Logins = {l1, l2}
  Clis = {codex, gemini, device}
  Flow <- MCFlow
  Ports = {p1}
  CallbackPort <- MCPort
  RedirectPort <- MCPort
  MaxApps = 3
SPECIFICATION Spec
CHECK_DEADLOCK FALSE
INVARIANTS TypeOK StatusIsHonest PortsComeBack OwnCode KnownToItsAppAndLater
PROPERTIES EndsOrAtVendor
