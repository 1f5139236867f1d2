CONSTANTS
  RouteIds = {r1, r2}
  KeyIds = {k1}
  Refs = {a, b}
  Models = {m1, m2}
  None = None
  Requests = {q2}
  Asks <- JustAnonymous
  RouteInputs <- Routes
  KeyInputs <- Keys
  Configs = {"c1", "c2", "bad"}
  ConfigInputs <- Sent
  Buildable = {"c1", "c2"}
  Histories <- Stores
  StaticRoutes <- Declared
  StaticRefs = {a}
  MaxTime = 1
  MaxChanges = 0
  Faults = FALSE
  r1 = r1
  r2 = r2
  k1 = k1
  a = a
  b = b
  m1 = m1
  m2 = m2
  q1 = q1
  q2 = q2
SPECIFICATION Spec
INVARIANT
  StaticRouteServes
