SPECIFICATION Spec
CONSTANTS
  Others = {o1, o2}
  Messages <- MCMessages
  GatewayOperation <- MCGatewayOperation
  Interval = 1
  Budgets <- MCBudgets
  Keys = {k1, k2}
  Headers = {h1, h2}
  Profiles = {"general"}
  Actions = {1, 2}
  Modes = {"private", "direct"}
  Files <- MCFiles
  Hangups = {s1, s2}
  Minute = 2
  MaxEntries = 2
  MaxRules = 2
  None = None
INVARIANTS SlotsAndRate RevocationHolds InclusionIsReal PostedAsReviewed
PROPERTIES EffectsReviewed CallsEnd
CHECK_DEADLOCK FALSE
