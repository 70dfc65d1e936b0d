SPECIFICATION Spec
CONSTANTS
  r1 = r1
  r2 = r2
  r3 = r3
  sums = sums
  archive = archive
  other = other
  none = none
  Runs <- MCRuns
  Names <- MCNames
  Stamped <- MCStamped
  Extra = other
  None = none
  Ids <- MCIds
  MaxVersion = 2
  Budgets <- MCBudgets
SYMMETRY MCSymmetry
INVARIANTS
  ReleasesAreWhole
PROPERTIES
  PublishedAsVerified
  NothingOverwritten
