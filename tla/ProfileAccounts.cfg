SPECIFICATION Spec
CONSTANTS
  Chains = {1, 2}
  MaxEntries = 2
  GoodKeys = {"a", "b"}
  MaxSigned = 2
  MaxReplaced = 1
  Offered <- MCOffered
  Accounts <- MCAccounts
  SdkMade <- MCSdkMade
  Requests <- MCRequests
INVARIANTS DerivedEverywhere RestrictedNeverEscapes
PROPERTY AuthorityHolds
CHECK_DEADLOCK FALSE
