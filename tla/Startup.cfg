SPECIFICATION Spec
CONSTANTS
  Setup <- MCSetup
  Lexed <- MCLexed
  Uint32 = 1048576
  Addresses <- MCAddresses
  Ints = 6
  Doubles = 6
  Strs = 32
  Document <- AtMostTwoDefects
INVARIANTS
  Prepared
  SameStorage
  AsConfigured
  Verdict
CHECK_DEADLOCK FALSE
