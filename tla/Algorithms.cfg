SPECIFICATION Spec
CONSTANTS
  Sample = {0, 1, 85, 128, 170, 255}
  MaxLen = 3
  MaxNumber = 65535
  Escape = 126
INVARIANTS
  ComputesRemainder
  KeyCarriesNonce
  HeaderReadBack
  LevelsExact
CHECK_DEADLOCK FALSE
