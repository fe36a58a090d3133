SPECIFICATION Spec
CONSTANTS
  REGISTER_PAGE_SIZE = 8
  TEST_SR = 3
  size = 13
  DefaultValues <- MCDefaultValues
  REGISTER_SR_CAL_SIZE = 2
  REGISTER_SR_TEST_NUM_SECTORS = 2
  log_register_writes = TRUE
  Sector = sector
  NotInteger = not_integer
  Calls <- MCCalls
INVARIANTS TypeOK DerivedStateMatches ReadBack ReadsChangeNothing UnusedNeverWritten
PROPERTIES PageIsolation
