SPECIFICATION FairSpec
CONSTANTS
  REGISTER_PAGE_SIZE = 8
  TEST_SR = 3
  size = 13
  DefaultValues <- MCDefaultValues
  REGISTER_SR_CAL_SIZE = 2
  REGISTER_SR_TEST_NUM_SECTORS = 2
  log_register_writes = TRUE
  Sector = sector
  NotInteger = not_integer
  Lines <- MCLines
  PackedIntegers <- MCPackedIntegers
  MaxLength = 16
  TestTransactions <- MCTestTransactions
  MaxSessions = 2
  MaxCommands = 2
  MaxShutdowns = 2
  Configurations <- MCConfigurations
  Endpoints = {"tcp://127.0.0.1:5555"}
  Registers = {"CONFIG1", "SR_CAL"}
  Values = {"hello", "other"}
  MaxStarts = 2
  MaxFd = 2
INVARIANTS TypeOK AnswersAreAwaited OnlyStopLosesRequests ShellSurvives
INVARIANTS  ReportedClients
INVARIANT ServerTaskLives
PROPERTIES CommandsReturn SignalsStopTestLoop
CHECK_DEADLOCK FALSE
