SPECIFICATION FairSpec
CONSTANTS
  t1 = t1
  t2 = t2
  shell = shell
  device_client = device_client
  shell_client = shell_client
  Tasks = {t1, t2, shell}
  Clients = {device_client, shell_client}
  ClientOf <- MCClientOf
  Calls <- MCCalls
  MaxCalls = 4
  REGISTER_PAGE_SIZE = 8
  TEST_SR = 3
  size = 13
  DefaultValues <- MCDefaultValues
  REGISTER_SR_CAL_SIZE = 2
  REGISTER_SR_TEST_NUM_SECTORS = 2
  log_register_writes = TRUE
  Sector = sector
  NotInteger = not_integer
INVARIANTS TypeOK ReceiversMatch
PROPERTIES ImplementsAtomicService CallsReturnWhileServing
CHECK_DEADLOCK FALSE
