SPECIFICATION FairSpec
CONSTANTS Lines = {0, 1, 6, 8}
  MaxBytes = 2
  EarlyKeys = FALSE
INVARIANTS TypeOK NothingInService
PROPERTIES RequestsAccepted KeyboardReady
