SPECIFICATION FairSpec
CONSTANTS Lines = {0, 1}
  MaxBytes = 1
  EarlyKeys = TRUE
PROPERTY KeyboardReady
