SPECIFICATION Spec
CONSTANTS PAGE = 1024
  START = 805437440
  END = 805568512
  DIR = 2049
  TABLE = 1024
  PCB = 14
  NODE = 46
  NAME = 64
  STACK_TABLES = 2
  InitialFiles = 2
  MaxForks = 18
  MaxOpens = 18
  MaxCloses = 1
  FileTimes = {0, 15}
CHECK_DEADLOCK FALSE
INVARIANTS TypeOK BlocksDisjoint HolesClearOfBlocks NodesClearInLead
PROPERTY RequestsServed
