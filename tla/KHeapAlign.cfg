SPECIFICATION Spec
CONSTANTS PAGE = 1024
  START = 805437440
  END = 805568512
  DIR = 2049
  TABLE = 1024
  PCB = 14
  NODE = 46
  NAME = 64
  STACK_TABLES = 2
  InitialFiles = 2
  MaxForks = 20
  MaxOpens = 0
  MaxCloses = 0
  FileTimes = {}
CHECK_DEADLOCK FALSE
PROPERTY HoleFitsAligned
