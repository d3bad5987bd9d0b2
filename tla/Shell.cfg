SPECIFICATION ShellSpec
CONSTANTS MONITOR_WIDTH = 10
  MONITOR_HEIGTH = 2
  Glyphs <- ShellGlyphs
  SIZE = 8
  Prompt <- ShellPrompt
  Lines <- ShellLines
  Outputs <- ShellOutputs
  MaxLines = 3
CHECK_DEADLOCK FALSE
INVARIANTS ShellTypeOK CommandAsTyped ShownIsTyped
