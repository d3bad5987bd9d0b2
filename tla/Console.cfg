SPECIFICATION Spec
CONSTANTS MONITOR_WIDTH = 4
  MONITOR_HEIGTH = 2
  Glyphs <- DigitGlyphs
  Formats <- TestFormats
  BITS = 5
  BUF = 3
  MaxCalls = 2
CHECK_DEADLOCK FALSE
INVARIANTS TypeOK NumberReads
PROPERTY ImplementsTeletype
