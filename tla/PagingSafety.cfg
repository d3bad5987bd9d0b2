SPECIFICATION Spec
CONSTANTS FRAMES = 13
  PAGES = 4
  ENTRIES = 5
  KERNEL = 2
  HEAP = 2
  HEAP_PAGES = 2
  STACK <- StackPages
  DATA = {0, 1}
  MaxDirs = 4
INVARIANTS TypeOK FramesPrivate FramesMarked KernelMapped IdentityMapped HeapContiguous
PROPERTIES StacksIsolated ChildStackIsCopy
CHECK_DEADLOCK FALSE
