CONSTANTS
  NULL = NULL
  meta = meta
  kmem = kmem
  user_cache = user_cache
  letter = letter
SPECIFICATION Spec
INVARIANTS MemoryIsAccounted CallsAreBalanced ExecLoads TerminalShowsText DiskIsAccounted BootInOrder
 
CHECK_DEADLOCK FALSE
