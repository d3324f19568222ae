CONSTANTS
  NULL = NULL
  Proc = {p1, p2}
  Init1 = p1
  NFILES = 2
  MAX_FILE = 2
  RAMFS_MAX_FILES = 5
  RAMFS_MAX_DIRENT = 4
  PAGE_SIZE = 1
  MAX_POS = 1
  MAX_LEAK = 1
  NoDriver = "b"
  Path <- MCPath
  BootNodes <- MCBoot
  NodeTypes = {"CHR"}
  Bytes <- MCBytes
  Oflags <- MCOflags
SPECIFICATION Spec
CHECK_DEADLOCK FALSE
INVARIANTS RefsAreExact LinksAreExact  
CONSTRAINT InUse
