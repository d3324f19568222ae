CONSTANTS
  NULL = NULL
  meta = meta
  kmem = kmem
  user_cache = user_cache
  PAGE_NSIZES = 3
  NPAGES = 7
  Cache <- Caches
  Meta = meta
  KmallocCache <- KmallocCaches
  KMALLOC_SIZE <- KmallocSize
  CreateSizes = {9}
  PAGE_SIZE = 10
  SizeofSlab = 2
  SizeofBufctl = 1
  SizeofRedzone = 1
  SizeofPtr = 1
  SizeofAllocator = 1
  SLAB_MAX_ORDER = 2
  PageRequests = {1, 3}
  KmallocSizes = {2}
SPECIFICATION SlabSpec
INVARIANT PagesAreAccounted
CHECK_DEADLOCK FALSE
