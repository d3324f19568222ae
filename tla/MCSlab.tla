------------------------------- MODULE MCSlab -------------------------------
(* Seven pages in blocks of up to four: one block of each order at boot.   *)
EXTENDS Slab

CONSTANTS meta, kmem, user_cache

Caches == {meta, kmem, user_cache}
KmallocCaches == <<kmem>>
KmallocSize == [c \in {kmem} |-> 3]
=============================================================================
