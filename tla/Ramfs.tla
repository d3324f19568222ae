------------------------------- MODULE Ramfs -------------------------------
(***************************************************************************)
(* The in-memory file system (fs/ramfs/ramfs.c) and the table of in-core   *)
(* vnodes above it (fs/vnode.c), as operators on the kernel's state k:     *)
(*                                                                         *)
(*   k.inode[i]   rfs_inodes[i]: NULL, or the ramfs_inode of number i;     *)
(*   k.vnode[i]   the vnode of inode i: its reference count (0: it is not  *)
(*                on vnode_inuse_list) and its cached length vn_len;       *)
(*   k.panic      NULL, or which assertion stopped the machine;            *)
(*   k.lost[i]    links of inode i held by entries of directories that     *)
(*                were freed with the entries still in them (a ghost);     *)
(*   k.astray     a look-up followed an entry that holds no link to what   *)
(*                it names: an empty slot, or ".." of a directory that the *)
(*                directory above no longer has (a ghost).                 *)
(*                                                                         *)
(* Sizes are in bytes for a file and in directory entries for a directory. *)
(* The contents of a data page are left out: no property reads them.  No   *)
(* operation of ramfs blocks, so VN_BUSY is never seen by a second thread  *)
(* here.                                                                   *)
(***************************************************************************)
EXTENDS Integers, FiniteSets, Sequences, SequencesExt, FiniteSetsExt

CONSTANTS RAMFS_MAX_FILES,   \* inodes of the file system
          RAMFS_MAX_DIRENT,  \* entries of a directory page
          PAGE_SIZE,         \* bytes of a data page
          NULL

ASSUME RamfsAssumption ==
    /\ RAMFS_MAX_FILES \in Nat \ {0}
    /\ RAMFS_MAX_DIRENT \in Nat /\ RAMFS_MAX_DIRENT >= 2
    /\ PAGE_SIZE \in Nat \ {0}

Ino  == 0 .. RAMFS_MAX_FILES - 1
Slot == 1 .. RAMFS_MAX_DIRENT
Root == 0

Type   == {"DATA", "DIR", "CHR", "BLK"}
NoEnt  == [rd_name |-> "", rd_ino |-> Root]
NoDir  == [s \in Slot |-> NoEnt]

\* '.' and '..' as they are written into a fresh directory page.
Dots(self, parent) ==
    [NoDir EXCEPT ![1] = [rd_name |-> ".", rd_ino |-> self],
                  ![2] = [rd_name |-> "..", rd_ino |-> parent]]

Mode(k, v)  == k.inode[v].rf_mode
IsDir(k, v) == Mode(k, v) = "DIR"

\* The first assertion to fail stops the machine.
Panic(k, why) == [k EXCEPT !.panic = IF @ = NULL THEN why ELSE @]
KASSERT(k, cond, why) == IF cond THEN k ELSE Panic(k, why)

Ok(k)        == [k |-> k, err |-> "OK", vn |-> NULL]
Found(k, v)  == [k |-> k, err |-> "OK", vn |-> v]
Fail(k, err) == [k |-> k, err |-> err, vn |-> NULL]

\* What a call goes on with after the call that returned r: at once, or only
\* if r is no error.
With(r, F(_)) == F(r)
Then(r, F(_)) == IF r.err # "OK" THEN r ELSE F(r)

-----------------------------------------------------------------------------
(* Inodes and vnodes.                                                      *)

\* The lowest free slot of rfs_inodes; memory is FALSE when kmalloc or
\* page_alloc fails.  A new inode has one link.
ramfs_alloc_inode(k, type, dev, memory) ==
    With({i \in Ino : k.inode[i] = NULL}, LAMBDA free :
      IF free = {} \/ ~memory THEN Fail(k, "ENOSPC")
      ELSE With(Min(free), LAMBDA i :
             Found([k EXCEPT !.inode[i] =
                [rf_mode |-> type, rf_size |-> 0, rf_linkcount |-> 1,
                 rf_dev |-> dev, rf_mem |-> NoDir]], i)))

\* The vnode in core counts as one more link of its inode.
ramfs_read_vnode(k, i) ==
    [k EXCEPT !.inode[i].rf_linkcount = @ + 1,
              !.vnode[i] = [vn_refcount |-> 1,
                            vn_len |-> k.inode[i].rf_size]]

ramfs_query_vnode(k, v) == k.inode[v].rf_linkcount > 1

Named(k, d) == {s \in Slot : k.inode[d].rf_mem[s].rd_name \notin {"", ".", ".."}}

(* Mutant: a file goes while one name is left.                             *)
ramfs_delete_early(k, v) ==
    IF k.inode[v].rf_linkcount > (IF IsDir(k, v) THEN 1 ELSE 2)
      THEN [k EXCEPT !.inode[v].rf_linkcount = @ - 1] ELSE [k EXCEPT !.inode[v] = NULL]

\* Dropping the in-core link; at zero links the inode and its page go.  The
\* entries still in a directory's page go with it: their links are lost.
ramfs_delete_vnode(k, v) ==
    IF k.inode[v].rf_linkcount > 1
      THEN [k EXCEPT !.inode[v].rf_linkcount = @ - 1]
      ELSE [k EXCEPT !.inode[v] = NULL,
                     !.lost = [i \in Ino |->
                        IF i = v THEN 0
                        ELSE @[i] + Cardinality({s \in Named(k, v) :
                                 k.inode[v].rf_mem[s].rd_ino = i})]]

vref(k, v) == KASSERT([k EXCEPT !.vnode[v].vn_refcount = @ + 1],
                      k.vnode[v].vn_refcount > 0, "vref")

\* The vnode in core, or a new one filled in by read_vnode, whose assertion
\* is that inode i exists.
vget(k, i) ==
    IF k.vnode[i].vn_refcount > 0 THEN Found(vref(k, i), i)
    ELSE IF k.inode[i] = NULL     THEN Fail(Panic(k, "read_vnode"), "PANIC")
    ELSE Found(ramfs_read_vnode(k, i), i)

\* The last reference frees the vnode.  (vn_nrespages is 0 throughout:
\* ramfs has no fillpage, so no page of a ramfs vnode is ever cached.)
vput(k, v) ==
    IF k.vnode[v].vn_refcount = 0 THEN Panic(k, "vput")
    ELSE IF k.vnode[v].vn_refcount > 1
           THEN [k EXCEPT !.vnode[v].vn_refcount = @ - 1]
           ELSE ramfs_delete_vnode(
                  [k EXCEPT !.vnode[v] = [vn_refcount |-> 0, vn_len |-> 0]], v)

-----------------------------------------------------------------------------
(* Directories.                                                            *)

Matches(k, d, name) == {s \in Slot : k.inode[d].rf_mem[s].rd_name = name}
FreeSlots(k, d)     == Matches(k, d, "")

Astray(k, d, name, i) ==
    \/ name = ""
    \/ /\ name = ".." /\ d # Root
       /\ \/ k.inode[i] = NULL
          \/ ~ \E s \in Named(k, i) : k.inode[i].rf_mem[s].rd_ino = d

ramfs_lookup(k, d, name) ==
    IF Matches(k, d, name) = {} THEN Fail(k, "ENOENT")
    ELSE With(k.inode[d].rf_mem[Min(Matches(k, d, name))].rd_ino, LAMBDA i :
           vget([k EXCEPT !.astray = @ \/ Astray(k, d, name, i)], i))

\* Writing an entry into the first empty slot, and the directory's size.
SetEntry(k, d, name, i) ==
    [k EXCEPT !.inode[d].rf_mem[Min(FreeSlots(k, d))] =
                  [rd_name |-> name, rd_ino |-> i],
              !.inode[d].rf_size = @ + 1]

\* Only the name is cleared: the slot keeps its inode number.
ClearEntry(k, d, name) ==
    [k EXCEPT !.inode[d].rf_mem[Min(Matches(k, d, name))].rd_name = "",
              !.inode[d].rf_size = @ - 1]

\* What ramfs_create, ramfs_mknod and ramfs_mkdir share: the name must be
\* new (an assertion), the directory and the inode table must have room.
NewEntry(k, d, name, type, dev, memory) ==
    With(KASSERT(k, Matches(k, d, name) = {}, "exists"), LAMBDA a :
      IF FreeSlots(a, d) = {} THEN Fail(a, "ENOSPC")
      ELSE Then(ramfs_alloc_inode(a, type, dev, memory), LAMBDA n :
             Found(SetEntry(n.k, d, name, n.vn), n.vn)))

ramfs_create(k, d, name, memory) ==
    Then(NewEntry(k, d, name, "DATA", FALSE, memory), LAMBDA n : vget(n.k, n.vn))

ramfs_mknod(k, d, name, type, dev, memory) ==
    NewEntry(k, d, name, type, dev, memory)

ramfs_mkdir(k, d, name, memory) ==
    Then(NewEntry(k, d, name, "DIR", FALSE, memory), LAMBDA n :
      Ok([n.k EXCEPT !.inode[n.vn].rf_mem = Dots(n.vn, d), !.inode[n.vn].rf_size = 2]))

(* Mutant: the new name is not counted.                                    *)
ramfs_link_uncounted(k, v, d, name) ==
    With(KASSERT(k, Matches(k, d, name) = {}, "exists"), LAMBDA a :
      IF FreeSlots(a, d) = {} THEN Fail(a, "ENOSPC") ELSE Ok(SetEntry(a, d, name, v)))

ramfs_link(k, v, d, name) ==
    With(KASSERT(k, Matches(k, d, name) = {}, "exists"), LAMBDA a :
      IF FreeSlots(a, d) = {} THEN Fail(a, "ENOSPC")
      ELSE Ok([SetEntry(a, d, name, v) EXCEPT !.inode[v].rf_linkcount = @ + 1]))

\* The lookup's reference is dropped last, after the link.
Unlinked(k, d, name, v) ==
    Ok(vput([ClearEntry(k, d, name) EXCEPT !.inode[v].rf_linkcount = @ - 1], v))

ramfs_unlink(k, d, name) ==
    With(ramfs_lookup(k, d, name), LAMBDA l :
      IF l.err # "OK" THEN Fail(Panic(l.k, "unlink"), "PANIC")
      ELSE Unlinked(KASSERT(l.k, ~ IsDir(l.k, l.vn), "unlink"), d, name, l.vn))

ramfs_rmdir(k, d, name) ==
    Then(ramfs_lookup(KASSERT(k, name \notin {".", ".."}, "rmdir"), d, name), LAMBDA l :
      IF ~ IsDir(l.k, l.vn)          THEN Fail(vput(l.k, l.vn), "ENOTDIR")
      ELSE IF Named(l.k, l.vn) # {}  THEN Fail(vput(l.k, l.vn), "ENOTEMPTY")
      ELSE Unlinked(l.k, d, name, l.vn))

-----------------------------------------------------------------------------
(* Data.                                                                   *)

\* The number of bytes a read returns.
ramfs_read(k, v, offset, count) ==
    LET left == IF k.inode[v].rf_size > offset
                  THEN k.inode[v].rf_size - offset ELSE 0
    IN Min({count, left})

\* The bytes written and the new length, which the vnode and the inode both
\* record.  Past the page the count is negative and memcpy runs away.
ramfs_write(k, v, offset, count) ==
    LET ret == Min({count, PAGE_SIZE - offset})
        len == Max({k.vnode[v].vn_len, offset + ret})
        a   == KASSERT(k, k.vnode[v].vn_len = k.inode[v].rf_size, "write")
    IN [k |-> IF offset > PAGE_SIZE THEN Panic(k, "memcpy past the page")
              ELSE [a EXCEPT !.vnode[v].vn_len = len, !.inode[v].rf_size = len],
        ret |-> IF offset > PAGE_SIZE THEN 0 ELSE ret]

\* The entries to step over to pass the next one in use: 0 at the end.
ramfs_readdir(k, d, offset) ==
    LET used == {s \in Slot : s > offset /\ k.inode[d].rf_mem[s].rd_name # ""}
    IN IF used = {} THEN 0 ELSE Min(used) - offset

-----------------------------------------------------------------------------
(* Mounting and unmounting.                                                *)

\* The root directory is inode 0; the mount keeps a reference to its vnode.
ramfs_mount ==
    [inode |-> [i \in Ino |-> IF i # Root THEN NULL ELSE
        [rf_mode |-> "DIR", rf_size |-> 2, rf_linkcount |-> 2,
         rf_dev |-> FALSE, rf_mem |-> Dots(Root, Root)]],
     vnode |-> [i \in Ino |-> IF i = Root
        THEN [vn_refcount |-> 1, vn_len |-> 2]
        ELSE [vn_refcount |-> 0, vn_len |-> 0]]]

ramfs_umount(k) == [vput(k, Root) EXCEPT !.inode = [i \in Ino |-> NULL]]

\* A vnode in use besides the mount's reference to the root.
vfs_is_in_use(k) ==
    \E v \in Ino : k.vnode[v].vn_refcount > (IF v = Root THEN 1 ELSE 0)

vnode_inuse(k) == Cardinality({v \in Ino : k.vnode[v].vn_refcount > 0})
=============================================================================
