----------------------------- MODULE VfsSystem -----------------------------
(***************************************************************************)
(* The processes of the machine making file system calls: boot (main/      *)
(* kmain.c), the calls of module Vfs, fork's and exit's share of the work, *)
(* and the shutdown of the file system by the idle process.                *)
(*                                                                         *)
(* A call runs to its end without another process running, except a read  *)
(* of a byte device, which sleeps in the driver: it is split where it      *)
(* sleeps.  k has besides the fields of module Vfs:                        *)
(*                                                                         *)
(*   k.alive        the processes that exist and have not exited;          *)
(*   k.reading[p]   NULL, or the descriptor, file and count of the device  *)
(*                  read process p sleeps in;                              *)
(*   k.idle         "up", or "halted" once the idle process has shut down. *)
(***************************************************************************)
EXTENDS Vfs

CONSTANTS Init1,       \* the init process
          Path,        \* the paths that calls are made with
          NodeTypes,   \* the kinds of device made with mknod
          Oflags,      \* the flags files are opened with
          Bytes,       \* byte counts of reads and writes
          BootNodes,   \* devices the idle process makes in /dev
          NoDriver,    \* a device name nobody registered a driver for
          MAX_POS,     \* bound on file positions
          MAX_LEAK     \* bound on the ghost leaked

VARIABLE k

vars == <<k>>

\* The file table of a process without open files.
NoFiles == [fd \in Fd |-> NULL]

\* vfs_init mounts the root; the idle and the init process get it as their
\* working directory; the idle process makes /dev and the devices in it.
Mounted ==
    [inode |-> ramfs_mount.inode, vnode |-> ramfs_mount.vnode, panic |-> NULL,
     lost |-> [i \in Ino |-> 0], leaked |-> [i \in Ino |-> 0],
     file |-> [f \in File |-> NULL], p_files |-> [p \in Proc |-> NoFiles],
     p_cwd |-> [p \in Proc |-> IF p = Init1 THEN Root ELSE NULL],
     alive |-> {Init1}, reading |-> [p \in Proc |-> NULL],
     idle |-> "up", astray |-> FALSE]

MakeNode(x, n) ==
    do_mknod(x, Init1, [abs |-> TRUE, comps |-> <<"dev", n>>], "CHR", n # NoDriver, TRUE).k

Boot ==
    FoldLeft(MakeNode,
             do_mkdir(vref(vref(Mounted, Root), Root), Init1,
                      [abs |-> TRUE, comps |-> <<"dev">>], TRUE).k,
             BootNodes)

Init == k = Boot

\* The machine is followed until an assertion fails or a look-up goes astray.
Followed == k.panic = NULL /\ ~ k.astray

Running(p) == Followed /\ p \in k.alive /\ k.reading[p] = NULL

\* The bounds of the model on what would grow without end.
Bounded(x) ==
    /\ \A f \in File : x.file[f] # NULL => x.file[f].f_pos <= MAX_POS
    /\ MapThenSumSet(LAMBDA i : x.leaked[i], Ino) <= MAX_LEAK

Step(x) == k' = x /\ Bounded(k')

-----------------------------------------------------------------------------
(* The system calls.                                                       *)

Open(p) == \E path \in Path, o \in Oflags, memory \in BOOLEAN :
    Running(p) /\ Step(do_open(k, p, path, o, memory))

Close(p) == \E fd \in 0..NFILES : Running(p) /\ Step(do_close(k, p, fd))

\* Calls on descriptors take fd = NFILES too: their checks let it through.
IsDevice(p, fd) ==
    fget(k, p, fd) # NULL /\ Mode(k, k.file[fget(k, p, fd)].f_vnode) = "CHR"

Read(p) == \E fd \in 0..NFILES, n \in Bytes :
    /\ Running(p)
    /\ IsDevice(p, fd) /\ n # 0 => ReadRefused(k, fget(k, p, fd))
    /\ Step(do_read(k, p, fd, n))

\* do_read of a byte device: fget, then asleep in the driver.
ReadDevice(p) == \E fd \in Fd, n \in Bytes \ {0} :
    \E f \in {fget(k, p, fd)} :
       /\ Running(p) /\ IsDevice(p, fd) /\ ~ ReadRefused(k, f)
       /\ Step([fref(k, f) EXCEPT !.reading[p] = [fd |-> fd, f |-> f, n |-> n]])

\* The driver returns at most n bytes, or an error: a short read.
ReadDeviceDone(p) == \E got \in 0..Max(Bytes) :
    \E r \in {k.reading[p]} :
       /\ Followed /\ r # NULL /\ got <= r.n
       /\ Step([ReadDone(k, p, r.fd, r.f, r.n, got) EXCEPT !.reading[p] = NULL])

Write(p) == \E fd \in 0..NFILES, n \in Bytes :
    Running(p) /\ Step(do_write(k, p, fd, n))

Dup(p)  == \E fd \in 0..NFILES : Running(p) /\ Step(do_dup(k, p, fd))
Dup2(p) == \E ofd, nfd \in 0..NFILES : Running(p) /\ Step(do_dup2(k, p, ofd, nfd))

\* A position in a directory counts entries: an offset that is no multiple
\* of an entry's size is outside the model.
Lseek(p) == \E fd \in 0..NFILES, off \in {-1, 0, 1}, w \in {"SET", "CUR", "END"} :
    Running(p) /\ Step(do_lseek(k, p, fd, off, w))

Getdent(p) == \E fd \in 0..NFILES : Running(p) /\ Step(do_getdent(k, p, fd))

Mknod(p) == \E path \in Path, memory \in BOOLEAN : \E t \in NodeTypes :
    Running(p) /\ Step(do_mknod(k, p, path, t, Base(path) # NoDriver, memory).k)

Mkdir(p) == \E path \in Path, memory \in BOOLEAN :
    Running(p) /\ Step(do_mkdir(k, p, path, memory).k)

Rmdir(p)  == \E path \in Path : Running(p) /\ Step(do_rmdir(k, p, path).k)
Unlink(p) == \E path \in Path : Running(p) /\ Step(do_unlink(k, p, path).k)
Chdir(p)  == \E path \in Path : Running(p) /\ Step(do_chdir(k, p, path).k)
Stat(p)   == \E path \in Path : Running(p) /\ Step(do_stat(k, p, path).k)

Link(p)   == \E from, to \in Path : Running(p) /\ Step(do_link(k, p, from, to).k)
Rename(p) == \E from, to \in Path : Running(p) /\ Step(do_rename(k, p, from, to).k)

-----------------------------------------------------------------------------
(* Processes.                                                              *)

\* The child's descriptors are references to the parent's files.
Share(x, p) ==
    FoldLeft(LAMBDA y, fd : IF y.p_files[p][fd] = NULL THEN y ELSE fref(y, y.p_files[p][fd]),
             x, [n \in 1..NFILES |-> n - 1])

do_fork_files(x, p, c) ==
    [vref(Share(x, p), x.p_cwd[p]) EXCEPT !.p_files[c] = x.p_files[p],
                                          !.p_cwd[c] = x.p_cwd[p],
                                          !.alive = @ \cup {c}]

Fork(p) == \E c \in Proc \ k.alive : Running(p) /\ Step(do_fork_files(k, p, c))

CloseAll(x, p, fds) ==
    FoldLeft(LAMBDA y, fd : IF fd \in fds THEN do_close(y, p, fd) ELSE y,
             x, [n \in 1..NFILES |-> n - 1])

\* The working directory goes first, then every open descriptor.
proc_cleanup_files(x, p) ==
    [CloseAll(vput(x, x.p_cwd[p]), p, Fd) EXCEPT !.alive = @ \ {p}, !.p_cwd[p] = NULL]

\* init outlives the other processes (it has no children when it exits).
Exit(p) ==
    /\ Running(p)
    /\ p = Init1 => k.alive = {Init1}
    /\ Step(proc_cleanup_files(k, p))

\* proc_kill closes do_close(fd) of an fd that is not initialised, in the
\* process that called it: any of its open descriptors may be closed.
ProcKillFiles(p) == \E fds \in SUBSET Fd :
    Running(p) /\ Step(CloseAll(k, p, fds))

\* After init was reaped: the idle process drops its working directory and
\* unmounts the root, which asserts that nothing is in use.
vfs_shutdown(x) ==
    IF vfs_is_in_use(x) THEN Panic(x, "in use")
    ELSE With([ramfs_umount(x) EXCEPT !.idle = "halted"], LAMBDA u :
           KASSERT(u, vnode_inuse(u) = 0, "inuse"))

Shutdown ==
    /\ Followed /\ k.alive = {} /\ k.idle = "up"
    /\ Step(vfs_shutdown(vput(k, Root)))

Call(p) ==
    \/ Open(p) \/ Close(p) \/ Read(p) \/ ReadDevice(p) \/ ReadDeviceDone(p)
    \/ Write(p) \/ Dup(p) \/ Dup2(p) \/ Lseek(p) \/ Getdent(p) \/ Mknod(p)
    \/ Mkdir(p) \/ Rmdir(p) \/ Unlink(p) \/ Link(p) \/ Rename(p) \/ Chdir(p)
    \/ Stat(p) \/ Fork(p) \/ Exit(p) \/ ProcKillFiles(p)

Next == Shutdown \/ \E p \in Proc : Call(p)

Spec == Init /\ [][Next]_vars
-----------------------------------------------------------------------------
(* What the calls promise, until an assertion stops the machine.           *)

Up == Followed /\ k.idle = "up"

\* The directory entries that name inode i.
Entries(i) == {<<d, s>> \in Ino \X Slot :
    /\ k.inode[d] # NULL /\ IsDir(k, d) /\ s \in Named(k, d)
    /\ k.inode[d].rf_mem[s].rd_ino = i}

\* The type of the kernel's state.
VfsTypeOK ==
    /\ DOMAIN k.inode = Ino /\ DOMAIN k.vnode = Ino
    /\ \A i \in Ino : /\ k.vnode[i].vn_refcount \in Nat /\ k.vnode[i].vn_len \in Nat
                     /\ k.inode[i] # NULL => k.inode[i].rf_mode \in Type
    /\ k.alive \subseteq Proc
    /\ \A p \in Proc : k.p_files[p] \in [Fd -> File \cup {NULL}]

\* A file_t has as many references as descriptors point to it and device
\* reads sleep on it, over every dup, fork, exit and failed open; so it is
\* freed exactly when the last of them goes ("be sure you do not leak file
\* refcounts", vfs_syscall.c).
FileRefs ==
    Up => \A f \in File :
        LET uses == Cardinality({<<p, fd>> \in Proc \X Fd : k.p_files[p][fd] = f})
                  + Cardinality({p \in Proc : k.reading[p] # NULL /\ k.reading[p].f = f})
        IN IF k.file[f] = NULL THEN uses = 0 ELSE k.file[f].f_refcount = uses

\* A vnode has as many references as open files, working directories and the
\* mount hold, but for the ones do_mknod forgets: no error path of a call
\* keeps or drops one too many.
VnodeRefs ==
    Up => \A v \in Ino : k.vnode[v].vn_refcount =
        Cardinality({f \in File : k.file[f] # NULL /\ k.file[f].f_vnode = v})
        + Cardinality({p \in k.alive : k.p_cwd[p] = v})
        + (IF v = Root THEN 2 ELSE 0) + k.leaked[v]

\* The link count of an inode is the number of names it has in directories
\* that exist, one for its vnode in core, and one for the mount of the root;
\* so an inode is freed when its last name and its last user are gone.
LinkCounts ==
    Up => \A i \in Ino : k.inode[i] # NULL =>
        k.inode[i].rf_linkcount = Cardinality(Entries(i)) + k.lost[i]
            + (IF k.vnode[i].vn_refcount > 0 THEN 1 ELSE 0)
            + (IF i = Root THEN 1 ELSE 0)

\* A name in a directory that exists names an inode that exists, whatever
\* other links and open files of it went away.
NamesResolve == Up => \A i \in Ino : k.inode[i] = NULL => Entries(i) = {}

\* Two entries of one directory never have the same name: the calls look a
\* name up before they create it.
NamesAreUnique ==
    Up => \A d \in Ino : k.inode[d] # NULL /\ IsDir(k, d) =>
        \A s, t \in Slot :
            /\ k.inode[d].rf_mem[s].rd_name # ""
            /\ k.inode[d].rf_mem[s].rd_name = k.inode[d].rf_mem[t].rd_name
            => s = t

\* The sizes that are kept twice agree: a file's length in its vnode and in
\* its inode, a directory's length and the entries in use.
SizesAgree ==
    Up => \A i \in Ino : k.inode[i] # NULL =>
        IF IsDir(k, i)
          THEN k.inode[i].rf_size = Cardinality(Slot \ FreeSlots(k, i))
          ELSE k.vnode[i].vn_refcount > 0 => k.vnode[i].vn_len = k.inode[i].rf_size

\* The assertions a sequence of calls can fail: the read of 0 bytes of a
\* closed descriptor, dup2 onto NFILES, a write past the page, a look-up
\* that goes astray, and the leak found at shutdown.  Every other assertion
\* of file.c, vnode.c, ramfs.c and vfs_syscall.c holds.
OnlyKnownPanics ==
    \/ k.panic \in {NULL, "fput NULL", "p_cwd overwritten",
                    "memcpy past the page", "in use"}
    \/ k.astray

\* vfs_shutdown finds a vnode in use only when do_mknod was asked for a name
\* that existed.
ShutdownIsClean == k.panic = "in use" => \E i \in Ino : k.leaked[i] > 0

\* The reference counts of files and vnodes are exact.
RefsAreExact == VfsTypeOK /\ FileRefs /\ VnodeRefs

\* The link counts and the sizes of inodes are exact.
LinksAreExact == LinkCounts /\ SizesAgree

\* Names resolve, each to one inode.
NamesAreSound == NamesResolve /\ NamesAreUnique

\* The machine stops only where the calls are known to be unchecked, and the
\* file system is unused when it is shut down.
StopsAsKnown == OnlyKnownPanics /\ ShutdownIsClean
=============================================================================
