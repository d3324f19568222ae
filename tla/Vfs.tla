-------------------------------- MODULE Vfs --------------------------------
(***************************************************************************)
(* Path resolution (fs/namev.c), open files (fs/file.c, fs/open.c) and the *)
(* file system calls (fs/vfs_syscall.c) above ramfs, as operators on the   *)
(* kernel's state k, which has besides the fields of module Ramfs:         *)
(*                                                                         *)
(*   k.file[f]       a file_t of the slab cache, NULL when free;           *)
(*   k.p_files[p]    the descriptor table of process p;                    *)
(*   k.p_cwd[p]      the vnode of its working directory;                   *)
(*   k.leaked[i]     references to vnode i that no pointer holds any more  *)
(*                   (a ghost: the child that do_mknod looks up and        *)
(*                   forgets when the name exists).                        *)
(*                                                                         *)
(* A path is a record: abs (it begins with '/') and comps, its components. *)
(* Trailing slashes and repeated slashes inside are gone in this form, as  *)
(* after the scanning in dir_namev; a second leading slash is a component  *)
(* "", which is what dir_namev looks up for it.  Names fit in NAME_LEN.    *)
(***************************************************************************)
EXTENDS Ramfs

CONSTANTS Proc,      \* user processes
          NFILES,    \* descriptors of a process
          MAX_FILE   \* file_t objects the slab cache can hold

ASSUME VfsAssumption == NFILES \in Nat \ {0} /\ MAX_FILE \in Nat \ {0}

Fd   == 0 .. NFILES - 1
File == 1 .. MAX_FILE

-----------------------------------------------------------------------------
(* namev.c                                                                 *)

lookup(k, dir, name) ==
    IF ~ IsDir(k, dir) THEN Fail(k, "ENOTDIR") ELSE ramfs_lookup(k, dir, name)

\* One component: the reference moves from the directory to what is found,
\* or is dropped.
Walk(r, name) ==
    Then(r, LAMBDA d :
      IF ~ IsDir(d.k, d.vn) THEN Fail(vput(d.k, d.vn), "ENOTDIR")
      ELSE [lookup(d.k, d.vn, name) EXCEPT !.k = vput(@, d.vn)])

\* The last component, "." for the root directory itself.
Base(path) == IF path.comps = <<>> THEN "." ELSE Last(path.comps)

\* The directory that holds the last component, with a reference on it.
dir_namev(k, p, path) ==
    With(IF path.abs THEN Root ELSE k.p_cwd[p], LAMBDA from :
      Then(FoldLeft(Walk, Found(vref(k, from), from),
                    IF path.comps = <<>> THEN <<>> ELSE Front(path.comps)), LAMBDA d :
        IF IsDir(d.k, d.vn) THEN d ELSE Fail(vput(d.k, d.vn), "ENOTDIR")))

open_namev(k, p, path, creat, memory) ==
    Then(dir_namev(k, p, path), LAMBDA d :
      With(lookup(d.k, d.vn, Base(path)), LAMBDA l :
        [IF l.err = "ENOENT" /\ creat THEN ramfs_create(l.k, d.vn, Base(path), memory)
                                      ELSE l EXCEPT !.k = vput(@, d.vn)]))

-----------------------------------------------------------------------------
(* file.c and open.c                                                       *)

fref(k, f) == [k EXCEPT !.file[f].f_refcount = @ + 1]

\* fget(-1): a fresh file with one reference, if the slab has one.
NewFile(k) == Min({f \in File : k.file[f] = NULL})
CanNewFile(k) == \E f \in File : k.file[f] = NULL

\* fget(fd) of an index that do_read's range check may let through.
fget(k, p, fd) == IF fd \in Fd THEN k.p_files[p][fd] ELSE NULL

fput(k, f) ==
    IF f = NULL THEN Panic(k, "fput NULL")
    ELSE IF k.file[f].f_refcount > 1
           THEN [k EXCEPT !.file[f].f_refcount = @ - 1]
           ELSE With(k.file[f].f_vnode, LAMBDA v :
                  [IF v = NULL THEN k ELSE vput(k, v) EXCEPT !.file[f] = NULL])

EmptyFds(k, p) == {fd \in Fd : k.p_files[p][fd] = NULL}
get_empty_fd(k, p) == Min(EmptyFds(k, p))

\* oflags, as the set of its bits, and the f_mode do_open derives from it.
OpenMode ==
    [o \in {{}, {"WRONLY"}, {"RDWR"}, {"APPEND"}, {"CREAT"},
            {"RDWR", "CREAT"}, {"RDWR", "APPEND"}} |->
        CASE o \in {{}, {"CREAT"}}                 -> {"READ"}
          [] o = {"WRONLY"}                        -> {"WRITE"}
          [] o \in {{"RDWR"}, {"RDWR", "CREAT"}}   -> {"READ", "WRITE"}
          [] o = {"APPEND"}                        -> {"WRITE", "APPEND"}
          [] o = {"RDWR", "APPEND"}                -> {"READ", "WRITE", "APPEND"}]

(* Mutant: the descriptor is not taken out of the table again.             *)
UndoOpenInPart(k, p, fd, f) == fput(k, f)

\* The descriptor is taken first and given back when the path fails, names a
\* directory to be written, or names a device nobody registered.
UndoOpen(k, p, fd, f) == fput([k EXCEPT !.p_files[p][fd] = NULL], f)

OpenFile(k, p, fd, f, oflags, o) ==
    IF o.err # "OK" THEN UndoOpen(o.k, p, fd, f)
    ELSE IF IsDir(o.k, o.vn) /\ oflags \cap {"WRONLY", "RDWR"} # {}
      THEN UndoOpen(vput(o.k, o.vn), p, fd, f)
    ELSE IF Mode(o.k, o.vn) \in {"CHR", "BLK"} /\ ~ o.k.inode[o.vn].rf_dev
      THEN vput(UndoOpen(o.k, p, fd, f), o.vn)
    ELSE [o.k EXCEPT !.file[f].f_vnode = o.vn]

OpenAt(k, p, path, oflags, memory, fd, f) ==
    OpenFile(k, p, fd, f, oflags,
      open_namev([k EXCEPT !.file[f] = [f_refcount |-> 1, f_pos |-> 0,
                                        f_mode |-> OpenMode[oflags], f_vnode |-> NULL],
                           !.p_files[p][fd] = f],
                 p, path, "CREAT" \in oflags, memory))

do_open(k, p, path, oflags, memory) ==
    IF oflags \notin DOMAIN OpenMode \/ EmptyFds(k, p) = {} \/ ~ CanNewFile(k) THEN k
    ELSE OpenAt(k, p, path, oflags, memory, get_empty_fd(k, p), NewFile(k))

-----------------------------------------------------------------------------
(* vfs_syscall.c: calls on a descriptor                                    *)

\* The new position, negative when the call is refused with EINVAL; the
\* fget and fput around it cancel.
SeekTo(k, f, offset, whence) ==
    LET from == CASE whence = "SET" -> 0
                  [] whence = "CUR" -> k.file[f].f_pos
                  [] whence = "END" -> k.vnode[k.file[f].f_vnode].vn_len
    IN from + offset

do_lseek(k, p, fd, offset, whence) ==
    With(fget(k, p, fd), LAMBDA f :
      IF f = NULL THEN k
      ELSE With(SeekTo(k, f, offset, whence), LAMBDA pos :
             IF pos < 0 THEN k ELSE [k EXCEPT !.file[f].f_pos = pos]))

\* What do_read refuses after fget; the reference is dropped in each case
\* but the first, where there is none to drop.
ReadRefused(k, f) ==
    \/ "READ" \notin k.file[f].f_mode
    \/ Mode(k, k.file[f].f_vnode) \in {"DIR", "BLK"}

\* After the read operation returned n bytes of nbytes: a short read leaves
\* the position at the end of the file.
ReadDone(k, p, fd, f, nbytes, n) ==
    fput(IF n = nbytes THEN do_lseek(k, p, fd, n, "CUR")
                       ELSE do_lseek(k, p, fd, 0, "END"), f)

\* A read that the vnode operation answers at once.  With nbytes = 0 the
\* file is put before it is tested.
ReadFile(k, p, fd, f, nbytes) ==
    IF nbytes = 0              THEN fput(k, f)
    ELSE IF f = NULL           THEN k
    ELSE IF ReadRefused(k, f)  THEN fput(k, f)
    ELSE ReadDone(k, p, fd, f, nbytes,
                  ramfs_read(k, k.file[f].f_vnode, k.file[f].f_pos, nbytes))

do_read(k, p, fd, nbytes) ==
    With(fget(k, p, fd), LAMBDA f :
      ReadFile(IF f = NULL THEN k ELSE fref(k, f), p, fd, f, nbytes))

\* The write of n bytes to a byte device (the device takes what it is
\* given), or to a file from the position or, appending, from its end.  The
\* file is read once more, for the closing assertion, after it was put.
WriteFile(k, p, fd, f, v, nbytes, append) ==
    With(IF append THEN do_lseek(k, p, fd, 0, "END") ELSE k, LAMBDA at :
      With(IF Mode(at, v) = "CHR" THEN [k |-> at, ret |-> nbytes]
           ELSE ramfs_write(at, v, at.file[f].f_pos, nbytes), LAMBDA w :
        fput(IF append THEN do_lseek(w.k, p, fd, 0, "END")
                       ELSE do_lseek(w.k, p, fd, w.ret, "CUR"), f)))

Written(k, f, v) ==
    IF k.file[f] = NULL THEN Panic(k, "write after put")
    ELSE KASSERT(k, Mode(k, v) = "CHR" \/ k.file[f].f_pos <= k.vnode[v].vn_len,
                 "do_write")

WriteOpen(k, p, fd, f, v, nbytes) ==
    IF \/ k.file[f].f_mode \cap {"WRITE", "APPEND"} = {}
       \/ Mode(k, v) \in {"DIR", "BLK"}
      THEN fput(k, f)
      ELSE Written(WriteFile(k, p, fd, f, v, nbytes, "APPEND" \in k.file[f].f_mode), f, v)

do_write(k, p, fd, nbytes) ==
    With(fget(k, p, fd), LAMBDA f :
      IF f = NULL THEN k
      ELSE WriteOpen(fref(k, f), p, fd, f, k.file[f].f_vnode, nbytes))

do_close(k, p, fd) ==
    With(fget(k, p, fd), LAMBDA f :
      IF f = NULL THEN k ELSE fput([k EXCEPT !.p_files[p][fd] = NULL], f))

do_dup(k, p, fd) ==
    With(fget(k, p, fd), LAMBDA f :
      IF f = NULL \/ EmptyFds(k, p) = {} THEN k
      ELSE [fref(k, f) EXCEPT !.p_files[p][get_empty_fd(k, p)] = f])

\* nfd = NFILES passes the range check; do_close then refuses it and the
\* store p_files[NFILES] lands in the next member of proc_t, p_cwd.
do_dup2(k, p, ofd, nfd) ==
    With(fget(k, p, ofd), LAMBDA f :
      IF f = NULL            THEN k
      ELSE IF nfd = ofd      THEN fput(fref(k, f), f)
      ELSE IF nfd \notin Fd  THEN Panic(fref(k, f), "p_cwd overwritten")
      ELSE [do_close(fref(k, f), p, nfd) EXCEPT !.p_files[p][nfd] = f])

\* A directory entry is returned and the position moved past it; at the end
\* the position becomes the vnode's cached length.
do_getdent(k, p, fd) ==
    With(fget(k, p, fd), LAMBDA f :
      IF f = NULL \/ fd \notin Fd            THEN k
      ELSE IF ~ IsDir(k, k.file[f].f_vnode)  THEN k
      ELSE With(ramfs_readdir(k, k.file[f].f_vnode, k.file[f].f_pos), LAMBDA s :
             IF s # 0 THEN do_lseek(k, p, fd, s, "CUR") ELSE do_lseek(k, p, fd, 0, "END")))

-----------------------------------------------------------------------------
(* vfs_syscall.c: calls on a path                                          *)

\* An existing name is found with a reference that is not given back.
do_mknod(k, p, path, type, dev, memory) ==
    Then(dir_namev(k, p, path), LAMBDA d :
      With(lookup(d.k, d.vn, Base(path)), LAMBDA l :
        IF l.err = "OK"
          THEN Fail(vput([l.k EXCEPT !.leaked[l.vn] = @ + 1], d.vn), "EEXIST")
        ELSE IF l.err # "ENOENT" THEN Fail(vput(l.k, d.vn), l.err)
        ELSE [ramfs_mknod(l.k, d.vn, Base(path), type, dev, memory)
                EXCEPT !.k = vput(@, d.vn)]))

do_mkdir(k, p, path, memory) ==
    Then(dir_namev(k, p, path), LAMBDA d :
      With(lookup(d.k, d.vn, Base(path)), LAMBDA l :
        IF l.err = "OK" THEN Fail(vput(vput(l.k, l.vn), d.vn), "EEXIST")
        ELSE [ramfs_mkdir(l.k, d.vn, Base(path), memory) EXCEPT !.k = vput(@, d.vn)]))

(* Mutant: "." and ".." are not refused.                                   *)
do_rmdir_dots(k, p, path) ==
    Then(dir_namev(k, p, path), LAMBDA d :
      [ramfs_rmdir(d.k, d.vn, Base(path)) EXCEPT !.k = vput(@, d.vn)])

\* "." and ".." are refused by their last characters.
do_rmdir(k, p, path) ==
    Then(dir_namev(k, p, path), LAMBDA d :
      IF path.comps # <<>> /\ Base(path) \in {".", ".."}
        THEN Fail(vput(d.k, d.vn), "EINVAL")
        ELSE [ramfs_rmdir(d.k, d.vn, Base(path)) EXCEPT !.k = vput(@, d.vn)])

do_unlink(k, p, path) ==
    Then(dir_namev(k, p, path), LAMBDA d :
      With(lookup(d.k, d.vn, Base(path)), LAMBDA l :
        IF l.err # "OK" THEN Fail(vput(l.k, d.vn), l.err)
        ELSE IF IsDir(l.k, l.vn) THEN Fail(vput(vput(l.k, d.vn), l.vn), "EISDIR")
        ELSE [ramfs_unlink(l.k, d.vn, Base(path)) EXCEPT !.k = vput(vput(@, d.vn), l.vn)]))

\* The source v may be a directory: nothing tests for it.
LinkTo(k, p, v, to) ==
    With(dir_namev(k, p, to), LAMBDA d :
      IF d.err # "OK" THEN Fail(vput(d.k, v), d.err)
      ELSE With(lookup(d.k, d.vn, Base(to)), LAMBDA l :
             IF l.err = "OK" THEN Fail(vput(vput(vput(l.k, v), d.vn), l.vn), "EEXIST")
             ELSE [ramfs_link(l.k, v, d.vn, Base(to))
                     EXCEPT !.k = vput(vput(@, v), d.vn)]))

do_link(k, p, from, to) ==
    Then(open_namev(k, p, from, FALSE, TRUE), LAMBDA o : LinkTo(o.k, p, o.vn, to))

do_rename(k, p, from, to) ==
    Then(do_link(k, p, from, to), LAMBDA l : do_unlink(l.k, p, from))

do_chdir(k, p, path) ==
    Then(open_namev(k, p, path, FALSE, TRUE), LAMBDA o :
      IF ~ IsDir(o.k, o.vn) THEN Fail(vput(o.k, o.vn), "ENOTDIR")
      ELSE Ok([vput(o.k, o.k.p_cwd[p]) EXCEPT !.p_cwd[p] = o.vn]))

\* The two references are taken and given back; nothing else changes.
do_stat(k, p, path) ==
    Then(dir_namev(k, p, path), LAMBDA d :
      With(lookup(d.k, d.vn, Base(path)), LAMBDA l :
        IF l.err # "OK" THEN Fail(vput(l.k, d.vn), l.err)
        ELSE Ok(vput(vput(l.k, d.vn), l.vn))))
=============================================================================
