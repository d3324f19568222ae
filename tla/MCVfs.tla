------------------------------- MODULE MCVfs -------------------------------
(* A small machine for module VfsSystem.                                   *)
EXTENDS VfsSystem

Abs(c) == [abs |-> TRUE, comps |-> c]
Rel(c) == [abs |-> FALSE, comps |-> c]

\* A name at the root, one below it, and the parent.
MCPath == {Abs(<<"a">>), Abs(<<"a", "b">>), Rel(<<"..">>)}
MCOflags == {{}, {"RDWR", "CREAT"}}
MCBoot == <<"tty0">>
MCBytes == {0, 1}

\* Processes, descriptors, inodes and lost references, each up to its bound
\* but not all at once.
MaxInUse == 7
InUse ==
    /\ Cardinality(k.alive) + Cardinality({x \in Proc \X Fd : k.p_files[x[1]][x[2]] # NULL})
       + Cardinality({i \in Ino : k.inode[i] # NULL}) + MapThenSumSet(LAMBDA i : k.leaked[i], Ino)
       <= MaxInUse
=============================================================================
