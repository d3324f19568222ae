--------------------------------- MODULE S5 ---------------------------------
(***************************************************************************)
(* The free lists of the System V file system (fs/s5fs/s5fs_subr.c), used  *)
(* by several threads: s5_free_block, s5_alloc_inode and s5_free_inode,    *)
(* with s5_alloc_block from the library that the kernel is linked with.    *)
(* A thread may lose the processor wherever the code gets or dirties a     *)
(* page of the disk or waits for s5f_mutex.                                *)
(*                                                                         *)
(*   super   s5s_nfree, s5s_free_blocks (the last of them is the next node *)
(*           of the list, NIL at its end; those past s5s_nfree, which are  *)
(*           never read, are NIL too) and s5s_free_inode;                  *)
(*   node    what each block holds: a node of the list, an indirect block; *)
(*   inode   the inodes; next is s5_next_free, in a union with s5_size;    *)
(*   mutex   who holds s5f_mutex;                                          *)
(*   th      where a thread is, the inode and the block it works on.       *)
(***************************************************************************)
EXTENDS Integers, Sequences, FiniteSets, SequencesExt

CONSTANTS Thread, NBLOCKS, NINODES,
          DEVID,      \* the device number of a special file
          FNODE,      \* S5_NBLKS_PER_FNODE
          NDIRECT,    \* S5_NDIRECT_BLOCKS
          NINDIRECT   \* S5_NIDIRECT_BLOCKS

VARIABLES super, node, inode, mutex, th

Block == 1 .. NBLOCKS
Inode == 1 .. NINODES
NIL   == 0
Idle  == [pc |-> "idle", ino |-> NIL, blk |-> NIL, at |-> NIL]
Empty == [k \in 1 .. FNODE |-> NIL]
NoBlocks == [k \in 1 .. NDIRECT |-> NIL]
Free  == [type |-> "FREE", direct |-> NoBlocks, indirect |-> NIL, next |-> NIL]

lock_s5(t)   == mutex = NIL /\ mutex' = t
unlock_s5(t) == mutex = t /\ mutex' = NIL

At(t, pc) == th[t].pc = pc
Go(t, pc) == th' = [th EXCEPT ![t].pc = pc]

-----------------------------------------------------------------------------
(* Blocks.                                                                 *)

\* A block is put into the node in the super block, if there is room beside the
\* link; else the block becomes a node and takes the contents.  The caller is
\* at "fb" with its block and goes on at "fbdone".
s5_free_block(t) ==
    \/ /\ At(t, "fb") /\ lock_s5(t)
       /\ Go(t, IF super.nfree = FNODE - 1 THEN "fbget" ELSE "fbput")
       /\ UNCHANGED <<super, node, inode>>
    \/ /\ At(t, "fbget")        \* pframe_get has returned
       /\ node' = [node EXCEPT ![th[t].blk] = super.free]
       /\ super' = [super EXCEPT !.nfree = 0, !.free = [Empty EXCEPT ![FNODE] = th[t].blk]]
       /\ Go(t, "fbdirty") /\ UNCHANGED <<inode, mutex>>
    \/ /\ At(t, "fbput")
       /\ super' = [super EXCEPT !.nfree = @ + 1, !.free[super.nfree + 1] = th[t].blk]
       /\ Go(t, "fbdirty") /\ UNCHANGED <<node, inode, mutex>>
    \/ /\ At(t, "fbdirty")      \* s5_dirty_super has returned
       /\ unlock_s5(t) /\ Go(t, "fbdone") /\ UNCHANGED <<super, node, inode>>

\* The library's allocation: a block of the node, or the node itself once it is
\* used up and its contents have been copied into the super block.
NextFree == IF super.nfree > 0 THEN super.free[super.nfree] ELSE super.free[FNODE]
s5_alloc_block(nodes) ==
    /\ mutex = NIL /\ NextFree # NIL
    /\ super' = IF super.nfree > 0 THEN [super EXCEPT !.nfree = @ - 1, !.free[super.nfree] = NIL]
                ELSE [super EXCEPT !.nfree = FNODE - 1, !.free = node[NextFree]]
    /\ node' = [nodes EXCEPT ![NextFree] = Empty]

\* A file grows: by a direct block, by an indirect block, by a block in that.
Grow(i) ==
    /\ inode[i].type = "DATA" /\ \A t \in Thread : th[t].ino # i
    /\ \/ /\ s5_alloc_block(node)
          /\ \E k \in 1 .. NDIRECT : /\ inode[i].direct[k] = NIL
                                     /\ inode' = [inode EXCEPT ![i].direct[k] = NextFree]
       \/ /\ inode[i].indirect = NIL /\ s5_alloc_block(node)
          /\ inode' = [inode EXCEPT ![i].indirect = NextFree]
       \/ /\ inode[i].indirect # NIL
          /\ \E k \in 1 .. NINDIRECT :
               /\ node[inode[i].indirect][k] = NIL
               /\ s5_alloc_block([node EXCEPT ![inode[i].indirect][k] = NextFree])
          /\ UNCHANGED inode
    /\ UNCHANGED <<mutex, th>>

-----------------------------------------------------------------------------
(* Inodes.                                                                 *)

(* Mutant: the inode that is taken stays on the list.                      *)
TakeInodeAgain(t) ==
    /\ At(t, "aiget") /\ th' = [th EXCEPT ![t].pc = "aidirty", ![t].ino = super.ino]
    /\ UNCHANGED <<super, node, inode, mutex>>

\* pframe_get has returned: the first inode of the list is taken.
TakeInode(t) ==
    /\ At(t, "aiget")
    /\ super' = [super EXCEPT !.ino = inode[super.ino].next]
    /\ th' = [th EXCEPT ![t].pc = "aidirty", ![t].ino = super.ino]
    /\ UNCHANGED <<node, inode, mutex>>

\* A device keeps its number where a file has its indirect block.
s5_alloc_inode(t) ==
    \/ /\ th[t] = Idle /\ mutex = NIL /\ super.ino # NIL
       /\ mutex' = t /\ Go(t, "aiget") /\ UNCHANGED <<super, node, inode>>
    \/ TakeInode(t)
    \/ /\ At(t, "aidirty")      \* s5_dirty_super has returned
       /\ \E type \in {"DATA", "CHR"} :
            inode' = [inode EXCEPT ![th[t].ino] =
                [Free EXCEPT !.type = type, !.indirect = IF type = "CHR" THEN DEVID ELSE NIL]]
       /\ Go(t, "aidone") /\ UNCHANGED <<super, node, mutex>>
    \/ /\ At(t, "aidone") /\ unlock_s5(t)
       /\ th' = [th EXCEPT ![t] = Idle] /\ UNCHANGED <<super, node, inode>>

\* The direct blocks are at = 1 .. NDIRECT, those of the indirect block follow,
\* then the indirect block itself.
IsFile(i)  == inode[i].type = "DATA" /\ inode[i].indirect # NIL
LastAt(i)    == NDIRECT + (IF IsFile(i) THEN NINDIRECT + 1 ELSE 0)
BlockAt(i, at) == IF at <= NDIRECT THEN inode[i].direct[at]
                  ELSE IF at <= NDIRECT + NINDIRECT THEN node[inode[i].indirect][at - NDIRECT]
                  ELSE inode[i].indirect

s5_free_inode(t, i) ==
    \/ /\ th[t] = Idle /\ inode[i].type # "FREE" /\ \A u \in Thread : th[u].ino # i
       /\ th' = [th EXCEPT ![t] = [pc |-> "fi", ino |-> i, blk |-> NIL, at |-> 1]]
       /\ UNCHANGED <<super, node, inode, mutex>>
    \/ /\ At(t, "fi") /\ th[t].ino = i /\ th[t].at <= LastAt(i)
       /\ th' = IF BlockAt(i, th[t].at) = NIL THEN [th EXCEPT ![t].at = @ + 1]
                ELSE [th EXCEPT ![t].pc = "fb", ![t].blk = BlockAt(i, th[t].at)]
       /\ UNCHANGED <<super, node, inode, mutex>>
    \/ /\ At(t, "fbdone") /\ th[t].ino = i      \* s5_dirty_inode has returned
       /\ inode' = IF th[t].at <= NDIRECT THEN [inode EXCEPT ![i].direct[th[t].at] = NIL] ELSE inode
       /\ th' = [th EXCEPT ![t] = [pc |-> "fi", ino |-> i, blk |-> NIL, at |-> @.at + 1]]
       /\ UNCHANGED <<super, node, mutex>>
    \/ /\ At(t, "fi") /\ th[t].ino = i /\ th[t].at = LastAt(i) + 1
       /\ inode' = [inode EXCEPT ![i].indirect = NIL, ![i].type = "FREE"]
       /\ Go(t, "filist") /\ UNCHANGED <<super, node, mutex>>
    \/ /\ At(t, "filist") /\ th[t].ino = i /\ mutex = NIL
       /\ inode' = [inode EXCEPT ![i].next = super.ino]
       /\ super' = [super EXCEPT !.ino = i]
       /\ th' = [th EXCEPT ![t] = Idle] /\ UNCHANGED <<node, mutex>>

\* The disk as it is made: all blocks and inodes are free.
Node(b) == [k \in 1 .. FNODE |-> IF b + k <= NBLOCKS THEN b + k ELSE NIL]
S5Init ==
    /\ super = [nfree |-> FNODE - 1, free |-> Node(0), ino |-> 1]
    /\ node = [b \in Block |-> IF b % FNODE = 0 THEN Node(b) ELSE Empty]
    /\ inode = [i \in Inode |-> [Free EXCEPT !.next = IF i < NINODES THEN i + 1 ELSE NIL]]
    /\ mutex = NIL
    /\ th = [t \in Thread |-> Idle]

S5Next == \/ \E t \in Thread : s5_free_block(t) \/ s5_alloc_inode(t)
          \/ \E t \in Thread, i \in Inode : s5_free_inode(t, i)
          \/ \E i \in Inode : Grow(i)
S5Spec == S5Init /\ [][S5Next]_<<super, node, inode, mutex, th>>

-----------------------------------------------------------------------------
(* Properties.                                                             *)

RECURSIVE NodeChain(_, _), InodeChain(_, _)
NodeChain(b, k) ==
    IF b = NIL \/ k = 0 THEN <<>>
    ELSE <<b>> \o SubSeq(node[b], 1, FNODE - 1) \o NodeChain(node[b][FNODE], k - 1)
FreeBlocks == SubSeq(super.free, 1, super.nfree) \o NodeChain(super.free[FNODE], NBLOCKS)
InodeChain(i, k) == IF i = NIL \/ k = 0 THEN <<>> ELSE <<i>> \o InodeChain(inode[i].next, k - 1)

\* What inode i owns: of one that is being freed, what has not been given back.
GivenBack(i) == LET ts == {t \in Thread : th[t].ino = i /\ th[t].at # NIL}
                IN IF ts = {} THEN 0
                   ELSE LET s == th[CHOOSE t \in ts : TRUE]
                        IN IF s.pc \in {"fbdirty", "fbdone"} THEN s.at ELSE s.at - 1
Owned(i) == SelectSeq([k \in 1 .. LastAt(i) |-> IF k <= GivenBack(i) THEN NIL ELSE BlockAt(i, k)],
                      LAMBDA b : b # NIL)

\* A block is on the free list or in one file, and there once, and an inode is
\* on the list of free inodes exactly if it is free, whoever is allocating or
\* freeing at the same time: nothing is lost and nothing is given out twice.
EachInOnePlace ==
    LET blocks == FoldLeft(LAMBDA s, i : s \o Owned(i), FreeBlocks, [i \in Inode |-> i])
        between == {th[t].ino : t \in {u \in Thread : At(u, "aidirty") \/ At(u, "filist")}}
    IN /\ Len(blocks) = NBLOCKS /\ ToSet(blocks) = Block
       /\ IsInjective(InodeChain(super.ino, NINODES + 1))
       /\ ToSet(InodeChain(super.ino, NINODES + 1)) = {i \in Inode : inode[i].type = "FREE"} \ between
=============================================================================
