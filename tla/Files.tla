------------------------------- MODULE Files -------------------------------
(***************************************************************************)
(* Open files and their contents: the file table and the descriptors       *)
(* (file.c, sysfile.c), the block allocator and the blocks of an inode     *)
(* (fs.c), on a disk as mkfs.c lays it out.                                *)
(*                                                                         *)
(* A step is what happens under one inode lock and in one transaction: one *)
(* round of filewrite, one fileread, one iput; fileclose drops its entry   *)
(* first and calls iput in a second step.  A block is an array of BSIZE    *)
(* cells, bytes or, in an indirect block, block numbers; the bytes a       *)
(* process writes are its name.  Directories are in module Inode; here a   *)
(* file has a name or it has not.                                          *)
(***************************************************************************)
EXTENDS Integers, Sequences, FiniteSets, SequencesExt

CONSTANTS Proc,
          Inum,         \* inodes of files
          NFILE,        \* entries of the file table
          NOFILE,       \* descriptors of a process
          BSIZE,        \* cells of a block
          NDIRECT,      \* direct blocks of an inode
          NINDIRECT,    \* entries of an indirect block
          usedblocks,   \* blocks before the data blocks
          nblocks,      \* data blocks
          nlog,         \* blocks of the log, at the end
          LOGSIZE, MAXOPBLOCKS,
          MkfsSizes,    \* sizes of the file that mkfs puts on the disk
          Amounts       \* numbers of bytes that are read and written

ASSUME FilesAssumption ==
    /\ {NFILE, NOFILE, BSIZE, NDIRECT, NINDIRECT, usedblocks, nblocks, nlog} \subseteq Nat \ {0}
    /\ NINDIRECT <= BSIZE
    /\ LOGSIZE \in Nat /\ MAXOPBLOCKS \in Nat /\ LOGSIZE >= 6
    /\ Amounts \subseteq Nat /\ MkfsSizes \subseteq Nat /\ 0 \notin Proc \cup Inum

VARIABLES used,     \* bits of the bitmap that are set
          block,    \* cells of every block from usedblocks on
          addrs,    \* of each inode: NDIRECT blocks and the indirect one
          size,     \* of each inode
          named,    \* inodes with a link
          ftab,     \* file table: ref, ip (0: an end of a pipe), off
          ofile,    \* descriptors of a process, 0: closed
          task,     \* the call a process is in: see Idle
          answer    \* the last read: what was asked for, what it returned

vars == <<used, block, addrs, size, named, ftab, ofile, task, answer>>

MAXFILE == NDIRECT + NINDIRECT
Disk == 0..(usedblocks + nblocks + nlog - 1)
LogArea == (usedblocks + nblocks)..(usedblocks + nblocks + nlog - 1)
DataArea == usedblocks..(usedblocks + nblocks - 1)
MinOf(S) == CHOOSE x \in S : \A y \in S : x <= y
Least(a, b) == IF a < b THEN a ELSE b
FromMkfs == "mkfs"   \* the bytes of a file that mkfs wrote
Zeroes == [k \in 0..(BSIZE - 1) |-> 0]
NoFile == [ref |-> 0, ip |-> 0, off |-> 0]
Idle == [pc |-> "user",
         f |-> 0,       \* file that filewrite writes
         i |-> 0, n |-> 0,   \* bytes written, bytes to write
         ip |-> 0,      \* inode that is still to be put
         held |-> <<>>] \* files of sys_pipe without a descriptor

(* ------------------------ blocks of an inode --------------------------- *)
(* The part of the state that bmap works on.                               *)
Store == [used |-> used, block |-> block, addrs |-> addrs]

balloc(s) == MinOf(Disk \ s.used)
Taken(s) == [s EXCEPT !.used = @ \cup {balloc(s)}, !.block[balloc(s)] = Zeroes]

(* The block number an entry holds after bmap, for an entry of the inode   *)
(* and for one of its indirect block.                                      *)
Direct(s, i, k) ==
    IF s.addrs[i][k] # 0 THEN s ELSE [Taken(s) EXCEPT !.addrs[i][k] = balloc(s)]
Indirect(s, i, k) ==
    LET t == Direct(s, i, NDIRECT)
        a == t.addrs[i][NDIRECT]
    IN IF t.block[a][k] # 0 THEN t ELSE [Taken(t) EXCEPT !.block[a][k] = balloc(t)]
bmap(s, i, bn) == IF bn < NDIRECT THEN Direct(s, i, bn) ELSE Indirect(s, i, bn - NDIRECT)
BlockOf(s, i, bn) ==
    IF bn < NDIRECT THEN s.addrs[i][bn] ELSE s.block[s.addrs[i][NDIRECT]][bn - NDIRECT]

(* The pieces of a transfer of n bytes from off: one for each block.       *)
LastCell(off, n, bn) == Least(BSIZE, off + n - bn * BSIZE) - 1

Pieces(off, n) ==
    IF n = 0 THEN <<>>
    ELSE [k \in 1..((off + n - 1) \div BSIZE - off \div BSIZE + 1) |->
             LET bn == off \div BSIZE + k - 1
             IN [bn |-> bn, first |-> IF k = 1 THEN off % BSIZE ELSE 0,
                 last |-> LastCell(off, n, bn)]]
(* One round of the loop of writei.                                        *)
Put(s, i, piece, v) ==
    LET t == bmap(s, i, piece.bn)
    IN [t EXCEPT !.block[BlockOf(t, i, piece.bn)] =
            [c \in 0..(BSIZE - 1) |-> IF c \in piece.first..piece.last THEN v ELSE @[c]]]
Written(s, i, off, n, v) == FoldLeft(LAMBDA t, x : Put(t, i, x, v), s, Pieces(off, n))
WriteiFails(i, off, n) == off > size[i] \/ off + n > MAXFILE * BSIZE

(* readi: nothing is allocated as long as all blocks of the file are       *)
(* there (BlocksAccounted).                                                *)
Readi(i, off, n) ==
    LET m == IF off > size[i] THEN 0 ELSE Least(n, size[i] - off)
        Get(x) == [k \in 1..(x.last - x.first + 1) |->
                      block[BlockOf(Store, i, x.bn)][x.first + k - 1]]
    IN FoldLeft(LAMBDA s, x : s \o Get(x), <<>>, Pieces(off, m))

(* itrunc frees the blocks and then the indirect block.                    *)
IndirectBlocks_skipped(i) == {}
IndirectBlocks(i) ==
    LET a == addrs[i][NDIRECT]
    IN IF a = 0 THEN {} ELSE {a} \cup ({block[a][k] : k \in 0..(NINDIRECT - 1)} \ {0})

BlocksOfFile(i) == ({addrs[i][k] : k \in 0..(NDIRECT - 1)} \ {0}) \cup IndirectBlocks(i)
itrunc(i) ==
    /\ used' = used \ BlocksOfFile(i)
    /\ addrs' = [addrs EXCEPT ![i] = [k \in 0..NDIRECT |-> 0]]
    /\ size' = [size EXCEPT ![i] = 0]
    /\ UNCHANGED block

(* ----------------------------- mkfs ------------------------------------ *)
(* iappend of n bytes, with blocks taken one after the other.              *)
Appended(s, i, piece) ==
    LET x == s.freeblock
        inFirst == piece.bn < NDIRECT
        ind == IF s.addrs[i][NDIRECT] = 0 THEN x ELSE s.addrs[i][NDIRECT]
        data == IF inFirst \/ s.addrs[i][NDIRECT] # 0 THEN x ELSE x + 1
        filled == [c \in 0..(BSIZE - 1) |-> IF c <= piece.last THEN FromMkfs ELSE 0]
    IN IF inFirst
       THEN [s EXCEPT !.freeblock = data + 1, !.addrs[i][piece.bn] = data, !.block[data] = filled]
       ELSE [s EXCEPT !.freeblock = data + 1, !.addrs[i][NDIRECT] = ind,
                      !.block[ind][piece.bn - NDIRECT] = data, !.block[data] = filled]
iappend(i, n) ==
    FoldLeft(LAMBDA s, x : Appended(s, i, x),
             [freeblock |-> usedblocks, addrs |-> [j \in Inum |-> [k \in 0..NDIRECT |-> 0]],
              block |-> [b \in DataArea \cup LogArea |-> Zeroes]],
             Pieces(0, n))

(* At boot one file may have bytes; the blocks in front and those that     *)
(* were taken are marked, those of the log are not.                        *)
Init ==
    /\ \E i \in Inum, n \in MkfsSizes :
          LET s == iappend(i, n)
          IN /\ used = 0..(s.freeblock - 1) /\ block = s.block /\ addrs = s.addrs
             /\ size = [j \in Inum |-> IF j = i THEN n ELSE 0]
    /\ named = Inum /\ ftab = [f \in 1..NFILE |-> NoFile]
    /\ ofile = [p \in Proc |-> [d \in 1..NOFILE |-> 0]]
    /\ task = [p \in Proc |-> Idle] /\ answer = [asked |-> 0, got |-> <<>>]

(* ----------------------- file table, descriptors ----------------------- *)
InUser(p) == task[p].pc = "user"
Call(p, t) == task' = [task EXCEPT ![p] = t]
FreeFiles == {f \in 1..NFILE : ftab[f].ref = 0}
FreeFds(p) == {d \in 1..NOFILE : ofile[p][d] = 0}
(* iget references: open files, and inodes that are still to be put.       *)
Refs(i) == Cardinality({f \in 1..NFILE : ftab[f].ref > 0 /\ ftab[f].ip = i})
           + Cardinality({p \in Proc : task[p].ip = i})

(* fileclose of a file that filealloc gave and fdalloc has no place for:   *)
(* it has no type yet, so that only its entry goes back.                   *)
OpenFailed_kept(f) == [ftab EXCEPT ![f].ref = 1]
OpenFailed(f) == [ftab EXCEPT ![f] = NoFile]

(* sys_open; a free inode is one for create.  Without a file or without a  *)
(* descriptor the inode is put, which has a name, be it a new one.         *)
sys_open(p) ==
    /\ InUser(p)
    /\ \E i \in Inum :
          /\ i \in named \/ Refs(i) = 0
          /\ named' = named \cup {i}
          /\ \/ /\ FreeFiles # {} /\ FreeFds(p) # {}
                /\ ftab' = [ftab EXCEPT ![MinOf(FreeFiles)] = [ref |-> 1, ip |-> i, off |-> 0]]
                /\ ofile' = [ofile EXCEPT ![p][MinOf(FreeFds(p))] = MinOf(FreeFiles)]
             \/ /\ FreeFiles = {} \/ FreeFds(p) = {}
                /\ ftab' = IF FreeFiles = {} THEN ftab ELSE OpenFailed(MinOf(FreeFiles))
                /\ UNCHANGED ofile
    /\ UNCHANGED <<used, block, addrs, size, task, answer>>

Open(p) == {d \in 1..NOFILE : ofile[p][d] # 0}
OnDisk(p) == {d \in Open(p) : ftab[ofile[p][d]].ip # 0}
sys_dup(p) ==
    /\ InUser(p) /\ FreeFds(p) # {}
    /\ \E d \in Open(p) :
          /\ ofile' = [ofile EXCEPT ![p][MinOf(FreeFds(p))] = ofile[p][d]]
          /\ ftab' = [ftab EXCEPT ![ofile[p][d]].ref = @ + 1]
    /\ UNCHANGED <<used, block, addrs, size, named, task, answer>>

(* fork gives a new process, here one without open files, the parent's.    *)
fork(p, q) ==
    /\ InUser(p) /\ InUser(q) /\ Open(q) = {} /\ Open(p) # {} /\ p # q
    /\ ofile' = [ofile EXCEPT ![q] = ofile[p]]
    /\ ftab' = [f \in 1..NFILE |->
                   [ftab[f] EXCEPT !.ref = @ + Cardinality({d \in Open(p) : ofile[p][d] = f})]]
    /\ UNCHANGED <<used, block, addrs, size, named, task, answer>>

LastRef(f) == ftab[f].ref = 1

sys_close(p) ==
    /\ InUser(p)
    /\ \E d \in Open(p) :
          LET f == ofile[p][d]
          IN /\ ofile' = [ofile EXCEPT ![p][d] = 0]
             /\ IF LastRef(f)
                THEN /\ ftab' = [ftab EXCEPT ![f] = NoFile]
                     /\ Call(p, IF ftab[f].ip = 0 THEN Idle
                                ELSE [Idle EXCEPT !.pc = "iput", !.ip = ftab[f].ip])
                ELSE /\ ftab' = [ftab EXCEPT ![f].ref = @ - 1]
                     /\ UNCHANGED task
    /\ UNCHANGED <<used, block, addrs, size, named, answer>>

iput(p) ==
    LET i == task[p].ip
    IN /\ task[p].pc = "iput"
       /\ IF Refs(i) = 1 /\ i \notin named THEN itrunc(i)
          ELSE UNCHANGED <<used, block, addrs, size>>
       /\ Call(p, Idle)
       /\ UNCHANGED <<named, ftab, ofile, answer>>

(* sys_pipe with pipealloc: two files, a page for the pipe, and then two   *)
(* descriptors; without one of them the files are closed again.            *)
AllocEnd(p, held) ==
    /\ ftab' = [ftab EXCEPT ![MinOf(FreeFiles)] = [NoFile EXCEPT !.ref = 1]]
    /\ Call(p, [Idle EXCEPT !.pc = "pipe", !.held = Append(held, MinOf(FreeFiles))])
sys_pipe(p) ==
    /\ InUser(p) /\ FreeFiles # {} /\ AllocEnd(p, <<>>)
    /\ UNCHANGED <<used, block, addrs, size, named, ofile, answer>>
Undo(p) == Call(p, [task[p] EXCEPT !.pc = "undo"])
PipeFile(p) ==
    /\ task[p].pc = "pipe" /\ Len(task[p].held) = 1
    /\ IF FreeFiles = {} THEN Undo(p) /\ UNCHANGED ftab ELSE AllocEnd(p, task[p].held)
    /\ UNCHANGED <<used, block, addrs, size, named, ofile, answer>>
PipeFds(p) ==
    LET d0 == MinOf(FreeFds(p))
        d1 == MinOf(FreeFds(p) \ {d0})
        held == task[p].held
    IN /\ task[p].pc = "pipe" /\ Len(held) = 2
       /\ \/ /\ Cardinality(FreeFds(p)) >= 2
             /\ ofile' = [ofile EXCEPT ![p][d0] = held[1], ![p][d1] = held[2]]
             /\ Call(p, Idle)
          \/ Undo(p) /\ UNCHANGED ofile     \* no page, or no descriptor
       /\ UNCHANGED <<used, block, addrs, size, named, ftab, answer>>
PipeUndo(p) ==
    /\ task[p].pc = "undo"
    /\ ftab' = [ftab EXCEPT ![Head(task[p].held)] = NoFile]
    /\ Call(p, IF Len(task[p].held) = 1 THEN Idle ELSE [task[p] EXCEPT !.held = Tail(@)])
    /\ UNCHANGED <<used, block, addrs, size, named, ofile, answer>>

sys_unlink(p) ==
    /\ InUser(p)
    /\ \E i \in named :
          /\ named' = named \ {i}
          /\ IF Refs(i) = 0 THEN itrunc(i) ELSE UNCHANGED <<used, block, addrs, size>>
    /\ UNCHANGED <<ftab, ofile, task, answer>>

(* --------------------------- read and write ---------------------------- *)
Advanced_to(f, r) == [ftab EXCEPT ![f].off = r]
Advanced(f, r) == [ftab EXCEPT ![f].off = @ + r]

sys_read(p) ==
    /\ InUser(p)
    /\ \E d \in OnDisk(p), n \in Amounts :
          LET f == ofile[p][d]
              got == Readi(ftab[f].ip, ftab[f].off, n)
          IN /\ answer' = [asked |-> n, got |-> got]
             /\ ftab' = Advanced(f, Len(got))
    /\ UNCHANGED <<used, block, addrs, size, named, ofile, task>>

max == ((LOGSIZE - 1 - 1 - 2) \div 2) * BSIZE
Round(t) == Least(t.n - t.i, max)

(* One round of filewrite: begin_op, ilock, writei, iunlock, end_op.       *)
WriteRound(p, t) ==
    LET i == ftab[t.f].ip
        off == ftab[t.f].off
        n1 == Round(t)
        s == Written(Store, i, off, n1, p)
    IN /\ IF WriteiFails(i, off, n1)
          THEN Call(p, Idle) /\ UNCHANGED <<used, block, addrs, size, ftab>>
          ELSE /\ used' = s.used /\ block' = s.block /\ addrs' = s.addrs
               /\ size' = [size EXCEPT ![i] = IF off + n1 > @ THEN off + n1 ELSE @]
               /\ ftab' = Advanced(t.f, n1)
               /\ Call(p, IF t.i + n1 = t.n THEN Idle ELSE [t EXCEPT !.i = t.i + n1])
       /\ UNCHANGED <<named, ofile, answer>>

WriteCall(p, d, n) == [Idle EXCEPT !.pc = "write", !.f = ofile[p][d], !.n = n]
sys_write(p) == InUser(p) /\ \E d \in OnDisk(p), n \in Amounts : WriteRound(p, WriteCall(p, d, n))
filewrite(p) == task[p].pc = "write" /\ WriteRound(p, task[p])

(* A block of the log area is in use: the next commit will write over it,  *)
(* which is not followed here.                                             *)
Spilled == used \cap LogArea # {}

Next == /\ ~Spilled
        /\ \E p \in Proc : \/ sys_open(p) \/ sys_dup(p) \/ sys_close(p) \/ iput(p) \/ sys_unlink(p)
                           \/ sys_read(p) \/ sys_write(p) \/ filewrite(p)
                           \/ sys_pipe(p) \/ PipeFile(p) \/ PipeFds(p) \/ PipeUndo(p)
                           \/ \E q \in Proc : fork(p, q)
Spec == Init /\ [][Next]_vars

(* For TLC: processes and inodes are alike, and no step depends on what    *)
(* was read, on what a free block holds, as balloc clears it, or on which  *)
(* entry of the table and which descriptor of a process a file has.        *)
Alike == Permutations(Proc) \cup Permutations(Inum)
FileView(f) ==
    <<ftab[f], [p \in Proc |-> <<Cardinality({d \in Open(p) : ofile[p][d] = f}),
                                 task[p].f = f, f \in Range(task[p].held)>>]>>
InUse == LET views == [f \in 1..NFILE |-> FileView(f)]
         IN <<used, [b \in DOMAIN block |-> IF b \in used THEN block[b] ELSE Zeroes],
              addrs, size, named,
              [v \in Range(views) |-> Cardinality({f \in 1..NFILE : views[f] = v})],
              [p \in Proc |-> [task[p] EXCEPT !.f = 0, !.held = Len(@)]]>>
-----------------------------------------------------------------------------
Contents(i) ==
    LET s == Store
    IN [k \in 1..size[i] |-> block[BlockOf(s, i, (k - 1) \div BSIZE)][(k - 1) % BSIZE]]
Handles == [f \in 1..NFILE |-> [ip |-> ftab[f].ip, off |-> ftab[f].off]]
F == INSTANCE FileBytes WITH contents <- [i \in Inum |-> Contents(i)], open <- Handles,
                             Handle <- 1..NFILE, Byte <- Proc \cup {FromMkfs},
                             MaxSize <- MAXFILE * BSIZE, MaxWrite <- max, Asks <- Amounts
(* Files are byte sequences and open files are offsets into them: a round  *)
(* of a write changes the bytes at the offset of its file and no others, a *)
(* read returns the bytes at that offset, as many as it is asked for or    *)
(* all that are left, both advance the offset by what they transferred,    *)
(* an offset moves in no other way although descriptors, forks and the     *)
(* rounds of several writes share it, and only a file that lost its last   *)
(* link and reference becomes empty, whatever blocks the bytes are in      *)
(* (fileread, filewrite, writei, readi, bmap, itrunc).                     *)
ImplementsFileBytes == F!Spec

(* The bitmap has exactly the blocks in front and those of the files, each *)
(* block belongs to one place of one file, a file has the blocks below its *)
(* size and no others (so that reading never allocates), and a block of    *)
(* the log is only taken when there is no other.                           *)
Files(i) == {addrs[i][k] : k \in 0..(NDIRECT - 1)} \cup
            (IF addrs[i][NDIRECT] = 0 THEN {} ELSE {addrs[i][NDIRECT]} \cup
                {block[addrs[i][NDIRECT]][k] : k \in 0..(NINDIRECT - 1)})
Needs(i) == LET n == (size[i] + BSIZE - 1) \div BSIZE IN IF n > NDIRECT THEN n + 1 ELSE n
BlocksAccounted ==
    /\ used = 0..(usedblocks - 1) \cup UNION {Files(i) \ {0} : i \in Inum}
    /\ \A i, j \in Inum : i # j => Files(i) \cap Files(j) \subseteq {0}
    /\ \A i \in Inum : Cardinality(Files(i) \ {0}) = Needs(i)
    /\ Spilled => DataArea \subseteq used

(* A file is in the table as long as a descriptor, a running write or a    *)
(* pipe call of some process refers to it, with the number of these as its *)
(* count, also after an open found no descriptor for its file or a pipe    *)
(* call failed half way; an inode without a name is empty when nothing     *)
(* refers to it.                                                           *)
RefsMatch ==
    /\ \A f \in 1..NFILE :
          ftab[f].ref = Cardinality({x \in Proc \X (1..NOFILE) : ofile[x[1]][x[2]] = f})
                        + Cardinality({p \in Proc : f \in Range(task[p].held)})
    /\ \A p \in Proc : task[p].pc = "write" => ftab[task[p].f].ref > 0
    /\ \A i \in Inum : i \notin named /\ Refs(i) = 0 => size[i] = 0 /\ Files(i) \subseteq {0}

(* The number of blocks one round of filewrite logs: its data blocks, the  *)
(* bitmap, the indirect block when it gets an entry, and the inode when    *)
(* the file grows.                                                         *)
One(b) == IF b THEN 1 ELSE 0
Logged(p, t) ==
    LET i == ftab[t.f].ip
        off == ftab[t.f].off
        s == Written(Store, i, off, Round(t), p)
        a == s.addrs[i][NDIRECT]
    IN Len(Pieces(off, Round(t))) + One(s.used # used) + One(off + Round(t) > size[i])
       + One(a # 0 /\ (a \notin used \/ s.block[a] # block[a]))
(* "max # of blocks any FS op writes" (param.h:10): the space begin_op     *)
(* reserves in the log is enough for each round of a write.                *)
OpWithinReservation ==
    \A p \in Proc, d \in 1..NOFILE, n \in Amounts :
        (~Spilled /\ InUser(p) /\ d \in OnDisk(p)) =>
            LET t == WriteCall(p, d, n)
            IN WriteiFails(ftab[t.f].ip, ftab[t.f].off, Round(t)) \/ Logged(p, t) <= MAXOPBLOCKS
=============================================================================
