------------------------------ MODULE FileData ------------------------------
(***************************************************************************)
(* What files hold: block allocation, the block map, reads, writes and     *)
(* truncation of fs.c; fileread and filewrite of file.c; and the image     *)
(* that mkfs.c starts the disk with.                                       *)
(*                                                                         *)
(* A byte is a number; an address and a directory entry fill one byte, so  *)
(* that an indirect block has BSIZE addresses and the root directory is a  *)
(* file of inode numbers.  Names and link counts belong to Fs.             *)
(***************************************************************************)
EXTENDS Integers, FiniteSets, FiniteSetsExt, Sequences, SequencesExt

CONSTANTS
  NPROC,        \* processes
  NINODES,      \* inodes 1 .. NINODES; number 1 is the root directory
  File,         \* open files; a process may use each of them, as after fork
  BSIZE, NDIRECT, FSSIZE,
  nmeta,        \* blocks in front of the data blocks
  MAXOPBLOCKS,  \* blocks that one transaction may write
  HostFiles,    \* the contents of the files mkfs is called with
  Sizes,        \* bound: the sizes of reads and writes
  MaxCalls      \* bound: calls the processes make

ASSUME FileDataAssumption ==
  /\ BSIZE > 0 /\ NDIRECT > 0 /\ MAXOPBLOCKS >= 6
  /\ nmeta > 1 /\ nmeta < FSSIZE /\ NINODES > Len(HostFiles)

DataProc  == 1 .. NPROC
NINDIRECT == BSIZE
MAXFILE   == NDIRECT + NINDIRECT
Inum      == 1 .. NINODES
ROOTINO   == 1
Block     == 0 .. FSSIZE - 1
NoLock    == 0
IBLOCK    == 0          \* stand for the inodes' block and the bitmap's
BBLOCK    == 1

VARIABLES
  bitmap,   \* the blocks marked in use
  data,     \* the bytes of each block
  dinode,   \* type, size and addrs of each inode on the disk
  inode,    \* their copies in memory; type "none" when not cached
  lock,     \* who holds each inode's lock
  filetab,  \* the inode and offset of each open file; history: the positions gone through
  fproc,    \* the call each process is in
  logged,   \* the blocks the transaction of each process has written
  want,     \* history: the contents that the calls were to produce
  calls,    \* calls made so far
  mkfs      \* freeblock, freeinode and what mkfs has still to append

dataVars == <<bitmap, data, dinode, inode, lock, filetab, fproc, logged, want, calls, mkfs>>

Zero   == [k \in 0 .. BSIZE - 1 |-> 0]
NoInode == [type |-> "none", size |-> 0, addrs |-> [k \in 0 .. NDIRECT |-> 0]]
Closed == [ip |-> 0, off |-> 0, through |-> {}]
NoCall == [pc |-> "", f |-> 0, n |-> 0, i |-> 0, off |-> 0, tot |-> 0]

(* mkfs main appends ".", ".." and, for each host file, its entry and then *)
(* its bytes.                                                              *)
Appends ==
  << <<ROOTINO, <<ROOTINO, ROOTINO>>>> >>
  \o FlattenSeq([k \in DOMAIN HostFiles |-> << <<ROOTINO, <<k + 1>>>>, <<k + 1, HostFiles[k]>> >>])

DataInit ==
  /\ bitmap = {} /\ data = [b \in Block |-> Zero]
  /\ dinode = [i \in Inum |-> NoInode]
  /\ inode = [i \in Inum |-> NoInode]
  /\ lock = [i \in Inum |-> NoLock]
  /\ filetab = [f \in File |-> Closed]
  /\ fproc = [p \in DataProc |-> NoCall]
  /\ logged = [p \in DataProc |-> {}]
  /\ want = [i \in Inum |-> <<>>]
  /\ calls = 0
  /\ mkfs = [freeblock |-> nmeta, freeinode |-> 1, todo |-> Appends]

-----------------------------------------------------------------------------
(* The block of an inode that holds byte off; 0 if there is none. *)
BlockAt(d, ip, off) ==
  LET bn == off \div BSIZE
  IN IF bn < NDIRECT THEN ip.addrs[bn]
     ELSE IF ip.addrs[NDIRECT] = 0 THEN 0 ELSE d[ip.addrs[NDIRECT]][bn - NDIRECT]

(* iappend of one byte: blocks come one after the other from freeblock. *)
iappend(s, byte) ==
  LET off   == s.ip.size
      bn    == off \div BSIZE
      ind   == s.ip.addrs[NDIRECT]
      needI == bn >= NDIRECT /\ ind = 0
      newI  == IF needI THEN s.free ELSE ind
      needB == BlockAt(s.data, s.ip, off) = 0
      b     == IF needB THEN s.free + (IF needI THEN 1 ELSE 0) ELSE BlockAt(s.data, s.ip, off)
      d     == IF bn >= NDIRECT THEN [s.data EXCEPT ![newI][bn - NDIRECT] = b] ELSE s.data
  IN [free |-> s.free + (IF needI THEN 1 ELSE 0) + (IF needB THEN 1 ELSE 0),
      data |-> [d EXCEPT ![b][off % BSIZE] = byte],
      ip   |-> [s.ip EXCEPT !.size = off + 1,
                            !.addrs = IF bn < NDIRECT THEN [@ EXCEPT ![bn] = b] ELSE [@ EXCEPT ![NDIRECT] = newI]]]

(* One call of iappend, behind ialloc if the inode is new. *)
mkfs_append ==
  /\ mkfs.todo # <<>>
  /\ LET i   == Head(mkfs.todo)[1]
         new == i >= mkfs.freeinode
         ip  == IF new THEN [NoInode EXCEPT !.type = IF i = ROOTINO THEN "dir" ELSE "file"] ELSE dinode[i]
         s   == FoldLeft(iappend, [free |-> mkfs.freeblock, data |-> data, ip |-> ip], Head(mkfs.todo)[2])
     IN /\ data' = s.data /\ dinode' = [dinode EXCEPT ![i] = s.ip]
        /\ want' = [want EXCEPT ![i] = @ \o Head(mkfs.todo)[2]]
        /\ mkfs' = [freeblock |-> s.free, freeinode |-> mkfs.freeinode + (IF new THEN 1 ELSE 0),
                    todo |-> Tail(mkfs.todo)]
  /\ UNCHANGED <<bitmap, inode, lock, filetab, fproc, logged, calls>>

(* balloc of mkfs. *)
InitialBitmap(used) == 0 .. used - 1

RootSize(off) == ((off \div BSIZE) + 1) * BSIZE

(* "fix size of root inode dir", write the bitmap, exit; the kernel boots. *)
mkfs_end ==
  /\ mkfs.todo = <<>> /\ bitmap = {}
  /\ dinode' = [dinode EXCEPT ![ROOTINO].size = RootSize(@)]
  /\ want' = [want EXCEPT ![ROOTINO] = @ \o [k \in 1 .. RootSize(Len(@)) - Len(@) |-> 0]]
  /\ bitmap' = InitialBitmap(mkfs.freeblock)
  /\ UNCHANGED <<data, inode, lock, filetab, fproc, logged, calls, mkfs>>

-----------------------------------------------------------------------------
(* What runs under ip->lock takes and returns the part of the state that   *)
(* it changes: the inode in memory and on the disk, bitmap and blocks, and *)
(* the blocks logged.                                                      *)
Part(p, i) == [bitmap |-> bitmap, data |-> data, log |-> logged[p], addr |-> 0, disk |-> dinode[i],
               ip |-> IF inode[i].type = "none" THEN dinode[i] ELSE inode[i]]

(* end_op; a transaction that wrote too many blocks leaves its mark. *)
EndOp(log) == IF Cardinality(log) <= MAXOPBLOCKS THEN {} ELSE log

(* The state after it.  p's transaction is over if last. *)
Put(p, i, d, last) ==
  /\ bitmap' = d.bitmap /\ data' = d.data
  /\ dinode' = [dinode EXCEPT ![i] = d.disk]
  /\ inode' = [inode EXCEPT ![i] = d.ip]
  /\ logged' = [logged EXCEPT ![p] = IF last THEN EndOp(d.log) ELSE d.log]

(* balloc with its bzero; a full disk, a panic, is beyond the bounds. *)
balloc(d) ==
  LET b == Min(Block \ d.bitmap)
  IN [d EXCEPT !.bitmap = @ \cup {b}, !.data[b] = Zero, !.log = @ \cup {BBLOCK, b}, !.addr = b]

(* Mutant: the address does not get into the indirect block. *)
SaveNothing(d, ind, k) == d

SaveIndirect(d, ind, k) == [d EXCEPT !.data[ind][k] = d.addr, !.log = @ \cup {ind}]

(* bmap: d.addr is the address of block bn, which it allocates if need be. *)
bmap(d, bn) ==
  IF bn < NDIRECT
    THEN IF d.ip.addrs[bn] # 0 THEN [d EXCEPT !.addr = d.ip.addrs[bn]]
         ELSE LET e == balloc(d) IN [e EXCEPT !.ip.addrs[bn] = e.addr]
    ELSE LET e   == IF d.ip.addrs[NDIRECT] # 0 THEN d
                    ELSE LET b == balloc(d) IN [b EXCEPT !.ip.addrs[NDIRECT] = b.addr]
             ind == e.ip.addrs[NDIRECT]
             k   == bn - NDIRECT
         IN IF e.data[ind][k] # 0 THEN [e EXCEPT !.addr = e.data[ind][k]]
                                  ELSE SaveIndirect(balloc(e), ind, k)

(* readi: what it reads, and the blocks that it maps for it. *)
ReadLen(ip, off, n) == IF off > ip.size THEN 0 ELSE Min({n, ip.size - off})
readi(d, off, n) ==
  FoldLeft(bmap, d, [k \in 1 .. (IF n = 0 THEN 0 ELSE (off + n - 1) \div BSIZE - off \div BSIZE + 1)
                       |-> off \div BSIZE + k - 1])
Bytes(d, ip, off, n) == [k \in 1 .. n |-> d[BlockAt(d, ip, off + k - 1)][(off + k - 1) % BSIZE]]

(* writei's tests in front of its loop. *)
writei_fails(ip, off, n) == off > ip.size \/ off + n > MAXFILE * BSIZE

(* One turn of writei's loop: bytes that fit into the block of off. *)
writei_block(d, off, bytes) ==
  LET e == bmap(d, off \div BSIZE)
      o == off % BSIZE
  IN [e EXCEPT !.data[e.addr] = [k \in DOMAIN @ |-> IF k - o + 1 \in DOMAIN bytes THEN bytes[k - o + 1] ELSE @[k]],
               !.log = @ \cup {e.addr}]

(* Mutant: the inode is not saved. *)
iupdate_not(d) == d

iupdate(d) == [d EXCEPT !.disk = d.ip, !.log = @ \cup {IBLOCK}]

(* writei behind its loop, which ended at off. *)
writei_end(d, off) == IF off > d.ip.size THEN iupdate([d EXCEPT !.ip.size = off]) ELSE d

Addrs(d, ip) ==
  {ip.addrs[k] : k \in 0 .. NDIRECT}
  \cup (IF ip.addrs[NDIRECT] = 0 THEN {} ELSE {d[ip.addrs[NDIRECT]][k] : k \in 0 .. NINDIRECT - 1})

(* Mutant: the blocks behind the indirect block are forgotten. *)
Direct(d, ip) == {ip.addrs[k] : k \in 0 .. NDIRECT}

Mapped(d, ip) == Addrs(d, ip) \ {0}

(* itrunc with its bfree's, and iput's type 0. *)
itrunc(d) == iupdate([d EXCEPT !.bitmap = @ \ Mapped(d.data, d.ip), !.ip = NoInode, !.log = @ \cup {BBLOCK}])

-----------------------------------------------------------------------------
(* Mutant: f->off, and what it points to, are used without the inode's     *)
(* lock.                                                                   *)
Unlocked_any(i) == TRUE

(* ilock waits for this. *)
Unlocked(i) == lock[i] = NoLock

Booted     == bitmap # {}
Ready(p)   == Booted /\ fproc[p] = NoCall /\ calls < MaxCalls /\ calls' = calls + 1
Opened(i)  == {f \in File : filetab[f].ip = i}
Overwrite(s, off, bytes) ==
  [k \in 1 .. Max({Len(s), off + Len(bytes)}) |-> IF k - off \in DOMAIN bytes THEN bytes[k - off] ELSE s[k]]

(* open with O_CREATE of a new file: ialloc, dirlink (its scan for a free  *)
(* entry reads the directory) and an open file at offset 0.                *)
create(p, f) ==
  /\ Ready(p) /\ filetab[f] = Closed /\ Unlocked(ROOTINO)
  /\ \E i \in Inum : dinode[i].type = "none"
  /\ LET i    == Min({j \in Inum : dinode[j].type = "none"})
         d    == Part(p, ROOTINO)
         free == {o \in 0 .. d.ip.size - 1 : BlockAt(data, d.ip, o) = 0 \/ data[BlockAt(data, d.ip, o)][o % BSIZE] = 0}
         off  == IF free = {} THEN d.ip.size ELSE Min(free)
         e    == readi(d, 0, Min({off + 1, d.ip.size}))
         g    == writei_end(writei_block(e, off, <<i>>), off + 1)
         new  == [NoInode EXCEPT !.type = "file"]
     IN /\ ~writei_fails(d.ip, off, 1)
        /\ bitmap' = g.bitmap /\ data' = g.data
        /\ logged' = [logged EXCEPT ![p] = EndOp(g.log \cup {IBLOCK})]
        /\ dinode' = [dinode EXCEPT ![ROOTINO] = g.disk, ![i] = new]
        /\ inode' = [inode EXCEPT ![ROOTINO] = g.ip, ![i] = new]
        /\ want' = [want EXCEPT ![ROOTINO] = Overwrite(@, off, <<i>>), ![i] = <<>>]
        /\ filetab' = [filetab EXCEPT ![f] = [Closed EXCEPT !.ip = i]]
  /\ UNCHANGED <<lock, fproc, mkfs>>

(* open of a file that is there. *)
open(p, f, i) ==
  /\ Ready(p) /\ filetab[f] = Closed /\ Unlocked(i) /\ dinode[i].type = "file"
  /\ filetab' = [filetab EXCEPT ![f] = [Closed EXCEPT !.ip = i]]
  /\ inode' = [inode EXCEPT ![i] = Part(p, i).ip]
  /\ UNCHANGED <<bitmap, data, dinode, lock, fproc, logged, want, mkfs>>

(* The last close; an entry of the inode cache is given up with it. *)
close(p, f) ==
  /\ Booted /\ fproc[p] = NoCall /\ filetab[f] # Closed
  /\ \A q \in DataProc : fproc[q].pc # "" => fproc[q].f # f
  /\ filetab' = [filetab EXCEPT ![f] = Closed]
  /\ inode' = IF Cardinality(Opened(filetab[f].ip)) = 1 THEN [inode EXCEPT ![filetab[f].ip] = NoInode] ELSE inode
  /\ UNCHANGED <<bitmap, data, dinode, lock, fproc, logged, want, calls, mkfs>>

(* unlink of the only name of a file that is not open: the entry is        *)
(* cleared, and iput frees the inode.                                      *)
unlink(p, i) ==
  /\ Ready(p) /\ i # ROOTINO /\ dinode[i].type = "file" /\ Opened(i) = {} /\ Unlocked(ROOTINO)
  /\ LET d   == Part(p, ROOTINO)
         off == Min({o \in 0 .. d.ip.size - 1 : Bytes(data, d.ip, o, 1) = <<i>>})
         e   == writei_block(d, off, <<0>>)
         g   == itrunc([e EXCEPT !.ip = dinode[i]])
     IN /\ bitmap' = g.bitmap /\ data' = g.data
        /\ logged' = [logged EXCEPT ![p] = EndOp(g.log)]
        /\ dinode' = [dinode EXCEPT ![i] = g.disk]
        /\ inode' = [inode EXCEPT ![ROOTINO] = e.ip]
        /\ want' = [want EXCEPT ![ROOTINO] = Overwrite(@, off, <<0>>), ![i] = <<>>]
  /\ UNCHANGED <<lock, filetab, fproc, mkfs>>

(* fileread of n bytes. *)
fileread(p, f, n) ==
  /\ Ready(p) /\ filetab[f] # Closed /\ Unlocked(filetab[f].ip)
  /\ LET i == filetab[f].ip
         d == Part(p, i)
         o == filetab[f].off
         r == ReadLen(d.ip, o, n)
     IN /\ Put(p, i, readi(d, o, r), TRUE)
        /\ filetab' = [filetab EXCEPT ![f].off = o + r, ![f].through = @ \cup (o .. o + r - 1)]
  /\ UNCHANGED <<lock, fproc, want, mkfs>>

filewrite(p, f, n) ==
  /\ Ready(p) /\ filetab[f] # Closed
  /\ fproc' = [fproc EXCEPT ![p] = [NoCall EXCEPT !.pc = "chunk", !.f = f, !.n = n]]
  /\ UNCHANGED <<bitmap, data, dinode, inode, lock, filetab, logged, want, mkfs>>

(* Mutant: room is kept for the blocks, and not for what describes them. *)
max_blocks == MAXOPBLOCKS * BSIZE

(* filewrite: what one transaction writes at most. *)
max == ((MAXOPBLOCKS - 1 - 1 - 2) \div 2) * BSIZE

(* Mutant: the last chunk is as large as the others. *)
Chunk_max(p) == max

Chunk(p) == Min({fproc[p].n - fproc[p].i, max})

(* The byte that p writes at position k of its buffer. *)
Byte(p, k) == 10 * p + k

(* begin_op, ilock, and writei up to its loop; or the write has failed. *)
filewrite_chunk(p) ==
  /\ fproc[p].pc = "chunk"
  /\ LET f   == fproc[p].f
         i   == filetab[f].ip
         off == filetab[f].off
     IN /\ Unlocked(i)
        /\ IF writei_fails(Part(p, i).ip, off, Chunk(p))
             THEN fproc' = [fproc EXCEPT ![p] = NoCall] /\ UNCHANGED <<lock, want>>
             ELSE /\ lock' = [lock EXCEPT ![i] = p]
                  /\ fproc' = [fproc EXCEPT ![p].pc = "writei", ![p].off = off]
                  /\ want' = [want EXCEPT ![i] =
                       Overwrite(@, off, [k \in 1 .. Chunk(p) |-> Byte(p, fproc[p].i + k)])]
  /\ UNCHANGED <<bitmap, data, dinode, inode, filetab, logged, calls, mkfs>>

(* Mutant: the offset moves on by the bytes of the last block only. *)
Advance_last(o, r, m) == o + m

Advance(o, r, m) == o + r

(* One turn of writei's loop, behind the last one the end of the chunk. *)
filewrite_block(p) ==
  /\ fproc[p].pc = "writei"
  /\ LET f    == fproc[p].f
         i    == filetab[f].ip
         tot  == fproc[p].tot
         off  == fproc[p].off
         m    == Min({Chunk(p) - tot, BSIZE - (off % BSIZE)})
         last == tot + m = Chunk(p)
         past == filetab[f].through \cup (off .. off + m - 1)
         d    == writei_block(Part(p, i), off, [k \in 1 .. m |-> Byte(p, fproc[p].i + tot + k)])
     IN IF ~last
          THEN /\ Put(p, i, d, FALSE)
               /\ fproc' = [fproc EXCEPT ![p].tot = tot + m, ![p].off = off + m]
               /\ filetab' = [filetab EXCEPT ![f].through = past]
               /\ UNCHANGED lock
          ELSE /\ Put(p, i, writei_end(d, off + m), TRUE)
               /\ lock' = [lock EXCEPT ![i] = NoLock]
               /\ filetab' = [filetab EXCEPT ![f].off = Advance(@, Chunk(p), m), ![f].through = past]
               /\ fproc' = [fproc EXCEPT ![p] = IF fproc[p].i + Chunk(p) = fproc[p].n THEN NoCall
                              ELSE [@ EXCEPT !.pc = "chunk", !.i = @ + Chunk(p), !.off = 0, !.tot = 0]]
  /\ UNCHANGED <<want, calls, mkfs>>

(* A crash loses what is in memory, at a moment without a transaction. *)
crash ==
  /\ Booted /\ \A p \in DataProc : fproc[p].pc # "writei"
  /\ inode' = [i \in Inum |-> NoInode]
  /\ filetab' = [f \in File |-> Closed]
  /\ fproc' = [p \in DataProc |-> NoCall]
  /\ UNCHANGED <<bitmap, data, dinode, lock, logged, want, calls, mkfs>>

DataNext ==
  \/ mkfs_append \/ mkfs_end \/ crash
  \/ \E p \in DataProc :
       \/ filewrite_chunk(p) \/ filewrite_block(p)
       \/ \E i \in Inum : unlink(p, i)
       \/ \E f \in File : \/ create(p, f) \/ close(p, f)
                          \/ \E i \in Inum : open(p, f, i)
                          \/ \E n \in Sizes : fileread(p, f, n) \/ filewrite(p, f, n)

DataSpec == DataInit /\ [][DataNext]_dataVars

-----------------------------------------------------------------------------
(* The shape of blocks, inodes and calls. *)
DataTypeOK ==
  /\ bitmap \subseteq Block
  /\ data \in [Block -> [0 .. BSIZE - 1 -> Nat]]
  /\ \A i \in Inum, t \in {dinode, inode} :
       t[i].type \in {"none", "dir", "file"} /\ t[i].size \in 0 .. MAXFILE * BSIZE /\ Addrs(data, t[i]) \subseteq Block
  /\ lock \in [Inum -> 0 .. NPROC]
  /\ \A f \in File : filetab[f].ip \in 0 .. NINODES /\ filetab[f].off \in 0 .. MAXFILE * BSIZE
  /\ \A p \in DataProc : fproc[p].pc \in {"", "chunk", "writei"} /\ fproc[p].i + fproc[p].tot <= fproc[p].n

Live(i) == IF inode[i].type = "none" THEN dinode[i] ELSE inode[i]

(* The bitmap is exact: the blocks of files and the root, each in one of   *)
(* them and in one place only, and the metadata.  So it is while several   *)
(* processes write, after itrunc, after a crash and as mkfs left it.       *)
BlocksOwned ==
  Booted =>
    /\ bitmap = 0 .. nmeta - 1 \cup UNION {Mapped(data, Live(i)) : i \in Inum}
    /\ \A i, j \in Inum : i # j => Mapped(data, Live(i)) \cap Mapped(data, Live(j)) = {}
    /\ \A i \in Inum : \A o \in 0 .. MAXFILE - 1 :
         LET a == BlockAt(data, Live(i), o * BSIZE)
         IN a # 0 => /\ a # Live(i).addrs[NDIRECT]
                     /\ \A q \in 0 .. o - 1 : a # BlockAt(data, Live(i), q * BSIZE)

(* fs.c:217-219: the disk has every change that was made to an inode in    *)
(* memory once its lock is free.                                           *)
WriteThrough ==
  \A i \in Inum : inode[i].type # "none" /\ lock[i] = NoLock => inode[i] = dinode[i]

(* A file holds what was written to it, byte for byte, up to its size, and *)
(* the root the entries made in it: by one process or several at a time,   *)
(* in chunks, over block ends, through the indirect block, after a reboot, *)
(* and also what mkfs put there.                                           *)
ContentsAsWritten ==
  Booted => \A i \in Inum : lock[i] = NoLock => Bytes(data, Live(i), 0, Live(i).size) = want[i]

(* No transaction writes more than MAXOPBLOCKS blocks (file.c:128-131). *)
FitsTransaction == \A p \in DataProc : Cardinality(logged[p]) <= MAXOPBLOCKS

(* However many processes read and write through one open file, in chunks  *)
(* and at the same time, they go through it together: each position up to  *)
(* the offset has been read or written, by one of them, and none twice     *)
(* (the offset counts the bytes), for f->off is read and moved on under    *)
(* one hold of the inode's lock.                                           *)
SharedOffset ==
  \A f \in File : filetab[f] # Closed /\ lock[filetab[f].ip] = NoLock => filetab[f].through = 0 .. filetab[f].off - 1

(* What fs.c keeps of blocks and inodes: an exact bitmap, a disk that is   *)
(* up to date, and transactions that fit the log.                          *)
FileDataInv == DataTypeOK /\ BlocksOwned /\ WriteThrough /\ FitsTransaction
=============================================================================
