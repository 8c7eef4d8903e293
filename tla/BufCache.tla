------------------------------ MODULE BufCache ------------------------------
(***************************************************************************)
(* The buffer cache of bio.c over the disk queue of ide.c, with the sleep  *)
(* locks of sleeplock.c that buffers carry.                                *)
(*                                                                         *)
(* A critical section of bcache.lock, of a buffer's sleep lock or of       *)
(* idelock is one action.  A process holds one buffer at a time.  As the   *)
(* log does, a process that changes a buffer passes it to log_write, which *)
(* pins it with B_DIRTY, or to bwrite before it releases it.               *)
(***************************************************************************)
EXTENDS Integers, Sequences, FiniteSets

CONSTANTS
  Proc, NoProc,  \* processes; "nobody"
  NBUF,          \* buffers
  Block,         \* (dev, blockno) pairs that processes use
  NoBlock,       \* the pair (0, 0) of a buffer never used
  Val, Zero,     \* contents of a block; those of a buffer never used
  DiskOk,        \* outcomes of a read: TRUE, and FALSE if the disk may fail
  MaxPin         \* buffers the log keeps pinned at one time

ASSUME BufAssumption ==
  /\ NBUF \in Nat /\ MaxPin \in Nat /\ NoBlock \notin Block /\ NoProc \notin Proc
  /\ Zero \in Val /\ DiskOk \subseteq BOOLEAN
  /\ IsFiniteSet(Proc)

Buf   == 1 .. NBUF
NoBuf == 0

VARIABLES
  blockno, valid, dirty, refcnt, data,  \* struct buf; flags as two Booleans
  locked,    \* b->lock.locked
  lru,       \* bcache.head's list, most recently used first
  idequeue,  \* the disk queue
  active,    \* the buffer the disk is working on
  disk,      \* contents of the disk
  pc,        \* where each process is
  cur,       \* the buffer each process uses
  panicked

bufs  == <<blockno, valid, dirty, refcnt, data, locked>>
io    == <<idequeue, active, disk>>
vars  == <<bufs, lru, io, pc, cur, panicked>>

Pcs == {"idle", "lock", "lockwait", "iderw", "iowait", "iowake", "use", "changed", "deref"}

(* binit: an empty cache, the last buffer at the head of the list. *)
Init ==
  /\ blockno = [b \in Buf |-> NoBlock]
  /\ valid = [b \in Buf |-> FALSE] /\ dirty = [b \in Buf |-> FALSE]
  /\ refcnt = [b \in Buf |-> 0]
  /\ data = [b \in Buf |-> Zero]
  /\ locked = [b \in Buf |-> FALSE]
  /\ lru = [i \in Buf |-> NBUF + 1 - i]
  /\ idequeue = <<>> /\ active = NoBuf
  /\ disk \in [Block -> Val]
  /\ pc = [p \in Proc |-> "idle"]
  /\ cur = [p \in Proc |-> NoBuf]
  /\ panicked = FALSE

At(p, l) == ~panicked /\ pc[p] = l

Goto(p, l) == pc' = [pc EXCEPT ![p] = l]

-----------------------------------------------------------------------------
(* Mutant: a pinned buffer may be recycled. *)
UnusedPinned(b) == refcnt[b] = 0

(* Mutant: the lookup passes over buffers nobody uses. *)
HoldsUsed(b, k) == blockno[b] = k /\ refcnt[b] > 0

(* bget's test of a cached buffer. *)
Holds(b, k) == blockno[b] = k

(* A buffer bget may recycle. *)
Unused(b) == refcnt[b] = 0 /\ ~dirty[b]

(* Where a loop over the list stops: forward for a cached buffer, backward *)
(* for one to recycle.                                                     *)
First(S) == {i \in S : \A j \in S : i <= j}
Last(S)  == {i \in S : \A j \in S : j <= i}

(* bget, up to the release of bcache.lock. *)
bget(p, k) ==
  /\ At(p, "idle")
  /\ LET cached == {i \in Buf : Holds(lru[i], k)}
         unused == {i \in Buf : Unused(lru[i])}
     IN \/ /\ \E i \in First(cached) :
                /\ refcnt' = [refcnt EXCEPT ![lru[i]] = @ + 1]
                /\ cur' = [cur EXCEPT ![p] = lru[i]]
           /\ Goto(p, "lock")
           /\ UNCHANGED <<blockno, valid, dirty, panicked>>
        \/ /\ cached = {}
           /\ \E i \in Last(unused) :
                /\ blockno' = [blockno EXCEPT ![lru[i]] = k]
                /\ valid' = [valid EXCEPT ![lru[i]] = FALSE]
                /\ dirty' = [dirty EXCEPT ![lru[i]] = FALSE]
                /\ refcnt' = [refcnt EXCEPT ![lru[i]] = 1]
                /\ cur' = [cur EXCEPT ![p] = lru[i]]
           /\ Goto(p, "lock")
           /\ UNCHANGED panicked
        \/ /\ cached = {} /\ unused = {}
           /\ panicked' = TRUE                     \* panic("bget: no buffers")
           /\ UNCHANGED <<blockno, valid, dirty, refcnt, cur, pc>>
  /\ UNCHANGED <<data, locked, lru, io>>

(* acquiresleep, and bread's test of B_VALID by the new owner. *)
acquiresleep(p) ==
  /\ At(p, "lock")
  /\ IF locked[cur[p]]
       THEN Goto(p, "lockwait") /\ UNCHANGED locked
       ELSE /\ locked' = [locked EXCEPT ![cur[p]] = TRUE]
            /\ Goto(p, IF valid[cur[p]] THEN "use" ELSE "iderw")
  /\ UNCHANGED <<blockno, valid, dirty, refcnt, data, lru, io, cur, panicked>>

(* iderw up to its first sleep: queue the buffer, start an idle disk. *)
iderw(p) ==
  /\ At(p, "iderw")
  /\ idequeue' = Append(idequeue, cur[p])
  /\ active' = IF idequeue = <<>> THEN cur[p] ELSE active
  /\ Goto(p, "iowait")
  /\ UNCHANGED <<bufs, lru, disk, cur, panicked>>

(* Mutant: the awakened process trusts the wakeup. *)
IoFinishedAlways(b) == TRUE

IoFinished(b) == valid[b] /\ ~dirty[b]

(* iderw after a wakeup: test the flags again. *)
iderw_test(p) ==
  /\ At(p, "iowake")
  /\ Goto(p, IF IoFinished(cur[p]) THEN "use" ELSE "iowait")
  /\ UNCHANGED <<bufs, lru, io, cur, panicked>>

(* wakeup(chan): processes in pc "from" on buffer b go on at "to". *)
Wake(pcs, from, to, b) ==
  [p \in Proc |-> IF pcs[p] = from /\ cur[p] = b THEN to ELSE pcs[p]]

(* Mutant: the disk is left idle although requests are queued. *)
StartNothing(q) == NoBuf

StartNext(q) == IF q = <<>> THEN NoBuf ELSE Head(q)

(* The disk finishes the request idestart gave it, and ideintr runs.  A    *)
(* read that failed leaves the data alone but is marked valid all the same.*)
ideintr(ok) ==
  /\ ~panicked /\ active # NoBuf /\ idequeue # <<>>
  /\ LET b == Head(idequeue)
     IN /\ IF dirty[b]
             THEN disk' = [disk EXCEPT ![blockno[active]] = data[active]] /\ UNCHANGED data
             ELSE data' = [data EXCEPT ![b] = IF ok THEN disk[blockno[active]] ELSE @] /\ UNCHANGED disk
        /\ valid' = [valid EXCEPT ![b] = TRUE]
        /\ dirty' = [dirty EXCEPT ![b] = FALSE]
        /\ pc' = Wake(pc, "iowait", "iowake", b)
  /\ idequeue' = Tail(idequeue)
  /\ active' = StartNext(Tail(idequeue))
  /\ UNCHANGED <<blockno, refcnt, locked, lru, cur, panicked>>

(* kill makes a sleeping process RUNNABLE; both sleeps are in loops. *)
kill(p) ==
  /\ ~panicked /\ pc[p] \in {"lockwait", "iowait"}
  /\ Goto(p, IF pc[p] = "lockwait" THEN "lock" ELSE "iowake")
  /\ UNCHANGED <<bufs, lru, io, cur, panicked>>

-----------------------------------------------------------------------------
(* The owner changes the contents. *)
change(p, v) ==
  /\ ~panicked /\ pc[p] \in {"use", "changed"}
  /\ data' = [data EXCEPT ![cur[p]] = v]
  /\ Goto(p, "changed")
  /\ UNCHANGED <<blockno, valid, dirty, refcnt, locked, lru, io, cur, panicked>>

Pinned == {b \in Buf : dirty[b] /\ \A p \in Proc : cur[p] = b => pc[p] \notin {"iderw", "iowait", "iowake"}}

(* Mutant: the buffer is not pinned. *)
log_write_unpinned(p) ==
  /\ At(p, "changed")
  /\ Goto(p, "use")
  /\ UNCHANGED <<bufs, lru, io, cur, panicked>>

(* log_write: B_DIRTY keeps the buffer until the log has installed it. *)
log_write(p) ==
  /\ At(p, "changed")
  /\ dirty[cur[p]] \/ Cardinality(Pinned) < MaxPin
  /\ dirty' = [dirty EXCEPT ![cur[p]] = TRUE]
  /\ Goto(p, "use")
  /\ UNCHANGED <<blockno, valid, refcnt, data, locked, lru, io, cur, panicked>>

bwrite(p) ==
  /\ ~panicked /\ pc[p] \in {"use", "changed"}
  /\ dirty' = [dirty EXCEPT ![cur[p]] = TRUE]
  /\ Goto(p, "iderw")
  /\ UNCHANGED <<blockno, valid, refcnt, data, locked, lru, io, cur, panicked>>

(* brelse first releases the sleep lock ... *)
releasesleep(p) ==
  /\ At(p, "use")
  /\ locked' = [locked EXCEPT ![cur[p]] = FALSE]
  /\ pc' = Wake([pc EXCEPT ![p] = "deref"], "lockwait", "lock", cur[p])
  /\ UNCHANGED <<blockno, valid, dirty, refcnt, data, lru, io, cur, panicked>>

(* Mutants: other users are forgotten, the reference is kept or dropped    *)
(* twice.                                                                  *)
DropAll(n) == 0

DropNone(n) == n

DropTwo(n) == n - 2

Drop(n) == n - 1

(* The buffer goes to the head of the list. *)
MoveToFront(b) ==
  LET j == CHOOSE i \in Buf : lru[i] = b
  IN [i \in Buf |-> IF i = 1 THEN b ELSE IF i <= j THEN lru[i - 1] ELSE lru[i]]

(* ... then, under bcache.lock, drop the reference; an unused buffer       *)
(* becomes the most recently used one.                                     *)
brelse(p) ==
  /\ At(p, "deref")
  /\ LET b == cur[p]
     IN /\ refcnt' = [refcnt EXCEPT ![b] = Drop(@)]
        /\ lru' = IF refcnt'[b] = 0 THEN MoveToFront(b) ELSE lru
  /\ cur' = [cur EXCEPT ![p] = NoBuf]
  /\ Goto(p, "idle")
  /\ UNCHANGED <<blockno, valid, dirty, data, locked, io, panicked>>

-----------------------------------------------------------------------------
Step(p) ==
  \/ \E k \in Block : bget(p, k)
  \/ acquiresleep(p) \/ iderw(p) \/ iderw_test(p) \/ kill(p)
  \/ (\E v \in Val : change(p, v)) \/ log_write(p) \/ bwrite(p)
  \/ releasesleep(p) \/ brelse(p)

Next == (\E ok \in DiskOk : ideintr(ok)) \/ \E p \in Proc : Step(p)

Spec == Init /\ [][Next]_vars

-----------------------------------------------------------------------------
(* The types of the buffers, the disk queue and the processes that use them. *)
FlagsOK == valid \in [Buf -> BOOLEAN] /\ dirty \in [Buf -> BOOLEAN] /\ locked \in [Buf -> BOOLEAN]
BlockOK == blockno \in [Buf -> Block \cup {NoBlock}] /\ refcnt \in [Buf -> Nat]
DataOK  == data \in [Buf -> Val] /\ disk \in [Block -> Val]
ListOK  == lru \in [Buf -> Buf] /\ idequeue \in Seq(Buf) /\ active \in Buf \cup {NoBuf}
ProcOK  == pc \in [Proc -> Pcs] /\ cur \in [Proc -> Buf \cup {NoBuf}] /\ panicked \in BOOLEAN
TypeOK  == FlagsOK /\ BlockOK /\ DataOK /\ ListOK /\ ProcOK

(* Processes between acquiresleep and releasesleep own their buffer. *)
Owns(p) == pc[p] \in {"iderw", "iowait", "iowake", "use", "changed"}

(* What a process that reads block k now would get. *)
Latest(k) ==
  LET copies == {b \in Buf : blockno[b] = k /\ valid[b]}
  IN IF copies = {} THEN disk[k] ELSE data[CHOOSE b \in copies : TRUE]

HolderOf(k) ==
  LET owners == {p \in Proc : Owns(p) /\ blockno[cur[p]] = k}
  IN IF owners = {} THEN NoProc ELSE CHOOSE p \in owners : TRUE

B == INSTANCE BlockStore WITH
       contents <- [k \in Block |-> Latest(k)],
       holder   <- [k \in Block |-> HolderOf(k)]

(* The cache is a store with one copy of each block, which only its holder *)
(* changes: recycling a buffer (bget), reading and writing (ideintr) never *)
(* lose or change what a process wrote.                                    *)
Implements == B!Spec

(* A block is cached in at most one buffer (the reason bget recycles and   *)
(* looks up under one hold of bcache.lock).                                *)
OneCopy ==
  \A a, b \in Buf : a # b /\ blockno[a] = blockno[b] => blockno[a] = NoBlock

(* refcnt counts the processes between bget and the end of brelse, and a   *)
(* locked buffer is owned by exactly one of them.                          *)
RefsCounted ==
  \A b \in Buf :
    /\ refcnt[b] = Cardinality({p \in Proc : cur[p] = b})
    /\ Cardinality({p \in Proc : cur[p] = b /\ Owns(p)}) = IF locked[b] THEN 1 ELSE 0

(* Nobody waits for what has already happened: a sleeper in acquiresleep   *)
(* has a locked buffer, a sleeper in iderw a queued one, and the disk works*)
(* on the first of the queue, whatever kill wakes in between.              *)
NoMissedWakeup ==
  /\ \A p \in Proc : pc[p] = "lockwait" => locked[cur[p]]
  /\ \A p \in Proc : pc[p] = "iowait" => \E i \in DOMAIN idequeue : idequeue[i] = cur[p]
  /\ active = IF idequeue = <<>> THEN NoBuf ELSE Head(idequeue)

(* A buffer in use has been read: bread returns the block's contents.      *)
UsersSeeValid ==
  \A p \in Proc : pc[p] \in {"use", "changed"} => valid[cur[p]]

(* A valid buffer that is neither pinned nor being changed equals the disk,*)
(* so that bget may recycle it.                                            *)
CleanMeansStored ==
  \A b \in Buf :
    valid[b] /\ ~dirty[b] /\ (\A p \in Proc : cur[p] = b => pc[p] # "changed")
      => data[b] = disk[blockno[b]]

(* bget finds a buffer as long as the cache has one for every process      *)
(* beside the pinned ones (bget's panic "no buffers").                     *)
NoPanic == MaxPin + Cardinality(Proc) <= NBUF => ~panicked

-----------------------------------------------------------------------------
(* The inductive strengthening, in named parts. *)

Queued(b) == \E i \in 1 .. Len(idequeue) : idequeue[i] = b

(* The list has every buffer. *)
LruInv == \A b \in Buf : \E i \in Buf : lru[i] = b

(* A process has a buffer from bget to brelse; a sleep lock has one owner. *)
UseInv ==
  /\ \A p \in Proc : IF pc[p] = "idle" THEN cur[p] = NoBuf ELSE cur[p] \in Buf /\ blockno[cur[p]] \in Block
  /\ \A p, q \in Proc : Owns(p) /\ Owns(q) /\ cur[p] = cur[q] => p = q
  /\ \A b \in Buf : locked[b] <=> \E p \in Proc : Owns(p) /\ cur[p] = b

(* refcnt is exact. *)
CountInv == \A b \in Buf : refcnt[b] = Cardinality({p \in Proc : cur[p] = b})

(* Sleepers in acquiresleep. *)
WaitInv == \A p \in Proc : pc[p] = "lockwait" => locked[cur[p]]

(* What is valid is a block; what is dirty is valid. *)
FlagInv == \A b \in Buf : (valid[b] => blockno[b] \in Block) /\ (dirty[b] => valid[b])

(* A buffer is in the disk queue, once, from iderw until its request is    *)
(* done, and a process waits there for it.                                 *)
QueueInv ==
  /\ \A i, j \in 1 .. Len(idequeue) : idequeue[i] = idequeue[j] => i = j
  /\ \A b \in Buf : Queued(b) => \E p \in Proc : pc[p] \in {"iowait", "iowake"} /\ cur[p] = b
  /\ \A p \in Proc : pc[p] = "iderw" => ~IoFinished(cur[p])
  /\ \A p \in Proc : pc[p] \in {"iowait", "iowake"} => (Queued(cur[p]) <=> ~IoFinished(cur[p]))
  /\ \A p \in Proc : pc[p] = "iowait" => Queued(cur[p])
  /\ active = IF idequeue = <<>> THEN NoBuf ELSE Head(idequeue)

(* The log keeps its promise. *)
PinInv == Cardinality(Pinned) <= MaxPin

(* The invariant without the numbers in it. *)
Core ==
  /\ TypeOK /\ OneCopy /\ LruInv /\ UseInv /\ FlagInv /\ QueueInv /\ WaitInv
  /\ UsersSeeValid /\ CleanMeansStored

(* What bio.c keeps between its critical sections: one copy, exact counts, *)
(* valid data for users, and nothing lost by recycling.                    *)
CacheInv == Core /\ CountInv /\ PinInv /\ RefsCounted /\ NoPanic
=============================================================================
