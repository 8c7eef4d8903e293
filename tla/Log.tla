-------------------------------- MODULE Log --------------------------------
(***************************************************************************)
(* The write-ahead log of log.c, with crashes.                             *)
(*                                                                         *)
(* Blocks are numbered from the log header (log.start = 0): the header is  *)
(* kept in dhead, blocks 1..nlog-1 are the log's data blocks and blocks    *)
(* nlog..FSSIZE-1 are the home blocks of the file system.  A bwrite is one *)
(* atomic write of one block (bio.c and ide.c wait for its completion).    *)
(* cache[b] is what bread(b) returns.  Critical sections of log.lock are   *)
(* single actions; everything the code does outside the lock is a step of  *)
(* its own when another process could see the difference.                  *)
(***************************************************************************)
EXTENDS Integers, Sequences, FiniteSets, Functions

CONSTANTS
  Proc,         \* processes issuing file-system calls
  Val,          \* contents of a block
  ZeroBlock,    \* the contents mkfs leaves
  MAXOPBLOCKS,  \* blocks begin_op reserves for one call
  LOGSIZE,      \* capacity begin_op and log_write assume
  nlog,         \* blocks mkfs gives the log, the header included (log.size)
  FSSIZE,       \* size of the disk in blocks
  OpBlocks,     \* the most distinct blocks one call really logs
  NoBlock       \* "holds no buffer"

ASSUME ProcAssumption == IsFiniteSet(Proc)
ASSUME ValAssumption == ZeroBlock \in Val
ASSUME SizeAssumption ==
  /\ MAXOPBLOCKS \in Nat /\ LOGSIZE \in Nat /\ nlog \in Nat
  /\ FSSIZE \in Nat /\ OpBlocks \in Nat
  /\ 0 < MAXOPBLOCKS /\ MAXOPBLOCKS <= LOGSIZE
  /\ OpBlocks <= MAXOPBLOCKS
  /\ 1 < nlog /\ nlog < FSSIZE
ASSUME NoBlockAssumption == NoBlock \notin Int

Blocks == 1 .. FSSIZE-1
Home   == nlog .. FSSIZE-1

VARIABLES
  disk,        \* contents of blocks 1..FSSIZE-1 on the disk
  dhead,       \* the header block on the disk: its first n block numbers
  cache,       \* contents of every block as bread returns it
  pinned,      \* blocks whose buffer has B_DIRTY set
  lh,          \* log.lh: block numbers of the current transaction
  outstanding, \* log.outstanding
  committing,  \* log.committing
  tail,        \* loop index of write_log / install_trans
  pc,          \* where each process is
  held,        \* buffer a process has locked between bread and brelse
  logged,      \* blocks the process's current call has logged
  boot,        \* progress of initlog after a (re)boot
  panicked     \* panic() has stopped the machine

diskVars == <<disk, dhead>>
logVars  == <<lh, outstanding, committing>>
opVars   == <<pc, held, logged>>
vars == <<diskVars, cache, pinned, logVars, tail, opVars, boot, panicked>>

InOp      == {p \in Proc : pc[p] \in {"op", "record"}}
CommitPcs == {"write_log", "write_head", "install", "clear", "finish"}
Pcs       == {"user", "begin", "sleep", "op", "record"} \cup CommitPcs

Init ==
  /\ disk = [b \in Blocks |-> ZeroBlock]
  /\ dhead = <<>>
  /\ cache = disk
  /\ pinned = {}
  /\ lh = <<>>
  /\ outstanding = 0
  /\ committing = FALSE
  /\ tail = 0
  /\ pc = [p \in Proc |-> "user"]
  /\ held = [p \in Proc |-> NoBlock]
  /\ logged = [p \in Proc |-> {}]
  /\ boot = "read_head"
  /\ panicked = FALSE

Running == boot = "up" /\ ~panicked

(* Mutant: a wakeup that never happens. *)
NoWakeup(pcs) == pcs

(* wakeup(&log): every process asleep in begin_op tests again. *)
wakeup(pcs) == [q \in Proc |-> IF pcs[q] = "sleep" THEN "begin" ELSE pcs[q]]

-----------------------------------------------------------------------------
(* Mutant: reserves space for the new call only. *)
ReserveOne == ~committing /\ Len(lh) + MAXOPBLOCKS <= LOGSIZE

(* The admission test of begin_op. *)
CanBegin == ~committing /\ Len(lh) + (outstanding+1) * MAXOPBLOCKS <= LOGSIZE

(* Mutant: the call is admitted but not counted. *)
Uncounted == outstanding

CountOp == outstanding + 1

begin_op(p) ==
  /\ Running
  /\ pc[p] \in {"user", "begin"}
  /\ \/ /\ CanBegin
        /\ outstanding' = CountOp
        /\ pc' = [pc EXCEPT ![p] = "op"]
     \/ /\ ~CanBegin
        /\ pc' = [pc EXCEPT ![p] = "sleep"]
        /\ UNCHANGED outstanding
  /\ UNCHANGED <<diskVars, cache, pinned, lh, committing, tail, held, logged, boot, panicked>>

(* bread(b), modify the data, and log_write's tests, which run before      *)
(* log.lock is taken: another process may append between them and record.  *)
log_write_test(p, b, v) ==
  /\ Running
  /\ pc[p] = "op"
  /\ \A q \in Proc : held[q] # b
  /\ b \in logged[p] \/ Cardinality(logged[p]) < OpBlocks
  /\ cache' = [cache EXCEPT ![b] = v]
  /\ IF Len(lh) >= LOGSIZE \/ Len(lh) >= nlog - 1 \/ outstanding < 1
       THEN panicked' = TRUE /\ UNCHANGED <<pc, held>>
       ELSE /\ pc' = [pc EXCEPT ![p] = "record"]
            /\ held' = [held EXCEPT ![p] = b]
            /\ UNCHANGED panicked
  /\ UNCHANGED <<diskVars, pinned, logVars, tail, logged, boot>>

(* Mutant: no absorption, a block logged twice takes two log blocks. *)
AlwaysAppend(b) == Append(lh, b)

Absorb(b) == IF b \in Range(lh) THEN lh ELSE Append(lh, b)

(* Mutant: B_DIRTY is not set, the buffer may be recycled. *)
NoPin(b) == pinned

Pin(b) == pinned \cup {b}

(* The rest of log_write, under log.lock: absorb or append, pin; then brelse. *)
log_write(p) ==
  /\ Running
  /\ pc[p] = "record"
  /\ lh' = Absorb(held[p])
  /\ pinned' = Pin(held[p])
  /\ logged' = [logged EXCEPT ![p] = @ \cup {held[p]}]
  /\ held' = [held EXCEPT ![p] = NoBlock]
  /\ pc' = [pc EXCEPT ![p] = "op"]
  /\ UNCHANGED <<diskVars, cache, outstanding, committing, tail, boot, panicked>>

(* Mutant: the header is written before the log blocks. *)
HeadFirst == IF lh = <<>> THEN "finish" ELSE "write_head"

(* Where commit() starts: nothing to do when the transaction is empty. *)
CommitStart == IF lh = <<>> THEN "finish" ELSE "write_log"

(* end_op up to the release of log.lock, and commit's test of lh.n. *)
end_op(p) ==
  /\ Running
  /\ pc[p] = "op"
  /\ outstanding' = outstanding - 1
  /\ logged' = [logged EXCEPT ![p] = {}]
  /\ IF committing
       THEN panicked' = TRUE /\ UNCHANGED <<committing, tail, pc>>
       ELSE /\ UNCHANGED panicked
            /\ \/ /\ outstanding = 1
                  /\ committing' = TRUE
                  /\ tail' = 0
                  /\ pc' = [pc EXCEPT ![p] = CommitStart]
               \/ /\ outstanding # 1
                  /\ pc' = wakeup([pc EXCEPT ![p] = "user"])
                  /\ UNCHANGED <<committing, tail>>
  /\ UNCHANGED <<diskVars, cache, pinned, lh, held, boot>>

(* One iteration of write_log: copy a cached block to its log block. *)
write_log(p) ==
  /\ Running
  /\ pc[p] = "write_log"
  /\ LET t == tail + 1 IN
       /\ cache' = [cache EXCEPT ![t] = cache[lh[t]]]
       /\ disk' = [disk EXCEPT ![t] = cache[lh[t]]]
       /\ tail' = t
       /\ pc' = IF t = Len(lh) THEN [pc EXCEPT ![p] = "write_head"] ELSE pc
  /\ UNCHANGED <<dhead, pinned, logVars, held, logged, boot, panicked>>

(* The commit point: the header block reaches the disk. *)
write_head(p) ==
  /\ Running
  /\ pc[p] = "write_head"
  /\ dhead' = lh
  /\ tail' = 0
  /\ pc' = [pc EXCEPT ![p] = "install"]
  /\ UNCHANGED <<disk, cache, pinned, logVars, held, logged, boot, panicked>>

(* One iteration of install_trans: copy a log block to its home block;     *)
(* the completed bwrite clears B_DIRTY.                                    *)
InstallBlock ==
  LET t == tail + 1 IN
    /\ cache' = [cache EXCEPT ![lh[t]] = cache[t]]
    /\ disk' = [disk EXCEPT ![lh[t]] = cache[t]]
    /\ pinned' = pinned \ {lh[t]}
    /\ tail' = t

install_trans(p) ==
  /\ Running
  /\ pc[p] = "install"
  /\ InstallBlock
  /\ pc' = IF tail + 1 = Len(lh) THEN [pc EXCEPT ![p] = "clear"] ELSE pc
  /\ UNCHANGED <<dhead, logVars, held, logged, boot, panicked>>

(* lh.n = 0 and the second write_head: erase the transaction. *)
clear_log(p) ==
  /\ Running
  /\ pc[p] = "clear"
  /\ lh' = <<>>
  /\ dhead' = <<>>
  /\ pc' = [pc EXCEPT ![p] = "finish"]
  /\ UNCHANGED <<disk, cache, pinned, outstanding, committing, tail, held, logged, boot, panicked>>

(* The tail of end_op after commit(). *)
end_commit(p) ==
  /\ Running
  /\ pc[p] = "finish"
  /\ committing' = FALSE
  /\ pc' = wakeup([pc EXCEPT ![p] = "user"])
  /\ UNCHANGED <<diskVars, cache, pinned, lh, outstanding, tail, held, logged, boot, panicked>>

-----------------------------------------------------------------------------
(* bget recycles a buffer that is neither dirty nor referenced; a later    *)
(* bread of the block finds what the disk holds.                           *)
bget_recycle(b) ==
  /\ ~panicked
  /\ b \notin pinned
  /\ \A p \in Proc : held[p] # b
  /\ cache' = [cache EXCEPT ![b] = disk[b]]
  /\ UNCHANGED <<diskVars, pinned, logVars, tail, opVars, boot, panicked>>

(* Power loss or reset: memory is lost, the disk is not. *)
Crash ==
  /\ cache' = disk
  /\ pinned' = {}
  /\ lh' = <<>>
  /\ outstanding' = 0
  /\ committing' = FALSE
  /\ tail' = 0
  /\ pc' = [p \in Proc |-> "user"]
  /\ held' = [p \in Proc |-> NoBlock]
  /\ logged' = [p \in Proc |-> {}]
  /\ boot' = "read_head"
  /\ panicked' = FALSE
  /\ UNCHANGED diskVars

(* initlog and recover_from_log, run by the first process (forkret). *)
read_head ==
  /\ boot = "read_head"
  /\ lh' = dhead
  /\ tail' = 0
  /\ boot' = "install"
  /\ UNCHANGED <<diskVars, cache, pinned, outstanding, committing, opVars, panicked>>

recover_install ==
  /\ boot = "install"
  /\ tail < Len(lh)
  /\ InstallBlock
  /\ UNCHANGED <<dhead, logVars, opVars, boot, panicked>>

recover_clear ==
  /\ boot = "install"
  /\ tail = Len(lh)
  /\ lh' = <<>>
  /\ dhead' = <<>>
  /\ boot' = "up"
  /\ UNCHANGED <<disk, cache, pinned, outstanding, committing, tail, opVars, panicked>>

-----------------------------------------------------------------------------
Step(p) ==
  \/ begin_op(p) \/ log_write(p) \/ end_op(p)
  \/ write_log(p) \/ write_head(p) \/ install_trans(p)
  \/ clear_log(p) \/ end_commit(p)

Next ==
  \/ \E p \in Proc : Step(p)
  \/ \E p \in Proc, b \in Home, v \in Val : log_write_test(p, b, v)
  \/ \E b \in Blocks : bget_recycle(b)
  \/ Crash
  \/ read_head \/ recover_install \/ recover_clear

Spec == Init /\ [][Next]_vars

(* Every call is a finite program: its kernel steps are scheduled, and it  *)
(* does not log blocks for ever, so it reaches end_op (strong fairness,    *)
(* because each log_write disables end_op for a moment).                   *)
Fairness ==
  \A p \in Proc :
    /\ WF_vars(log_write(p)) /\ SF_vars(end_op(p))
    /\ WF_vars(write_log(p)) /\ WF_vars(write_head(p)) /\ WF_vars(install_trans(p))
    /\ WF_vars(clear_log(p)) /\ WF_vars(end_commit(p))

FairSpec == Spec /\ Fairness

-----------------------------------------------------------------------------
(* The types of the disk, the cache, the log header and the calls. *)
TypeOK ==
  /\ disk \in [Blocks -> Val]
  /\ dhead \in Seq(Home)
  /\ cache \in [Blocks -> Val]
  /\ pinned \subseteq Home
  /\ lh \in Seq(Home)
  /\ outstanding \in Nat
  /\ committing \in BOOLEAN
  /\ tail \in Nat
  /\ pc \in [Proc -> Pcs]
  /\ held \in [Proc -> Home \cup {NoBlock}]
  /\ logged \in [Proc -> SUBSET Home]
  /\ boot \in {"read_head", "install", "up"}
  /\ panicked \in BOOLEAN

(* What a reboot would find: the home blocks, with the blocks of a         *)
(* committed transaction taken from the log (recover_from_log).            *)
RecoverFrom(h, d) ==
  [b \in Home |-> IF b \in Range(h) THEN d[CHOOSE i \in DOMAIN h : h[i] = b] ELSE d[b]]

Recovered == RecoverFrom(dhead, disk)

(* What the running system reads; during recovery nobody reads yet. *)
Current == IF boot = "up" THEN [b \in Home |-> cache[b]] ELSE Recovered

AD == INSTANCE AtomicDisk WITH
        Block <- Home, durable <- Recovered, current <- Current, active <- InOp

(* Crash atomicity: the log implements AtomicDisk.  Each bwrite of         *)
(* write_log, write_head, install_trans and of recovery leaves what a      *)
(* reboot would find unchanged, except commit's write_head, which makes    *)
(* all finished calls durable at once, while no call is in progress.       *)
Atomicity == AD!Spec

(* A clean buffer equals its disk block, so bget may recycle it: the       *)
(* B_DIRTY pin of log_write lasts until install_trans has written the      *)
(* block home.                                                             *)
CleanIsCoherent ==
  \A b \in Blocks : b \notin pinned /\ (\A p \in Proc : held[p] # b) => cache[b] = disk[b]

(* begin_op's reservation is enough: log_write never panics with "too big  *)
(* a transaction" and end_op never with "log.committing".                  *)
NoPanic == ~panicked

(* The log never outgrows its blocks: log block t+1 of write_log and       *)
(* install_trans lies before the first home block.                         *)
LogFits == Len(lh) <= nlog - 1

(* No wakeup is missed: whoever sleeps in begin_op could not be admitted   *)
(* now, although several calls may end and commit while it falls asleep.   *)
NoMissedWakeup == \A p \in Proc : pc[p] = "sleep" => ~CanBegin

(* Every sleeper in begin_op is eventually woken: calls end, and either    *)
(* end_op or the end of the commit wakes the sleepers.                     *)
SleepersWake == \A p \in Proc : pc[p] = "sleep" ~> pc[p] # "sleep"

-----------------------------------------------------------------------------
(* The inductive strengthening, in named parts. *)

(* log.outstanding counts the calls between begin_op and end_op. *)
CountInv == outstanding = Cardinality(InOp)

(* One process commits, and only while no call is in progress. *)
CommitInv ==
  /\ committing <=> \E p \in Proc : pc[p] \in CommitPcs
  /\ \A p, q \in Proc : pc[p] \in CommitPcs /\ pc[q] \in CommitPcs => p = q
  /\ committing => InOp = {}

(* A buffer is locked exactly from log_write's test to its recording. *)
HeldInv ==
  \A p \in Proc :
    /\ held[p] # NoBlock <=> pc[p] = "record"
    /\ \A q \in Proc : held[p] = held[q] /\ held[p] # NoBlock => p = q

(* The blocks a call has logged are in the transaction and in its budget. *)
LoggedInv ==
  \A p \in Proc :
    /\ logged[p] \subseteq Range(lh)
    /\ p \notin InOp => logged[p] = {}
    /\ IsFiniteSet(logged[p]) /\ Cardinality(logged[p]) <= OpBlocks
    /\ pc[p] = "record" => held[p] \in logged[p] \/ Cardinality(logged[p]) < OpBlocks

(* Reserved but unused log blocks, one pair per block of a call's budget.  *)
Reserved == {x \in InOp \X (1 .. MAXOPBLOCKS) : x[2] > Cardinality(logged[x[1]])}

(* Blocks logged plus blocks reserved never exceed what begin_op admits. *)
BudgetInv == Len(lh) + Cardinality(Reserved) <= LOGSIZE

NoDuplicates(s) == \A i, j \in 1 .. Len(s) : s[i] = s[j] => i = j

(* Both headers list distinct blocks and fit the log. *)
HeaderInv ==
  /\ NoDuplicates(lh) /\ Len(lh) <= nlog - 1
  /\ NoDuplicates(dhead) /\ Len(dhead) <= nlog - 1 /\ Len(dhead) <= LOGSIZE

(* The first n log blocks on disk hold the cached contents of the blocks. *)
LogCopied(n) == \A i \in 1 .. n : disk[i] = cache[lh[i]]

(* The first n blocks of the transaction have reached their home. *)
Installed(n) == \A i \in 1 .. n : disk[lh[i]] = disk[i]

(* What is on disk at each point of commit(), by the committer's pc. *)
PhaseInv ==
  \A p \in Proc :
    /\ pc[p] = "write_log"  => tail < Len(lh) /\ LogCopied(tail) /\ dhead = <<>>
    /\ pc[p] = "write_head" => LogCopied(Len(lh)) /\ lh # <<>> /\ dhead = <<>>
    /\ pc[p] = "install"    => /\ tail < Len(lh) /\ LogCopied(Len(lh)) /\ dhead = lh
                               /\ Installed(tail)
                               /\ \A i \in 1 .. tail : lh[i] \notin pinned
    /\ pc[p] = "clear"      => LogCopied(Len(lh)) /\ dhead = lh /\ Installed(Len(lh)) /\ pinned = {}
    /\ pc[p] = "finish"     => lh = <<>> /\ dhead = <<>>

(* Outside commit's second half, a running system has an empty header on disk. *)
EmptyHeadInv ==
  boot = "up" /\ (\A p \in Proc : pc[p] \notin {"install", "clear"}) => dhead = <<>>

(* Pinned blocks belong to the transaction. *)
PinInv == pinned \subseteq Range(lh)

(* Recovery runs alone, on a cold cache. *)
BootInv ==
  /\ boot # "up" => /\ \A p \in Proc : pc[p] = "user"
                    /\ cache = disk /\ pinned = {} /\ ~panicked
  /\ boot = "read_head" => lh = <<>>
  /\ boot = "install" => lh = dhead /\ tail <= Len(lh) /\ Installed(tail)

(* The inductive invariant of log.c: the reservation, commit and recovery  *)
(* protocols together.                                                     *)
LogInv ==
  /\ TypeOK /\ NoPanic
  /\ CountInv /\ CommitInv /\ HeldInv /\ LoggedInv /\ BudgetInv /\ HeaderInv
  /\ PhaseInv /\ EmptyHeadInv /\ PinInv /\ BootInv
  /\ CleanIsCoherent /\ NoMissedWakeup
=============================================================================
