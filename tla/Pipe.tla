-------------------------------- MODULE Pipe --------------------------------
(***************************************************************************)
(* The pipe of pipe.c: a ring buffer under a spinlock, with the sleep and  *)
(* wakeup, the file references and the kill that its callers see.          *)
(*                                                                         *)
(* What a call does from acquire(&p->lock) to its release, or to the test  *)
(* of p->killed before sleep, is one action.  sleep takes ptable.lock in a *)
(* step of its own, because kill holds only ptable.lock and may come       *)
(* between the test and the sleep.  nread and nwrite are unsigned and wrap *)
(* at UINT.  A process holds an end of the pipe while it has the file open *)
(* (file.c counts these references; the last close calls pipeclose).       *)
(***************************************************************************)
EXTENDS Integers, Sequences, FiniteSetsExt

CONSTANTS
  Proc,      \* processes that use the pipe
  NoProc,    \* "p->lock is free"
  Byte,      \* what is sent
  PIPESIZE,  \* bytes in the ring
  UINT,      \* where an unsigned int wraps
  Messages,  \* bound: what processes write in one call
  MaxN,      \* bound: bytes asked for by one read
  Killable,  \* processes that are killed
  Idle       \* "in no call"

(* The calls in progress: the bytes still to write, or how many to read. *)
WriteCall == [op : {"write"}, rest : Seq(Byte)]
ReadCall  == [op : {"read"}, n : 0 .. MaxN]

ASSUME PipeAssumption ==
  /\ PIPESIZE \in Nat \ {0} /\ UINT \in Nat /\ MaxN \in Nat
  /\ UINT > PIPESIZE /\ UINT % PIPESIZE = 0
  /\ NoProc \notin Proc /\ Idle \notin WriteCall \cup ReadCall /\ Killable \subseteq Proc
  /\ Messages \subseteq Seq(Byte)

VARIABLES
  data, nread, nwrite, readopen, writeopen,  \* struct pipe
  alloc,     \* the page of the pipe is allocated
  plock,     \* holder of p->lock between actions
  rfd, wfd,  \* processes that have the read file, the write file open
  killed,    \* processes whose p->killed is set
  pc,        \* where each process is
  call       \* bytes still to write, or the number of bytes to read

ring == <<data, nread, nwrite>>
pipe == <<ring, readopen, writeopen, alloc>>
fds  == <<rfd, wfd>>
vars == <<pipe, plock, fds, killed, pc, call>>

Write(s) == [op |-> "write", rest |-> s]
Read(n)  == [op |-> "read", n |-> n]
Pcs == {"user", "write", "wsleep", "wasleep", "read", "rsleep", "rasleep"}

Init ==
  /\ data \in [0 .. PIPESIZE-1 -> Byte]
  /\ nread = 0 /\ nwrite = 0
  /\ readopen = FALSE /\ writeopen = FALSE
  /\ alloc = FALSE
  /\ plock = NoProc
  /\ rfd = {} /\ wfd = {} /\ killed = {}
  /\ pc = [p \in Proc |-> "user"]
  /\ call = [p \in Proc |-> Idle]

(* Bytes in the ring, and the bytes themselves, oldest first. *)
Count    == (nwrite - nread) % UINT
Contents == [i \in 1 .. Count |-> data[(nread + i - 1) % PIPESIZE]]

(* Mutant: sleepers are not woken. *)
WakeNobody(pcs) == pcs

(* wakeup(&p->nread) and wakeup(&p->nwrite). *)
WakeReaders(pcs) == [q \in Proc |-> IF pcs[q] = "rasleep" THEN "read" ELSE pcs[q]]
WakeWriters(pcs) == [q \in Proc |-> IF pcs[q] = "wasleep" THEN "write" ELSE pcs[q]]

-----------------------------------------------------------------------------
(* pipealloc through sys_pipe, when nothing fails: a fresh page, one file  *)
(* for each end.                                                           *)
pipealloc(p) ==
  /\ ~alloc /\ p \notin killed
  /\ alloc' = TRUE /\ readopen' = TRUE /\ writeopen' = TRUE
  /\ nread' = 0 /\ nwrite' = 0
  /\ data' \in [0 .. PIPESIZE-1 -> Byte]
  /\ rfd' = {p} /\ wfd' = {p}
  /\ UNCHANGED <<plock, killed, pc, call>>

(* The child q inherits the open files of p (filedup). *)
fork(p, q) ==
  /\ pc[p] = "user" /\ p \notin killed
  /\ q \notin rfd \cup wfd
  /\ rfd' = IF p \in rfd THEN rfd \cup {q} ELSE rfd
  /\ wfd' = IF p \in wfd THEN wfd \cup {q} ELSE wfd
  /\ killed' = killed \ {q}
  /\ UNCHANGED <<pipe, plock, pc, call>>

(* Mutant: the page is freed as soon as one end is closed. *)
FreeEither(r, w) == ~r \/ ~w

FreeWhen(r, w) == ~r /\ ~w

(* close, or exit, of a process: the last reference calls pipeclose. *)
pipeclose_read(p) ==
  /\ pc[p] = "user" /\ p \in rfd
  /\ plock = NoProc
  /\ rfd' = rfd \ {p}
  /\ IF rfd' = {}
       THEN /\ readopen' = FALSE
            /\ pc' = WakeWriters(pc)
            /\ alloc' = (alloc /\ ~FreeWhen(FALSE, writeopen))
       ELSE UNCHANGED <<readopen, pc, alloc>>
  /\ UNCHANGED <<ring, writeopen, plock, wfd, killed, call>>

pipeclose_write(p) ==
  /\ pc[p] = "user" /\ p \in wfd
  /\ plock = NoProc
  /\ wfd' = wfd \ {p}
  /\ IF wfd' = {}
       THEN /\ writeopen' = FALSE
            /\ pc' = WakeReaders(pc)
            /\ alloc' = (alloc /\ ~FreeWhen(readopen, FALSE))
       ELSE UNCHANGED <<writeopen, pc, alloc>>
  /\ UNCHANGED <<ring, readopen, plock, rfd, killed, call>>

-----------------------------------------------------------------------------
Start(p, c, l) ==
  /\ pc[p] = "user" /\ p \notin killed
  /\ call' = [call EXCEPT ![p] = c]
  /\ pc' = [pc EXCEPT ![p] = l]
  /\ UNCHANGED <<pipe, plock, fds, killed>>

sys_write(p, s) == p \in wfd /\ Start(p, Write(s), "write")
sys_read(p, n)  == p \in rfd /\ Start(p, Read(n), "read")

Return(p) == call' = [call EXCEPT ![p] = Idle]

(* Mutant: the counter is wider than an unsigned int. *)
Unwrapped(n, k) == n + k

(* n += k on an unsigned int. *)
Advance(n, k) == (n + k) % UINT

(* Mutant: one byte too many before the pipe counts as full. *)
SpaceAndOne == PIPESIZE + 1 - Count

Space == PIPESIZE - Count

(* Bytes s[1..k] stored behind nwrite. *)
Stored(s, k) ==
  [j \in 0 .. PIPESIZE-1 |->
     IF \E m \in 1 .. k : (nwrite + m - 1) % PIPESIZE = j
       THEN s[CHOOSE m \in 1 .. k : (nwrite + m - 1) % PIPESIZE = j]
       ELSE data[j]]

(* pipewrite: store what fits; then return n, give up, or go to sleep.     *)
(* The way out that gives up wakes nobody.                                 *)
pipewrite(p) ==
  /\ pc[p] = "write" /\ plock = NoProc
  /\ LET s == call[p].rest
         k == Min({Len(s), Space})
         left == SubSeq(s, k + 1, Len(s))
     IN /\ data' = Stored(s, k)
        /\ nwrite' = Advance(nwrite, k)
        /\ \/ /\ left = <<>>
              /\ pc' = WakeReaders([pc EXCEPT ![p] = "user"])
              /\ Return(p)           \* n
              /\ UNCHANGED plock
           \/ /\ left # <<>> /\ (~readopen \/ p \in killed)
              /\ pc' = [pc EXCEPT ![p] = "user"]
              /\ Return(p)           \* -1
              /\ UNCHANGED plock
           \/ /\ left # <<>> /\ readopen /\ p \notin killed
              /\ pc' = WakeReaders([pc EXCEPT ![p] = "wsleep"])
              /\ call' = [call EXCEPT ![p] = Write(left)]
              /\ plock' = p
  /\ UNCHANGED <<nread, readopen, writeopen, alloc, fds, killed>>

(* piperead: wait for bytes or end of file, then take what there is. *)
piperead(p) ==
  /\ pc[p] = "read" /\ plock = NoProc
  /\ \/ /\ nread = nwrite /\ writeopen /\ p \in killed
        /\ pc' = [pc EXCEPT ![p] = "user"]
        /\ Return(p)           \* -1
        /\ UNCHANGED <<nread, plock>>
     \/ /\ nread = nwrite /\ writeopen /\ p \notin killed
        /\ pc' = [pc EXCEPT ![p] = "rsleep"]
        /\ plock' = p
        /\ UNCHANGED <<nread, call>>
     \/ /\ nread # nwrite \/ ~writeopen
        /\ nread' = Advance(nread, Min({call[p].n, Count}))
        /\ Return(p)
        /\ pc' = WakeWriters([pc EXCEPT ![p] = "user"])
        /\ UNCHANGED plock
  /\ UNCHANGED <<data, nwrite, readopen, writeopen, alloc, fds, killed>>

(* sleep: with ptable.lock held, become SLEEPING and release p->lock. *)
sleep(p) ==
  /\ pc[p] \in {"wsleep", "rsleep"}
  /\ pc' = [pc EXCEPT ![p] = IF @ = "wsleep" THEN "wasleep" ELSE "rasleep"]
  /\ plock' = NoProc
  /\ UNCHANGED <<pipe, fds, killed, call>>

(* kill: set p->killed and wake p if it is SLEEPING. *)
kill(p) ==
  /\ killed' = killed \cup {p}
  /\ pc' = [pc EXCEPT ![p] = CASE @ = "wasleep" -> "write"
                               [] @ = "rasleep" -> "read"
                               [] OTHER -> @]
  /\ UNCHANGED <<pipe, plock, fds, call>>

-----------------------------------------------------------------------------
Next ==
  \/ \E p \in Proc : pipealloc(p) \/ pipeclose_read(p) \/ pipeclose_write(p)
  \/ \E p, q \in Proc : fork(p, q)
  \/ \E p \in Proc, s \in Messages : sys_write(p, s)
  \/ \E p \in Proc, n \in 0 .. MaxN : sys_read(p, n)
  \/ \E p \in Proc : pipewrite(p) \/ piperead(p) \/ sleep(p)
  \/ \E p \in Killable : kill(p)

Spec == Init /\ [][Next]_vars

(* A process in the kernel keeps running: it gets a CPU and p->lock. *)
Fairness == \A p \in Proc : SF_vars(pipewrite(p)) /\ SF_vars(piperead(p)) /\ WF_vars(sleep(p))

FairSpec == Spec /\ Fairness

-----------------------------------------------------------------------------
RingOK == data \in [0 .. PIPESIZE-1 -> Byte] /\ nread \in 0 .. UINT-1 /\ nwrite \in 0 .. UINT-1
EndsOK ==
  /\ readopen \in BOOLEAN /\ writeopen \in BOOLEAN /\ alloc \in BOOLEAN
  /\ rfd \subseteq Proc /\ wfd \subseteq Proc /\ killed \subseteq Proc
CallOK ==
  /\ plock \in Proc \cup {NoProc} /\ pc \in [Proc -> Pcs]
  /\ call \in [Proc -> {Idle} \cup WriteCall \cup ReadCall]

(* The types of the ring, its counters and the calls in progress. *)
TypeOK == RingOK /\ EndsOK /\ CallOK

F == INSTANCE Fifo WITH
       Capacity <- PIPESIZE, queue <- Contents, readers <- rfd, writers <- wfd

(* The pipe implements Fifo: bytes come out once, in order and unchanged   *)
(* while nread and nwrite run around the ring and past the largest uint,   *)
(* whoever sleeps, is killed or closes an end in between.                  *)
Implements == F!Spec

Writing == {"write", "wsleep", "wasleep"}
Reading == {"read", "rsleep", "rasleep"}

(* The page of the pipe lives exactly as long as some process has an end   *)
(* open, and every process inside pipewrite or piperead has its end open:  *)
(* pipeclose neither frees a pipe in use nor leaks one.                    *)
FreedOnce ==
  /\ readopen <=> rfd # {}
  /\ writeopen <=> wfd # {}
  /\ alloc <=> rfd \cup wfd # {}
  /\ \A p \in Proc : (pc[p] \in Writing => p \in wfd) /\ (pc[p] \in Reading => p \in rfd)

(* Each process is in the call that its place belongs to, and keeps p->lock*)
(* from its last test of the ring until it is asleep.                      *)
InCall ==
  \A p \in Proc :
    /\ pc[p] = "user" => call[p] = Idle
    /\ pc[p] \in Writing => call[p] \in WriteCall
    /\ pc[p] \in Reading => call[p] \in ReadCall
    /\ pc[p] \in {"wsleep", "rsleep"} => plock = p

(* The ring never holds more than it has room for.  A writer sleeps only on*)
(* a full pipe that can still be read: whoever reads or closes the read end*)
(* wakes it, although the pipe may fill and empty several times while it   *)
(* falls asleep.  A reader goes to sleep only on an empty pipe.            *)
SleepersWait ==
  /\ Count <= PIPESIZE
  /\ \A p \in Proc : /\ pc[p] \in {"wsleep", "wasleep"} => Count = PIPESIZE /\ readopen
                     /\ pc[p] = "rsleep" => Count = 0 /\ writeopen

(* p sleeps beside bytes, or at end of file. *)
Overlooked(p) == pc[p] = "rasleep" /\ (Count # 0 \/ ~writeopen)

(* Bytes and end of file wake the readers.  Only one step may leave a      *)
(* reader asleep beside bytes where there was none: a killed writer that   *)
(* gives up after it has stored some.                                      *)
ReadersWokenUnlessKilled ==
  [][(\E p \in Proc : Overlooked(p)') =>
       \/ \E p \in Proc : Overlooked(p)
       \/ \E q \in killed : pc[q] = "write" /\ pc'[q] = "user"]_vars

(* Closing the last other end lets blocked calls return: readers get end   *)
(* of file, writers an error.                                              *)
CallsEnd ==
  \A p \in Proc :
    \/ pc[p] \in Reading /\ wfd = {}
    \/ pc[p] \in Writing /\ rfd = {}
    ~> pc[p] = "user"

(* What pipe.c keeps between its critical sections: the types above, a     *)
(* page as long as it is in use, and no writer asleep without a reason.    *)
PipeInv == TypeOK /\ FreedOnce /\ InCall /\ SleepersWait
=============================================================================
