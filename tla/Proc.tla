-------------------------------- MODULE Proc --------------------------------
(***************************************************************************)
(* The process table and scheduler of proc.c, with the trap-handler and    *)
(* system-call paths of trap.c and sysproc.c that drive them.              *)
(*                                                                         *)
(* Every CPU runs either its scheduler thread (cpu[c] = NoProc) or the     *)
(* kernel thread of a process (c->proc and the stack in use agree, except  *)
(* inside the scheduler's critical section).  ptable.lock is explicit,     *)
(* because swtch hands it from one thread to another; a critical section   *)
(* that contains no swtch is one action.  pc[p] is where the kernel thread *)
(* of p is, ret[p] where it goes on after swtch returns.  Files, memory    *)
(* and the working directory of a process are left to other modules; that  *)
(* kalloc or copyuvm may fail in fork is a nondeterministic choice.        *)
(***************************************************************************)
EXTENDS Integers, FiniteSets

CONSTANTS
  NPROC,     \* slots of the process table
  CPU,       \* processors
  CPU0,      \* the one that counts clock ticks
  NoCPU,     \* "lock is free"
  MAXPID,    \* bound: processes created before fork always fails
  MAXTICKS,  \* bound: longest sleep(n)
  Killable   \* pids that processes pass to kill()

ASSUME NPROCAssumption == NPROC \in Nat /\ NPROC >= 1
ASSUME CPUAssumption == CPU0 \in CPU /\ NoCPU \notin CPU
ASSUME BoundAssumption == MAXPID \in Nat /\ MAXTICKS \in Nat /\ Killable \subseteq Nat

Slot     == 1 .. NPROC
NoProc   == 0             \* a null struct proc *
initproc == 1
ticks    == NPROC + 1     \* the channel &ticks; a slot is its own channel in wait()
NoChan   == 0

VARIABLES
  state, pid, parent, killed, chan,  \* fields of struct proc
  nextpid,
  lock,      \* holder of ptable.lock
  cpu,       \* which thread each CPU executes
  scan,      \* the scheduler loop's position in the table
  pc, ret,   \* kernel thread of each process
  child,     \* np in fork
  tlock,     \* holder of tickslock
  due,       \* clock ticks a sleep(n) still waits for
  panicked

ptable == <<state, pid, parent, killed, chan, nextpid>>
thread == <<pc, ret, child>>
clock  == <<tlock, due>>
vars   == <<ptable, lock, cpu, scan, thread, clock, panicked>>

States == {"UNUSED", "EMBRYO", "SLEEPING", "RUNNABLE", "RUNNING", "ZOMBIE"}
Pcs == {"resume", "user", "trapret", "fork_alloc", "fork_run", "exit", "wait",
        "sched", "yield", "tick_test", "sleep", "tick_lock"}

(* userinit has run, and every CPU is about to enter its scheduler. *)
Init ==
  /\ state = [p \in Slot |-> IF p = initproc THEN "RUNNABLE" ELSE "UNUSED"]
  /\ pid = [p \in Slot |-> IF p = initproc THEN 1 ELSE 0]
  /\ parent = [p \in Slot |-> NoProc]
  /\ killed = [p \in Slot |-> FALSE]
  /\ chan = [p \in Slot |-> NoChan]
  /\ nextpid = 2
  /\ lock = NoCPU
  /\ cpu = [c \in CPU |-> NoProc]
  /\ scan = [c \in CPU |-> 1]
  /\ pc = [p \in Slot |-> "resume"]
  /\ ret = [p \in Slot |-> "user"]
  /\ child = [p \in Slot |-> NoProc]
  /\ tlock = NoCPU
  /\ due = [p \in Slot |-> 0]
  /\ panicked = FALSE

At(c, p, l) == ~panicked /\ cpu[c] = p /\ pc[p] = l

Goto(p, l) == pc' = [pc EXCEPT ![p] = l]

(* Mutant: a spinlock that does not exclude. *)
AcquireAnyway(c) == lock' = c

(* acquire(&ptable.lock) on CPU c. *)
Acquire(c) == lock = NoCPU /\ lock' = c

(* Sleepers on a channel become RUNNABLE (wakeup1). *)
wakeup1(st, ch) ==
  [p \in Slot |-> IF st[p] = "SLEEPING" /\ chan[p] = ch THEN "RUNNABLE" ELSE st[p]]

-----------------------------------------------------------------------------
(* The scheduler thread of a CPU. *)

(* Mutant: the pass starts again from the first slot after every switch. *)
ScanFromStart(p) == 1

(* What a loop over ptable.proc that stops at the first match finds. *)
First(S) == {q \in S : \A r \in S : q <= r}

(* Mutant: the slot behind the process just run is skipped. *)
ScanSkip(p) == p + 2

ScanNext(p) == p + 1

scheduler_acquire(c) ==
  /\ ~panicked
  /\ cpu[c] = NoProc
  /\ Acquire(c)
  /\ UNCHANGED <<ptable, cpu, scan, thread, clock, panicked>>

(* Run the next RUNNABLE process of the pass, or end the pass. *)
scheduler(c) ==
  /\ ~panicked
  /\ cpu[c] = NoProc /\ lock = c
  /\ LET runnable == {p \in Slot : p >= scan[c] /\ state[p] = "RUNNABLE"} IN
       \/ \E p \in First(runnable) :
          /\ cpu' = [cpu EXCEPT ![c] = p]
          /\ state' = [state EXCEPT ![p] = "RUNNING"]
          /\ scan' = [scan EXCEPT ![c] = ScanNext(p)]
          /\ UNCHANGED lock
       \/ /\ runnable = {}
          /\ lock' = NoCPU
          /\ scan' = [scan EXCEPT ![c] = 1]
          /\ UNCHANGED <<cpu, state>>
  /\ UNCHANGED <<pid, parent, killed, chan, nextpid, thread, clock, panicked>>

(* swtch in sched: back to the scheduler thread, ptable.lock still held. *)
swtch(c, p) ==
  /\ At(c, p, "sched")
  /\ cpu' = [cpu EXCEPT ![c] = NoProc]
  /\ Goto(p, "resume")
  /\ UNCHANGED <<ptable, lock, scan, ret, child, clock, panicked>>

(* swtch returns in the process: forkret, yield and sleep release          *)
(* ptable.lock; wait goes on under it.                                     *)
resume(c, p) ==
  /\ At(c, p, "resume")
  /\ chan' = [chan EXCEPT ![p] = NoChan]
  /\ lock' = IF ret[p] = "wait" THEN lock ELSE NoCPU
  /\ Goto(p, ret[p])
  /\ ret' = [ret EXCEPT ![p] = "user"]
  /\ UNCHANGED <<state, pid, parent, killed, nextpid, cpu, scan, child, clock, panicked>>

-----------------------------------------------------------------------------
(* trap: on the way back to user space a killed process exits. *)
trapret(c, p) ==
  /\ At(c, p, "trapret")
  /\ Goto(p, IF killed[p] THEN "exit" ELSE "user")
  /\ UNCHANGED <<ptable, lock, cpu, scan, ret, child, clock, panicked>>

(* A trap from user space finds the process killed before the system call. *)
trap_killed(c, p) ==
  /\ At(c, p, "user")
  /\ killed[p]
  /\ Goto(p, "exit")
  /\ UNCHANGED <<ptable, lock, cpu, scan, ret, child, clock, panicked>>

SysCall(c, p) == At(c, p, "user") /\ ~killed[p]

(* An unexpected trap in user space marks the process killed. *)
trap_fault(c, p) ==
  /\ At(c, p, "user") /\ p # initproc
  /\ killed' = [killed EXCEPT ![p] = TRUE]
  /\ Goto(p, "trapret")
  /\ UNCHANGED <<state, pid, parent, chan, nextpid, lock, cpu, scan, ret, child, clock, panicked>>

(* A clock interrupt taken while no spinlock is held on this CPU: CPU 0    *)
(* counts the tick and wakes sleepers; a running process is made to yield. *)
timer(c) ==
  /\ ~panicked
  /\ lock # c /\ tlock # c
  /\ cpu[c] \in Slot => pc[cpu[c]] # "yield"
  /\ IF c = CPU0
       THEN /\ tlock = NoCPU /\ lock = NoCPU
            /\ due' = [p \in Slot |-> IF due[p] > 0 THEN due[p] - 1 ELSE 0]
            /\ state' = wakeup1(state, ticks)
       ELSE UNCHANGED <<due, state>>
  /\ \/ /\ cpu[c] = NoProc
        /\ c = CPU0
        /\ UNCHANGED <<pc, ret>>
     \/ /\ cpu[c] \in Slot
        /\ LET p == cpu[c] IN
             IF pc[p] = "user" /\ killed[p]
               THEN Goto(p, "exit") /\ UNCHANGED ret
               ELSE /\ Goto(p, "yield")
                    /\ ret' = [ret EXCEPT ![p] = IF pc[p] = "user" THEN "trapret" ELSE pc[p]]
  /\ UNCHANGED <<pid, parent, killed, chan, nextpid, lock, cpu, scan, child, tlock, panicked>>

yield(c, p) ==
  /\ At(c, p, "yield")
  /\ Acquire(c)
  /\ state' = [state EXCEPT ![p] = "RUNNABLE"]
  /\ Goto(p, "sched")
  /\ UNCHANGED <<pid, parent, killed, chan, nextpid, cpu, scan, ret, child, clock, panicked>>

-----------------------------------------------------------------------------
(* Mutant: nextpid is not advanced. *)
SamePid == nextpid

NextPid == nextpid + 1

(* allocproc's critical section, called by fork. *)
allocproc(c, p) ==
  /\ SysCall(c, p)
  /\ lock = NoCPU
  /\ LET unused == {q \in Slot : state[q] = "UNUSED"} IN
       \/ /\ unused = {} \/ nextpid > MAXPID
          /\ Goto(p, "trapret")
          /\ UNCHANGED <<state, pid, nextpid, child, ret>>
       \/ \E np \in First(unused) :
          /\ nextpid <= MAXPID
          /\ state' = [state EXCEPT ![np] = "EMBRYO"]
          /\ pid' = [pid EXCEPT ![np] = nextpid]
          /\ nextpid' = NextPid
          /\ child' = [child EXCEPT ![p] = np]
          /\ ret' = [ret EXCEPT ![np] = "user"]
          /\ Goto(p, "fork_alloc")
  /\ UNCHANGED <<parent, killed, chan, lock, cpu, scan, clock, panicked>>

(* kalloc or copyuvm fails: the slot is given back, without ptable.lock. *)
fork_fail(c, p) ==
  /\ At(c, p, "fork_alloc")
  /\ state' = [state EXCEPT ![child[p]] = "UNUSED"]
  /\ child' = [child EXCEPT ![p] = NoProc]
  /\ Goto(p, "trapret")
  /\ UNCHANGED <<pid, parent, killed, chan, nextpid, lock, cpu, scan, ret, clock, panicked>>

fork_copy(c, p) ==
  /\ At(c, p, "fork_alloc")
  /\ parent' = [parent EXCEPT ![child[p]] = p]
  /\ Goto(p, "fork_run")
  /\ UNCHANGED <<state, pid, killed, chan, nextpid, lock, cpu, scan, ret, child, clock, panicked>>

fork_run(c, p) ==
  /\ At(c, p, "fork_run")
  /\ lock = NoCPU
  /\ state' = [state EXCEPT ![child[p]] = "RUNNABLE"]
  /\ child' = [child EXCEPT ![p] = NoProc]
  /\ Goto(p, "trapret")
  /\ UNCHANGED <<pid, parent, killed, chan, nextpid, lock, cpu, scan, ret, clock, panicked>>

-----------------------------------------------------------------------------
sys_exit(c, p) ==
  /\ SysCall(c, p) /\ p # initproc
  /\ Goto(p, "exit")
  /\ UNCHANGED <<ptable, lock, cpu, scan, ret, child, clock, panicked>>

Children(p) == {q \in Slot : parent[q] = p}

(* Mutant: children of an exiting process keep their parent. *)
KeepParent(p) == parent

(* exit passes abandoned children to init. *)
Reparent(p) == [q \in Slot |-> IF parent[q] = p THEN initproc ELSE parent[q]]

(* Mutant: the parent is not told. *)
WakeInitOnly(p) ==
  IF \E q \in Children(p) : state[q] = "ZOMBIE" THEN wakeup1(state, initproc) ELSE state

(* exit's wakeups: the parent, and init if it inherits a zombie. *)
ExitWakeup(p) ==
  LET st == wakeup1(state, parent[p])
  IN IF \E q \in Children(p) : st[q] = "ZOMBIE" THEN wakeup1(st, initproc) ELSE st

(* exit from acquire(&ptable.lock) up to sched. *)
exit(c, p) ==
  /\ At(c, p, "exit")
  /\ IF p = initproc
       THEN /\ panicked' = TRUE                    \* panic("init exiting")
            /\ UNCHANGED <<state, parent, lock, pc>>
       ELSE /\ Acquire(c)
            /\ parent' = Reparent(p)
            /\ state' = [ExitWakeup(p) EXCEPT ![p] = "ZOMBIE"]
            /\ Goto(p, "sched")
            /\ UNCHANGED panicked
  /\ UNCHANGED <<pid, killed, chan, nextpid, cpu, scan, ret, child, clock>>

sys_wait(c, p) ==
  /\ SysCall(c, p)
  /\ Acquire(c)
  /\ Goto(p, "wait")
  /\ UNCHANGED <<ptable, cpu, scan, ret, child, clock, panicked>>

(* One pass of wait's loop, under ptable.lock: reap a zombie, give up, or  *)
(* sleep on the process itself.                                            *)
wait(c, p) ==
  /\ At(c, p, "wait")
  /\ LET zombies == {q \in Children(p) : state[q] = "ZOMBIE"}
     IN \/ \E q \in First(zombies) :
           /\ state' = [state EXCEPT ![q] = "UNUSED"]
           /\ pid' = [pid EXCEPT ![q] = 0]
           /\ parent' = [parent EXCEPT ![q] = NoProc]
           /\ killed' = [killed EXCEPT ![q] = FALSE]
           /\ lock' = NoCPU
           /\ Goto(p, "trapret")
           /\ UNCHANGED <<chan, ret>>
        \/ /\ zombies = {} /\ (Children(p) = {} \/ killed[p])
           /\ lock' = NoCPU
           /\ Goto(p, "trapret")
           /\ UNCHANGED <<state, pid, parent, killed, chan, ret>>
        \/ /\ zombies = {} /\ Children(p) # {} /\ ~killed[p]
           /\ chan' = [chan EXCEPT ![p] = p]
           /\ state' = [state EXCEPT ![p] = "SLEEPING"]
           /\ ret' = [ret EXCEPT ![p] = "wait"]
           /\ Goto(p, "sched")
           /\ UNCHANGED <<pid, parent, killed, lock>>
  /\ UNCHANGED <<nextpid, cpu, scan, child, clock, panicked>>

(* kill(n): the first slot whose pid is n, whatever its state. *)
kill(c, p, n) ==
  /\ SysCall(c, p)
  /\ lock = NoCPU
  /\ LET found == {q \in Slot : pid[q] = n} IN
       \/ /\ found = {}
          /\ UNCHANGED <<killed, state>>
       \/ \E q \in First(found) :
          /\ killed' = [killed EXCEPT ![q] = TRUE]
          /\ state' = [state EXCEPT ![q] = IF @ = "SLEEPING" THEN "RUNNABLE" ELSE @]
  /\ Goto(p, "trapret")
  /\ UNCHANGED <<pid, parent, chan, nextpid, lock, cpu, scan, ret, child, clock, panicked>>

-----------------------------------------------------------------------------
(* sleep(n) of sysproc.c: wait under tickslock until n ticks have passed.  *)
sys_sleep(c, p, n) ==
  /\ SysCall(c, p)
  /\ tlock = NoCPU /\ tlock' = c
  /\ due' = [due EXCEPT ![p] = n]
  /\ Goto(p, "tick_test")
  /\ UNCHANGED <<ptable, lock, cpu, scan, ret, child, panicked>>

(* Mutant: tickslock is given up before sleep has ptable.lock. *)
sleep_test_unlocked(c, p) ==
  /\ At(c, p, "tick_test")
  /\ tlock' = NoCPU
  /\ IF due[p] = 0 \/ killed[p]
       THEN due' = [due EXCEPT ![p] = 0] /\ Goto(p, "trapret")
       ELSE Goto(p, "sleep") /\ UNCHANGED due
  /\ UNCHANGED <<ptable, lock, cpu, scan, ret, child, panicked>>

sleep_test(c, p) ==
  /\ At(c, p, "tick_test")
  /\ IF due[p] = 0 \/ killed[p]
       THEN /\ tlock' = NoCPU
            /\ due' = [due EXCEPT ![p] = 0]
            /\ Goto(p, "trapret")
       ELSE Goto(p, "sleep") /\ UNCHANGED clock
  /\ UNCHANGED <<ptable, lock, cpu, scan, ret, child, panicked>>

(* sleep(&ticks, &tickslock): take ptable.lock before giving up tickslock. *)
sleep(c, p) ==
  /\ At(c, p, "sleep")
  /\ Acquire(c)
  /\ tlock' = NoCPU
  /\ chan' = [chan EXCEPT ![p] = ticks]
  /\ state' = [state EXCEPT ![p] = "SLEEPING"]
  /\ ret' = [ret EXCEPT ![p] = "tick_lock"]
  /\ Goto(p, "sched")
  /\ UNCHANGED <<pid, parent, killed, nextpid, cpu, scan, child, due, panicked>>

(* sleep reacquires tickslock when awakened. *)
sleep_relock(c, p) ==
  /\ At(c, p, "tick_lock")
  /\ tlock = NoCPU /\ tlock' = c
  /\ Goto(p, "tick_test")
  /\ UNCHANGED <<ptable, lock, cpu, scan, ret, child, due, panicked>>

-----------------------------------------------------------------------------
(* The kernel thread p gives up or gets CPU c. *)
Switch(c, p) == yield(c, p) \/ swtch(c, p) \/ resume(c, p)

(* The kernel thread p, running on CPU c, goes on. *)
Kernel(c, p) ==
  \/ trapret(c, p)
  \/ fork_fail(c, p) \/ fork_copy(c, p) \/ fork_run(c, p)
  \/ exit(c, p) \/ wait(c, p)
  \/ sleep_test(c, p) \/ sleep(c, p) \/ sleep_relock(c, p)

(* A trap taken in user space. *)
User(c, p) ==
  \/ trap_killed(c, p) \/ trap_fault(c, p)
  \/ allocproc(c, p) \/ sys_exit(c, p) \/ sys_wait(c, p)
  \/ \E n \in Killable : kill(c, p, n)
  \/ \E n \in 1 .. MAXTICKS : sys_sleep(c, p, n)

Next ==
  \/ \E c \in CPU : scheduler_acquire(c) \/ scheduler(c) \/ timer(c)
  \/ \E c \in CPU, p \in Slot : Switch(c, p) \/ Kernel(c, p) \/ User(c, p)

Spec == Init /\ [][Next]_vars

(* CPUs do not stop, clock interrupts keep coming, and a spinlock that is  *)
(* released again and again is eventually obtained (strong fairness for    *)
(* whatever waits for ptable.lock or for interrupts to be enabled).  A     *)
(* thread that is run again and again gets some work done between clock    *)
(* interrupts.  init's program calls wait() again and again (init.c).      *)
Fairness ==
  \A c \in CPU :
    /\ SF_vars(scheduler_acquire(c)) /\ WF_vars(scheduler(c)) /\ SF_vars(timer(c))
    /\ \A p \in Slot : SF_vars(Switch(c, p)) /\ SF_vars(Kernel(c, p))
    /\ SF_vars(sys_wait(c, initproc))

FairSpec == Spec /\ Fairness

-----------------------------------------------------------------------------
(* The types of the process table, the CPUs, the kernel threads and sleep. *)
StateOK == state \in [Slot -> States]

TableOK ==
  /\ pid \in [Slot -> Nat] /\ nextpid \in Nat
  /\ parent \in [Slot -> Slot \cup {NoProc}]
  /\ killed \in [Slot -> BOOLEAN]
  /\ chan \in [Slot -> Slot \cup {ticks, NoChan}]

CpuOK ==
  /\ lock \in CPU \cup {NoCPU} /\ panicked \in BOOLEAN
  /\ cpu \in [CPU -> Slot \cup {NoProc}]
  /\ scan \in [CPU -> 1 .. NPROC + 1]

ThreadOK ==
  /\ pc \in [Slot -> Pcs] /\ ret \in [Slot -> Pcs]
  /\ child \in [Slot -> Slot \cup {NoProc}]

ClockOK == tlock \in CPU \cup {NoCPU} /\ due \in [Slot -> Nat]

TypeOK == StateOK /\ TableOK /\ CpuOK /\ ThreadOK /\ ClockOK

Alive(p) == state[p] \in {"SLEEPING", "RUNNABLE", "RUNNING"}

(* One kernel stack, one CPU: no two CPUs execute the same process, and a  *)
(* process that is on a CPU is RUNNING unless that CPU holds ptable.lock   *)
(* and is still switching away from it.  In particular wait never frees    *)
(* the stack of a zombie that is still running on it, and no CPU resumes a *)
(* process whose context has not been saved yet.                           *)
OneStackOneCPU ==
  /\ \A c, d \in CPU : cpu[c] = cpu[d] /\ cpu[c] # NoProc => c = d
  /\ \A c \in CPU : cpu[c] # NoProc => state[cpu[c]] = "RUNNING" \/ lock = c
  /\ \A p \in Slot : state[p] = "RUNNING" => \E c \in CPU : cpu[c] = p

(* Every process but init has a living parent: exit hands the children of  *)
(* a dying process to init before anyone can see it as a zombie.           *)
ParentLives ==
  \A p \in Slot :
    p # initproc /\ (Alive(p) \/ state[p] = "ZOMBIE") =>
      parent[p] \in Slot /\ Alive(parent[p])

(* No exit is missed: a process asleep in wait() has children, none of     *)
(* them a zombie, and has not been killed, whichever of its children or    *)
(* grandchildren exit and on whatever CPU.                                 *)
NoMissedExit ==
  \A p \in Slot :
    state[p] = "SLEEPING" /\ chan[p] = p =>
      /\ Children(p) # {} /\ ~killed[p]
      /\ \A q \in Children(p) : state[q] # "ZOMBIE"

(* No tick is missed: a process asleep in sleep(n) still has ticks to go,  *)
(* although the clock handler may run on another CPU between its test of   *)
(* ticks and its falling asleep.                                           *)
NoMissedTick ==
  \A p \in Slot : state[p] = "SLEEPING" /\ chan[p] = ticks => due[p] > 0

(* pids identify processes: kill and wait never confuse two of them. *)
UniquePids ==
  \A p, q \in Slot :
    state[p] # "UNUSED" /\ state[q] # "UNUSED" /\ pid[p] = pid[q] => p = q

(* No starvation: every RUNNABLE process is eventually run, because a pass *)
(* of the scheduler goes on behind the process it has just run.            *)
RunnableRuns == \A p \in Slot : state[p] = "RUNNABLE" ~> state[p] = "RUNNING"

(* Zombies that init inherits or bears are eventually reaped. *)
OrphansReaped ==
  \A p \in Slot : state[p] = "ZOMBIE" /\ parent[p] = initproc ~> state[p] = "UNUSED"

(* No wakeup is missed, by waiting parents or by sleepers. *)
NoMissedWakeup == NoMissedExit /\ NoMissedTick

-----------------------------------------------------------------------------
(* The inductive strengthening, in named parts. *)

OnCpu(p) == \E c \in CPU : cpu[c] = p

(* Where a thread is, or will be when it runs again. *)
Loc(p) == IF pc[p] \in {"yield", "sched", "resume"} THEN ret[p] ELSE pc[p]

(* ptable.lock is held across swtch, by the thread that leaves a CPU and   *)
(* by the one that comes; threads off the CPUs are inside swtch.           *)
StackInv ==
  /\ \A c, d \in CPU : cpu[c] = cpu[d] /\ cpu[c] # NoProc => c = d
  /\ \A c \in CPU : cpu[c] # NoProc =>
       IF pc[cpu[c]] = "sched"
         THEN lock = c /\ state[cpu[c]] \in {"RUNNABLE", "SLEEPING", "ZOMBIE"}
         ELSE state[cpu[c]] = "RUNNING" /\ (lock = c <=> pc[cpu[c]] \in {"resume", "wait"})
  /\ \A p \in Slot : ~OnCpu(p) => pc[p] = "resume" /\ state[p] # "RUNNING"

RetInv ==
  \A p \in Slot :
    /\ ret[p] \in {"user", "trapret", "fork_alloc", "fork_run", "exit", "tick_lock", "wait"}
    /\ pc[p] \notin {"yield", "sched", "resume"} \/ ~Alive(p) => ret[p] = "user"
    /\ pc[p] = "yield" => ret[p] # "wait"

(* tickslock is held from the test of ticks until sleep has ptable.lock. *)
TickInv ==
  /\ \A c \in CPU : tlock = c <=> cpu[c] # NoProc /\ pc[cpu[c]] \in {"tick_test", "sleep"}
  /\ \A p \in Slot : pc[p] = "sleep" => due[p] > 0

(* A new process belongs to the fork that makes it. *)
ChildInv ==
  /\ \A p \in Slot : child[p] # NoProc <=> Loc(p) \in {"fork_alloc", "fork_run"}
  /\ \A p \in Slot : child[p] # NoProc =>
       /\ state[child[p]] = "EMBRYO"
       /\ parent[child[p]] = IF Loc(p) = "fork_run" THEN p ELSE NoProc
  /\ \A p, q \in Slot : child[p] # NoProc /\ child[p] = child[q] => p = q

ParentInv ==
  /\ Alive(initproc) /\ parent[initproc] = NoProc
  /\ \A p \in Slot :
       /\ parent[p] # NoProc => parent[p] # p /\ Alive(parent[p])
       /\ p # initproc /\ (Alive(p) \/ state[p] = "ZOMBIE") => parent[p] # NoProc
       /\ state[p] = "UNUSED" => parent[p] = NoProc

ChanInv == \A p \in Slot : chan[p] \in {p, ticks, NoChan}

PidInv == UniquePids /\ \A p \in Slot : pid[p] < nextpid

(* The inductive invariant of proc.c: how ptable.lock, the CPUs, the       *)
(* states of processes and their parents hang together.                    *)
ProcInv ==
  /\ TypeOK /\ StackInv /\ RetInv /\ TickInv /\ ChildInv /\ ParentInv /\ ChanInv /\ PidInv
  /\ NoMissedExit /\ NoMissedTick
=============================================================================
