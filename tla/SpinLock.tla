------------------------------ MODULE SpinLock ------------------------------
(***************************************************************************)
(* The spinlocks of spinlock.c: acquire, release, pushcli and popcli, on   *)
(* CPUs that take interrupts and on which the scheduler moves kernel       *)
(* threads from one CPU to another (sched and scheduler of proc.c).        *)
(*                                                                         *)
(* A context is a process's kernel thread or a CPU's scheduler.  It takes  *)
(* locks in the order device lock, ptable.lock, as the kernel does, and    *)
(* releases them in any order (sleep releases the device lock first).      *)
(* Interrupts push a frame; the handler takes locks like everybody else.   *)
(* Locals are reset when they are dead, to keep the states few.            *)
(***************************************************************************)
EXTENDS Integers, Sequences

CONSTANTS
  CPU, NoCPU,   \* processors; lk->cpu = 0
  Thread        \* kernel threads of processes

ASSUME SpinAssumption == NoCPU \notin CPU /\ CPU \cap Thread = {}

Lock == {"dev", "ptable"}

VARIABLES
  locked, cpu,     \* lk->locked, lk->cpu
  IF_, ncli, intena,  \* per CPU: the interrupt flag, struct cpu
  running,         \* the context each CPU runs
  pc, arg, eflags, \* per context: where it is, the lock it works on, pushcli's local
  frames,          \* per context: the traps it is in, and what they interrupted
  held,            \* per context: the locks it has to release
  saved,           \* per thread: sched's local intena
  ready,           \* threads that wait to be switched to
  fresh,           \* threads that start in forkret
  panicked

lockVars == <<locked, cpu>>
cpuVars  == <<IF_, ncli, intena>>
ctxVars  == <<pc, arg, eflags, frames, held>>
schedVars == <<running, saved, ready, fresh>>
vars == <<lockVars, cpuVars, ctxVars, schedVars, panicked>>

(* The scheduler of CPU c is context c. *)
Context == Thread \cup CPU

Pcs == {"run", "cli", "xchg", "setcpu", "unlock", "sti"}

(* What a trap interrupted; gate is FALSE in the frame that allocproc makes.*)
Frame == [gate : BOOLEAN, pc : Pcs, arg : Lock, eflags : BOOLEAN]

(* mpmain: every CPU is in its scheduler.  allocproc gives a new thread a  *)
(* trap frame, to which forkret returns.                                   *)
Init ==
  /\ locked = [l \in Lock |-> FALSE] /\ cpu = [l \in Lock |-> NoCPU]
  /\ IF_ = [c \in CPU |-> TRUE] /\ ncli = [c \in CPU |-> 0] /\ intena = [c \in CPU |-> FALSE]
  /\ running = [c \in CPU |-> c]
  /\ pc = [x \in Context |-> "run"] /\ arg = [x \in Context |-> "ptable"]
  /\ eflags = [x \in Context |-> FALSE]
  /\ frames = [x \in Context |->
                 IF x \in CPU THEN <<>> ELSE <<[gate |-> FALSE, pc |-> "run", arg |-> "ptable", eflags |-> FALSE]>>]
  /\ held = [x \in Context |-> {}]
  /\ saved = [t \in Thread |-> FALSE]
  /\ ready = Thread /\ fresh = Thread
  /\ panicked = FALSE

(* CPU c runs context x, which is at label l. *)
At(c, x, l) == ~panicked /\ running[c] = x /\ pc[x] = l

holding(l, c) == locked[l] /\ cpu[l] = c

Panic == panicked' = TRUE /\ UNCHANGED <<lockVars, cpuVars, ctxVars, schedVars>>

-----------------------------------------------------------------------------
(* acquire ... pushcli reads the flags while interrupts may still come. *)
pushcli_read(c, x, l) ==
  /\ At(c, x, "run")
  /\ l \notin held[x] /\ "ptable" \notin held[x]
  /\ x \in CPU /\ frames[x] = <<>> => l = "ptable"
  /\ eflags' = [eflags EXCEPT ![x] = IF_[c]]
  /\ arg' = [arg EXCEPT ![x] = l]
  /\ pc' = [pc EXCEPT ![x] = "cli"]
  /\ UNCHANGED <<lockVars, cpuVars, frames, held, schedVars, panicked>>

(* Mutant: interrupts stay on. *)
StayOn(c) == IF_

Cli(c) == [IF_ EXCEPT ![c] = FALSE]

(* ... disables them, records what they were, and acquire tests holding. *)
pushcli(c, x) ==
  /\ At(c, x, "cli")
  /\ IF holding(arg[x], c)
       THEN Panic                                          \* panic("acquire")
       ELSE /\ IF_' = Cli(c)
            /\ intena' = IF ncli[c] = 0 THEN [intena EXCEPT ![c] = eflags[x]] ELSE intena
            /\ ncli' = [ncli EXCEPT ![c] = @ + 1]
            /\ eflags' = [eflags EXCEPT ![x] = FALSE]
            /\ pc' = [pc EXCEPT ![x] = "xchg"]
            /\ UNCHANGED <<lockVars, arg, frames, held, schedVars, panicked>>

(* Mutant: the test and the store are not one instruction. *)
AlwaysFree(l) == TRUE

Free(l) == ~locked[l]

(* The xchg that finds the lock free. *)
xchg(c, x) ==
  /\ At(c, x, "xchg")
  /\ Free(arg[x])
  /\ locked' = [locked EXCEPT ![arg[x]] = TRUE]
  /\ pc' = [pc EXCEPT ![x] = "setcpu"]
  /\ UNCHANGED <<cpu, cpuVars, arg, eflags, frames, held, schedVars, panicked>>

acquired(c, x) ==
  /\ At(c, x, "setcpu")
  /\ cpu' = [cpu EXCEPT ![arg[x]] = c]
  /\ held' = [held EXCEPT ![x] = @ \cup {arg[x]}]
  /\ arg' = [arg EXCEPT ![x] = "ptable"]
  /\ pc' = [pc EXCEPT ![x] = "run"]
  /\ UNCHANGED <<locked, cpuVars, eflags, frames, schedVars, panicked>>

(* Mutant: lk->cpu is left behind. *)
StaleOwner(l) == cpu

NoOwner(l) == [cpu EXCEPT ![l] = NoCPU]

(* release up to lk->cpu = 0. *)
release(c, x, l) ==
  /\ At(c, x, "run")
  /\ l \in held[x]
  /\ IF ~holding(l, c)
       THEN Panic                                          \* panic("release")
       ELSE /\ cpu' = NoOwner(l)
            /\ arg' = [arg EXCEPT ![x] = l]
            /\ pc' = [pc EXCEPT ![x] = "unlock"]
            /\ UNCHANGED <<locked, cpuVars, eflags, frames, held, schedVars, panicked>>

(* Mutant: the first popcli enables interrupts. *)
FirstPop(c) == intena[c]

(* Mutant: popcli counts twice. *)
PopTwo(n) == n - 2

PopOne(n) == n - 1

LastPop(c) == ncli[c] = 1 /\ intena[c]

(* The store of release that frees the lock. *)
Unlock(l) == [locked EXCEPT ![l] = FALSE]

(* That store and popcli; the scheduler goes round to its sti. *)
popcli(c, x) ==
  /\ At(c, x, "unlock")
  /\ IF IF_[c] \/ ncli[c] = 0
       THEN Panic                          \* panic("popcli - interruptible") or panic("popcli")
       ELSE /\ locked' = Unlock(arg[x])
            /\ ncli' = [ncli EXCEPT ![c] = PopOne(@)]
            /\ IF_' = IF LastPop(c) THEN [IF_ EXCEPT ![c] = TRUE] ELSE IF_
            /\ held' = [held EXCEPT ![x] = @ \ {arg[x]}]
            /\ pc' = [pc EXCEPT ![x] = IF x \in CPU /\ frames[x] = <<>> THEN "sti" ELSE "run"]
            /\ arg' = [arg EXCEPT ![x] = "ptable"]
            /\ UNCHANGED <<cpu, intena, eflags, frames, schedVars, panicked>>

-----------------------------------------------------------------------------
(* A trap through an interrupt gate, which turns interrupts off ... *)
interrupt(c) ==
  LET x == running[c]
  IN /\ ~panicked /\ IF_[c]
     /\ frames' = [frames EXCEPT ![x] = Append(@, [gate |-> TRUE, pc |-> pc[x], arg |-> arg[x], eflags |-> eflags[x]])]
     /\ pc' = [pc EXCEPT ![x] = "run"]
     /\ IF_' = [IF_ EXCEPT ![c] = FALSE]
     /\ UNCHANGED <<lockVars, ncli, intena, arg, eflags, held, schedVars, panicked>>

(* ... and the iret that restores them. *)
trapret(c, x) ==
  /\ At(c, x, "run")
  /\ held[x] = {} /\ frames[x] # <<>>
  /\ LET f == frames[x][Len(frames[x])]
     IN /\ pc' = [pc EXCEPT ![x] = f.pc]
        /\ arg' = [arg EXCEPT ![x] = f.arg]
        /\ eflags' = [eflags EXCEPT ![x] = f.eflags]
  /\ frames' = [frames EXCEPT ![x] = SubSeq(@, 1, Len(@) - 1)]
  /\ IF_' = [IF_ EXCEPT ![c] = TRUE]
  /\ UNCHANGED <<lockVars, ncli, intena, held, schedVars, panicked>>

(* sched, called by sleep, exit and (in a trap) yield: to the scheduler. *)
sched(c, x) ==
  /\ At(c, x, "run")
  /\ x \in Thread /\ held[x] = {"ptable"}
  /\ IF ~holding("ptable", c) \/ ncli[c] # 1 \/ IF_[c]
       THEN Panic                          \* panic("sched ptable.lock") and others
       ELSE /\ saved' = [saved EXCEPT ![x] = intena[c]]
            /\ running' = [running EXCEPT ![c] = c]
            /\ ready' = ready \cup {x}
            /\ UNCHANGED <<lockVars, cpuVars, ctxVars, fresh, panicked>>

(* Mutant: intena is left as the CPU has it. *)
KeepIntena(c, t) == intena

(* The end of sched: intena belongs to the thread.  forkret has none. *)
RestoreIntena(c, t) == IF t \in fresh THEN intena ELSE [intena EXCEPT ![c] = saved[t]]

(* The scheduler switches to a thread, which releases ptable.lock. *)
scheduler(c, t) ==
  /\ At(c, c, "run")
  /\ frames[c] = <<>> /\ held[c] = {"ptable"}
  /\ t \in ready
  /\ ready' = ready \ {t} /\ fresh' = fresh \ {t}
  /\ running' = [running EXCEPT ![c] = t]
  /\ held' = [held EXCEPT ![t] = {"ptable"}]
  /\ intena' = RestoreIntena(c, t)
  /\ saved' = [saved EXCEPT ![t] = FALSE]
  /\ UNCHANGED <<lockVars, IF_, ncli, pc, arg, eflags, frames, panicked>>

(* The sti at the head of the scheduler's loop. *)
sti(c) ==
  /\ At(c, c, "sti")
  /\ IF_' = [IF_ EXCEPT ![c] = TRUE]
  /\ pc' = [pc EXCEPT ![c] = "run"]
  /\ UNCHANGED <<lockVars, ncli, intena, arg, eflags, frames, held, schedVars, panicked>>

-----------------------------------------------------------------------------
Next ==
  \E c \in CPU :
    \/ \E x \in Context :
         \/ \E l \in Lock : pushcli_read(c, x, l) \/ release(c, x, l)
         \/ pushcli(c, x) \/ xchg(c, x) \/ acquired(c, x) \/ popcli(c, x)
         \/ trapret(c, x) \/ sched(c, x)
    \/ interrupt(c) \/ sti(c)
    \/ \E t \in Thread : scheduler(c, t)

Spec == Init /\ [][Next]_vars

-----------------------------------------------------------------------------
(* The types of the locks, the CPUs and the contexts that run on them. *)
LockOK  == locked \in [Lock -> BOOLEAN] /\ cpu \in [Lock -> CPU \cup {NoCPU}] /\ panicked \in BOOLEAN
CpuOK   == IF_ \in [CPU -> BOOLEAN] /\ ncli \in [CPU -> Nat] /\ intena \in [CPU -> BOOLEAN]
PlaceOK == pc \in [Context -> Pcs] /\ arg \in [Context -> Lock] /\ eflags \in [Context -> BOOLEAN]
FrameOK == frames \in [Context -> Seq(Frame)]
HeldOK  == held \in [Context -> SUBSET Lock]
SchedOK ==
  /\ running \in [CPU -> Context]
  /\ saved \in [Thread -> BOOLEAN] /\ ready \subseteq Thread /\ fresh \subseteq Thread
TypeOK  == LockOK /\ CpuOK /\ PlaceOK /\ FrameOK /\ HeldOK /\ SchedOK

(* CPU c has taken lock l and not given it back: its context holds it, or  *)
(* is between xchg and the end of acquire.                                 *)
Inside(c, l) ==
  LET x == running[c]
  IN l \in held[x] \/ (pc[x] = "setcpu" /\ arg[x] = l)

(* Mutual exclusion, also for ptable.lock, which passes from thread to     *)
(* thread in swtch: no two CPUs are inside the same lock.                  *)
MutualExclusion ==
  \A l \in Lock : \A c, d \in CPU : Inside(c, l) /\ Inside(d, l) => c = d

(* How many of the two locks S has. *)
HowMany(S) == (IF "dev" \in S THEN 1 ELSE 0) + (IF "ptable" \in S THEN 1 ELSE 0)

(* A CPU that holds a lock takes no interrupts ("disable interrupts to     *)
(* avoid deadlock"), and ncli counts its locks and the one it waits for.   *)
LocksMaskInterrupts ==
  \A c \in CPU :
    LET x == running[c]
        pending == IF pc[x] \in {"xchg", "setcpu"} THEN 1 ELSE 0
    IN /\ ncli[c] = HowMany(held[x]) + pending
       /\ ncli[c] > 0 => ~IF_[c]

(* pushcli and popcli leave interrupts as they found them, wherever the    *)
(* thread was moved meanwhile: off in a handler, on in a thread.           *)
InterruptsRestored ==
  \A c \in CPU :
    LET x == running[c]
        n == Len(frames[x])
    IN pc[x] \in {"run", "cli"} /\ held[x] = {} =>
         /\ n > 0 /\ frames[x][n].gate => ~IF_[c]
         /\ n = 0 => IF_[c]

(* holding, which reads lk->cpu without the lock, tells a CPU the truth.   *)
HoldingIsExact ==
  \A c \in CPU, l \in Lock :
    holding(l, c) <=> l \in held[running[c]] /\ ~(pc[running[c]] = "unlock" /\ arg[running[c]] = l)

(* None of the panics of acquire, release, popcli and sched is reached.    *)
NoPanic == ~panicked

-----------------------------------------------------------------------------
(* The inductive strengthening, in named parts. *)

Depth(x)  == Len(frames[x])
InGate(x) == Depth(x) > 0 /\ frames[x][Depth(x)].gate

(* A CPU runs its scheduler or a thread of its own; what does not run      *)
(* stopped in swtch, where ptable.lock is held, or in allocproc.           *)
PlaceInv ==
  /\ \A c \in CPU : running[c] \in {c} \cup (Thread \ ready)
  /\ \A c, d \in CPU : running[c] = running[d] => c = d
  /\ \A c \in CPU : running[c] # c => pc[c] = "run" /\ frames[c] = <<>> /\ held[c] = {"ptable"}
  /\ fresh \subseteq ready
  /\ \A t \in ready :
       /\ pc[t] = "run" /\ held[t] = IF t \in fresh THEN {} ELSE {"ptable"}
       /\ t \in fresh => Depth(t) > 0 /\ ~InGate(t)
       /\ t \notin fresh => (InGate(t) => ~saved[t]) /\ (Depth(t) = 0 => saved[t])

(* Traps nest only above the frame that allocproc makes, and come only     *)
(* where no lock is held or waited for.                                    *)
FrameInv ==
  \A x \in Context : \A i \in 1 .. Depth(x) :
    LET f == frames[x][i]
    IN /\ f.pc \in {"run", "cli", "sti"}
       /\ f.pc = "cli" => f.eflags /\ (x \in CPU => f.arg = "ptable")
       /\ f.pc = "sti" => x \in CPU /\ i = 1
       /\ IF f.gate THEN i > 1 => ~frames[x][i - 1].gate ELSE i = 1 /\ f.pc = "run" /\ x \in Thread

(* Where a running context is tells what it holds, and intena what is to   *)
(* be restored.                                                            *)
StepInv ==
  \A c \in CPU :
    LET x == running[c]
    IN /\ pc[x] \in {"cli", "xchg", "setcpu"} => arg[x] \notin held[x] /\ "ptable" \notin held[x]
       /\ pc[x] = "cli" => eflags[x] = IF_[c]
       /\ pc[x] = "unlock" => arg[x] \in held[x]
       /\ pc[x] = "sti" => x = c /\ frames[x] = <<>> /\ held[x] = {}
       /\ x \in CPU /\ frames[x] = <<>> =>
            held[x] \subseteq {"ptable"} /\ (pc[x] \in {"cli", "xchg", "setcpu"} => arg[x] = "ptable")
       /\ ncli[c] > 0 => (InGate(x) => ~intena[c]) /\ (Depth(x) = 0 /\ x \in Thread => intena[c])

(* Who is inside a lock has locked it, and lk->cpu is set and cleared in   *)
(* between.                                                                *)
OwnerInv ==
  \A c \in CPU, l \in Lock :
    /\ Inside(c, l) => locked[l]
    /\ cpu[l] = c <=> l \in held[running[c]] /\ ~(pc[running[c]] = "unlock" /\ arg[running[c]] = l)

(* The locks are what holding and the panics of spinlock.c and sched take  *)
(* them for.                                                               *)
LockInv ==
  /\ TypeOK /\ HoldingIsExact /\ NoPanic /\ PlaceInv /\ FrameInv /\ StepInv /\ OwnerInv
  /\ MutualExclusion /\ LocksMaskInterrupts /\ InterruptsRestored
=============================================================================
