------------------------------ MODULE ProcProof ------------------------------
(***************************************************************************)
(* ProcInv is an invariant of proc.c for any number of processors, slots   *)
(* and pids: one lemma per action.  The actions that neither make, end nor *)
(* free a process share the frame lemmas.                                  *)
(***************************************************************************)
EXTENDS Proc, TLAPS

USE DEF ptable, thread, clock

(* The null pointer and &ticks are not slots. *)
LEMMA Names ==
  /\ NoProc \notin Slot /\ NoChan \notin Slot /\ ticks \notin Slot
  /\ ticks # NoChan /\ NoProc = NoChan /\ initproc \in Slot
  /\ \A p \in Slot : p + 1 \in 1 .. NPROC + 1
  /\ 1 \in 1 .. NPROC + 1
BY NPROCAssumption DEF Slot, NoProc, NoChan, ticks, initproc

(* After userinit the invariant holds. *)
LEMMA InitInv == Init => ProcInv
<1> SUFFICES ASSUME Init PROVE ProcInv
  BY Zenon
<1>1. TypeOK
  BY Zenon, Names DEF TypeOK, StateOK, TableOK, CpuOK, ThreadOK, ClockOK, States, Pcs, Init
<1>2. StackInv /\ RetInv /\ TickInv
  BY Zenon, CPUAssumption DEF StackInv, RetInv, TickInv, Init
<1>3. ChildInv /\ ParentInv /\ ChanInv
  BY Zenon, Names DEF ChildInv, Loc, ParentInv, Alive, ChanInv, Init
<1>4. PidInv
  BY DEF PidInv, UniquePids, Init
<1>5. NoMissedExit /\ NoMissedTick
  BY Zenon DEF NoMissedExit, NoMissedTick, Init
<1> QED
  BY Zenon, <1>1, <1>2, <1>3, <1>4, <1>5 DEF ProcInv

-----------------------------------------------------------------------------
(* A step that neither makes, ends nor frees a process. *)
SameKind == \A q \in Slot : (Alive(q)' <=> Alive(q)) /\ (~Alive(q) => state'[q] = state[q])

(* A step that neither begins, carries on nor ends a fork. *)
SameForks ==
  \A q \in Slot : Loc(q)' = Loc(q) \/ (Loc(q) \notin {"fork_alloc", "fork_run"} /\ Loc(q)' \notin {"fork_alloc", "fork_run"})

(* A step in which nobody falls asleep, and nobody asleep is disturbed. *)
NobodySleeps ==
  \A q \in Slot : state'[q] = "SLEEPING" =>
    /\ state[q] = "SLEEPING" /\ chan'[q] = chan[q] /\ killed'[q] = killed[q]
    /\ chan[q] = ticks => due'[q] = due[q]

(* Families, forks and pids are as they were. *)
LEMMA FamilyFrame ==
  ASSUME ProcInv, SameKind, SameForks, UNCHANGED <<parent, child, pid, nextpid>>
  PROVE  ChildInv' /\ ParentInv' /\ PidInv'
<1>1. ChildInv'
  BY DEF ChildInv, SameForks, ProcInv, TypeOK, ThreadOK, SameKind, Alive
<1>2. ParentInv'
  BY Names DEF ParentInv, ProcInv, TypeOK, TableOK, SameKind, Alive
<1>3. PidInv'
  BY ZenonT(30) DEF PidInv, UniquePids, ProcInv, SameKind, Alive
<1> QED
  BY Zenon, <1>1, <1>2, <1>3

(* Nobody misses a wakeup in a step without new zombies. *)
LEMMA SleepFrame ==
  ASSUME ProcInv, NobodySleeps, UNCHANGED parent,
         \A q \in Slot : state'[q] = "ZOMBIE" => state[q] = "ZOMBIE"
  PROVE  NoMissedExit' /\ NoMissedTick'
BY ZenonT(30) DEF ProcInv, NobodySleeps, NoMissedExit, NoMissedTick, Children

(* A thread on a CPU, and not in swtch, is that of a RUNNING process. *)
LEMMA Running ==
  ASSUME ProcInv, NEW c \in CPU, NEW p \in Slot, cpu[c] = p, pc[p] # "sched"
  PROVE  /\ state[p] = "RUNNING" /\ OnCpu(p)
         /\ lock = c <=> pc[p] \in {"resume", "wait"}
         /\ tlock = c <=> pc[p] \in {"tick_test", "sleep"}
         /\ pc[p] \notin {"yield", "resume"} => ret[p] = "user"
         /\ \A d \in CPU : cpu[d] = p => d = c
BY ZenonT(30), Names DEF ProcInv, StackInv, TickInv, RetInv

(* A step of the thread of p on CPU c, which may take or release           *)
(* ptable.lock; other processes are woken, or are on no CPU.               *)
LEMMA StackFrame ==
  ASSUME ProcInv, NEW c \in CPU, NEW p \in Slot, cpu[c] = p, pc[p] # "sched", cpu' = cpu,
         \A q \in Slot : q # p => pc'[q] = pc[q],
         \A q \in Slot : q # p =>
           \/ state'[q] = state[q]
           \/ state[q] = "SLEEPING" /\ state'[q] = "RUNNABLE"
           \/ ~OnCpu(q) /\ state'[q] # "RUNNING",
         \A d \in CPU : d # c => (lock' = d <=> lock = d),
         IF pc'[p] = "sched" THEN lock' = c /\ state'[p] \in {"RUNNABLE", "SLEEPING", "ZOMBIE"}
                             ELSE state'[p] = "RUNNING" /\ (lock' = c <=> pc'[p] \in {"resume", "wait"})
  PROVE  StackInv'
<1>1. /\ \A d, e \in CPU : cpu[d] = cpu[e] /\ cpu[d] # NoProc => d = e
      /\ \A q \in Slot : ~OnCpu(q) => pc[q] = "resume" /\ state[q] # "RUNNING"
      /\ \A d \in CPU : cpu[d] \in Slot \cup {NoProc}
  BY Zenon DEF ProcInv, StackInv, TypeOK, CpuOK
<1>2. ASSUME NEW d \in CPU, cpu'[d] # NoProc
      PROVE  IF pc'[cpu'[d]] = "sched"
               THEN lock' = d /\ state'[cpu'[d]] \in {"RUNNABLE", "SLEEPING", "ZOMBIE"}
               ELSE state'[cpu'[d]] = "RUNNING" /\ (lock' = d <=> pc'[cpu'[d]] \in {"resume", "wait"})
  <2>1. CASE d = c
    BY Zenon, <2>1
  <2>2. CASE d # c
    <3>1. PICK q \in Slot : cpu[d] = q
      BY Zenon, <1>1, <1>2
    <3>2. q # p /\ OnCpu(q)
      BY Zenon, <1>1, <1>2, <2>2, <3>1 DEF OnCpu
    <3>3. IF pc[q] = "sched" THEN lock = d /\ state[q] \in {"RUNNABLE", "SLEEPING", "ZOMBIE"}
                             ELSE state[q] = "RUNNING" /\ (lock = d <=> pc[q] \in {"resume", "wait"})
      BY Zenon, <1>2, <3>1 DEF ProcInv, StackInv
    <3>4. pc'[q] = pc[q] /\ (lock' = d <=> lock = d) /\ cpu'[d] = q
      BY Zenon, <2>2, <3>1, <3>2
    <3>5. state'[q] = state[q] \/ (state[q] = "SLEEPING" /\ state'[q] = "RUNNABLE")
      BY Zenon, <3>2
    <3> QED
      BY Zenon, <3>3, <3>4, <3>5
  <2> QED
    BY Zenon, <2>1, <2>2
<1>3. ASSUME NEW q \in Slot, ~OnCpu(q)'
      PROVE  pc'[q] = "resume" /\ state'[q] # "RUNNING"
  <2>1. ~OnCpu(q) /\ q # p
    BY Zenon, <1>3 DEF OnCpu
  <2>2. pc[q] = "resume" /\ state[q] # "RUNNING" /\ pc'[q] = pc[q]
    BY Zenon, <1>1, <2>1
  <2>3. \/ state'[q] = state[q]
        \/ state[q] = "SLEEPING" /\ state'[q] = "RUNNABLE"
        \/ ~OnCpu(q) /\ state'[q] # "RUNNING"
    BY Zenon, <2>1
  <2> QED
    BY Zenon, <2>2, <2>3
<1> QED
  BY ZenonT(30), <1>1, <1>2, <1>3 DEF StackInv

(* The same for tickslock. *)
LEMMA TickFrame ==
  ASSUME ProcInv, NEW c \in CPU, NEW p \in Slot, cpu[c] = p, cpu' = cpu,
         \A q \in Slot : q # p => pc'[q] = pc[q] /\ due'[q] = due[q],
         \A d \in CPU : d # c => (tlock' = d <=> tlock = d),
         tlock' = c <=> pc'[p] \in {"tick_test", "sleep"},
         pc'[p] = "sleep" => due'[p] > 0
  PROVE  TickInv'
<1>1. ASSUME NEW d \in CPU
      PROVE  tlock' = d <=> cpu'[d] # NoProc /\ pc'[cpu'[d]] \in {"tick_test", "sleep"}
  <2>1. CASE d = c
    BY Zenon, <2>1, Names
  <2>2. CASE d # c
    <3>1. tlock = d <=> cpu[d] # NoProc /\ pc[cpu[d]] \in {"tick_test", "sleep"}
      BY Zenon DEF ProcInv, TickInv
    <3>2. cpu[d] # NoProc => cpu[d] \in Slot /\ cpu[d] # p
      <4>1. cpu[d] \in Slot \cup {NoProc}
        BY Zenon DEF ProcInv, TypeOK, CpuOK
      <4>2. cpu[d] = cpu[c] /\ cpu[d] # NoProc => d = c
        BY Zenon DEF ProcInv, StackInv
      <4> QED
        BY Zenon, <2>2, <4>1, <4>2
    <3>3. cpu[d] # NoProc => pc'[cpu[d]] = pc[cpu[d]]
      BY Zenon, <3>2
    <3> QED
      BY Zenon, <2>2, <3>1, <3>3
  <2> QED
    BY Zenon, <2>1, <2>2
<1>2. ASSUME NEW q \in Slot, pc'[q] = "sleep"
      PROVE  due'[q] > 0
  BY Zenon, <1>2 DEF ProcInv, TickInv
<1> QED
  BY Zenon, <1>1, <1>2 DEF TickInv

(* The same for the places where threads go on when they run again. *)
LEMMA RetFrame ==
  ASSUME ProcInv, NEW p \in Slot,
         \A q \in Slot : q # p => pc'[q] = pc[q] /\ ret'[q] = ret[q] /\ (Alive(q) => Alive(q)' \/ ret[q] = "user"),
         ret'[p] \in {"user", "trapret", "fork_alloc", "fork_run", "exit", "tick_lock", "wait"},
         pc'[p] \notin {"yield", "sched", "resume"} \/ ~Alive(p)' => ret'[p] = "user",
         pc'[p] = "yield" => ret'[p] # "wait"
  PROVE  RetInv'
<1>1. ASSUME NEW q \in Slot, q # p
      PROVE  /\ ret'[q] \in {"user", "trapret", "fork_alloc", "fork_run", "exit", "tick_lock", "wait"}
             /\ pc'[q] \notin {"yield", "sched", "resume"} \/ ~Alive(q)' => ret'[q] = "user"
             /\ pc'[q] = "yield" => ret'[q] # "wait"
  <2>1. pc'[q] = pc[q] /\ ret'[q] = ret[q] /\ (Alive(q) => Alive(q)' \/ ret[q] = "user")
    BY Zenon, <1>1
  <2>2. /\ ret[q] \in {"user", "trapret", "fork_alloc", "fork_run", "exit", "tick_lock", "wait"}
        /\ pc[q] \notin {"yield", "sched", "resume"} \/ ~Alive(q) => ret[q] = "user"
        /\ pc[q] = "yield" => ret[q] # "wait"
    BY Zenon DEF ProcInv, RetInv
  <2> QED
    BY Zenon, <2>1, <2>2
<1>2. ASSUME NEW q \in Slot, q = p
      PROVE  /\ ret'[q] \in {"user", "trapret", "fork_alloc", "fork_run", "exit", "tick_lock", "wait"}
             /\ pc'[q] \notin {"yield", "sched", "resume"} \/ ~Alive(q)' => ret'[q] = "user"
             /\ pc'[q] = "yield" => ret'[q] # "wait"
  BY Zenon, <1>2 DEF Alive
<1> QED
  BY Zenon, <1>1, <1>2 DEF RetInv

(* No process gets a pid but by allocproc. *)
LEMMA PidFrame ==
  ASSUME ProcInv, \A q \in Slot : pid'[q] < nextpid',
         \A q \in Slot : state'[q] # "UNUSED" => state[q] # "UNUSED" /\ pid'[q] = pid[q]
  PROVE  PidInv'
BY Zenon DEF ProcInv, PidInv, UniquePids

(* Only the thread p starts or ends a fork, and nobody touches the slots   *)
(* that other forks have in hand.                                          *)
LEMMA ChildFrame ==
  ASSUME ProcInv, NEW p \in Slot,
         \A q \in Slot : q # p => child'[q] = child[q] /\ Loc(q)' = Loc(q),
         \A q, k \in Slot : q # p /\ child[q] = k => state'[k] = "EMBRYO" /\ parent'[k] = parent[k],
         child'[p] # NoProc <=> Loc(p)' \in {"fork_alloc", "fork_run"},
         child'[p] # NoProc =>
           /\ state'[child'[p]] = "EMBRYO"
           /\ parent'[child'[p]] = IF Loc(p)' = "fork_run" THEN p ELSE NoProc
           /\ \A q \in Slot : q # p => child[q] # child'[p]
  PROVE  ChildInv'
<1>1. /\ \A q \in Slot : child[q] \in Slot \cup {NoProc}
      /\ \A q \in Slot : child[q] # NoProc <=> Loc(q) \in {"fork_alloc", "fork_run"}
      /\ \A q, s \in Slot : child[q] # NoProc /\ child[q] = child[s] => q = s
  BY Zenon DEF ProcInv, ChildInv, TypeOK, ThreadOK
<1>2. ASSUME NEW q \in Slot, q # p
      PROVE  /\ child'[q] # NoProc <=> Loc(q)' \in {"fork_alloc", "fork_run"}
             /\ child'[q] # NoProc =>
                  /\ state'[child'[q]] = "EMBRYO"
                  /\ parent'[child'[q]] = IF Loc(q)' = "fork_run" THEN q ELSE NoProc
  <2>1. child'[q] = child[q] /\ Loc(q)' = Loc(q)
    BY Zenon, <1>2
  <2>2. CASE child[q] = NoProc
    BY Zenon, <1>1, <2>1, <2>2
  <2>3. CASE child[q] # NoProc
    <3>1. PICK k \in Slot : child[q] = k
      BY Zenon, <1>1, <2>3
    <3>2. parent[k] = IF Loc(q) = "fork_run" THEN q ELSE NoProc
      BY Zenon, <2>3, <3>1 DEF ProcInv, ChildInv
    <3>3. state'[k] = "EMBRYO" /\ parent'[k] = parent[k]
      BY Zenon, <1>2, <3>1
    <3> QED
      BY Zenon, <1>1, <2>1, <2>3, <3>1, <3>2, <3>3
  <2> QED
    BY Zenon, <2>2, <2>3
<1>3. ASSUME NEW q \in Slot, q = p
      PROVE  /\ child'[q] # NoProc <=> Loc(q)' \in {"fork_alloc", "fork_run"}
             /\ child'[q] # NoProc =>
                  /\ state'[child'[q]] = "EMBRYO"
                  /\ parent'[child'[q]] = IF Loc(q)' = "fork_run" THEN q ELSE NoProc
  BY Zenon, <1>3 DEF Loc
<1>4. ASSUME NEW q \in Slot, NEW s \in Slot, child'[q] # NoProc, child'[q] = child'[s]
      PROVE  q = s
  <2>1. CASE q = p /\ s # p
    BY Zenon, <1>4, <2>1
  <2>2. CASE q # p /\ s = p
    BY Zenon, <1>4, <2>2
  <2>3. CASE q # p /\ s # p
    <3>1. child[q] # NoProc /\ child[q] = child[s]
      BY Zenon, <1>4, <2>3
    <3> QED
      BY Zenon, <1>1, <3>1
  <2> QED
    BY Zenon, <2>1, <2>2, <2>3
<1> QED
  BY Zenon, <1>2, <1>3, <1>4 DEF ChildInv

(* Nobody who is alive dies, and only a slot that nobody waits for loses   *)
(* its parent.                                                             *)
LEMMA ParentFrame ==
  ASSUME ProcInv, \A q \in Slot : Alive(q) => Alive(q)',
         \A q \in Slot :
           \/ /\ parent'[q] = parent[q] /\ (state'[q] = "UNUSED" => state[q] = "UNUSED" \/ parent[q] = NoProc)
              /\ Alive(q)' \/ state'[q] = "ZOMBIE" => Alive(q) \/ state[q] = "ZOMBIE" \/ parent[q] # NoProc
           \/ parent'[q] = NoProc /\ ~Alive(q)' /\ state'[q] # "ZOMBIE"
  PROVE  ParentInv'
<1>1. /\ Alive(initproc) /\ parent[initproc] = NoProc
      /\ \A q \in Slot :
           /\ parent[q] # NoProc => parent[q] # q /\ Alive(parent[q])
           /\ q # initproc /\ (Alive(q) \/ state[q] = "ZOMBIE") => parent[q] # NoProc
           /\ state[q] = "UNUSED" => parent[q] = NoProc
      /\ \A q \in Slot : parent[q] \in Slot \cup {NoProc}
  BY Zenon DEF ProcInv, ParentInv, TypeOK, TableOK
<1>2. Alive(initproc)' /\ parent'[initproc] = NoProc
  BY Zenon, <1>1, Names
<1>3. ASSUME NEW q \in Slot
      PROVE  /\ parent'[q] # NoProc => parent'[q] # q /\ Alive(parent[q])'
             /\ q # initproc /\ (Alive(q)' \/ state'[q] = "ZOMBIE") => parent'[q] # NoProc
             /\ state'[q] = "UNUSED" => parent'[q] = NoProc
  <2>1. CASE parent'[q] = NoProc /\ ~Alive(q)' /\ state'[q] # "ZOMBIE"
    BY Zenon, <2>1
  <2>2. CASE ~(parent'[q] = NoProc /\ ~Alive(q)' /\ state'[q] # "ZOMBIE")
    <3>1. /\ parent'[q] = parent[q] /\ (state'[q] = "UNUSED" => state[q] = "UNUSED" \/ parent[q] = NoProc)
          /\ Alive(q)' \/ state'[q] = "ZOMBIE" => Alive(q) \/ state[q] = "ZOMBIE" \/ parent[q] # NoProc
      BY Zenon, <2>2
    <3>2. ASSUME NEW r \in Slot, parent[q] = r
          PROVE  Alive(parent[q])'
      <4>1. Alive(r)' /\ parent'[q] = r
        BY Zenon, <1>1, <3>1, <3>2, Names
      <4> QED
        BY Zenon, <4>1 DEF Alive
    <3> QED
      BY Zenon, <1>1, <3>1, <3>2
  <2> QED
    BY Zenon, <2>1, <2>2
<1> QED
  BY Zenon, <1>2, <1>3 DEF ParentInv

-----------------------------------------------------------------------------
(* trap and the ends of system calls: the thread moves between user space, *)
(* trapret and exit, and may mark its own process killed.                  *)
LEMMA MoveInv ==
  ASSUME ProcInv, NEW c \in CPU, NEW p \in Slot, NEW l \in {"user", "trapret", "exit"},
         At(c, p, "user") \/ At(c, p, "trapret"), Goto(p, l),
         killed' \in [Slot -> BOOLEAN], \A q \in Slot : q # p => killed'[q] = killed[q],
         UNCHANGED <<state, pid, parent, chan, nextpid, lock, cpu, scan, ret, child, clock, panicked>>
  PROVE  ProcInv'
<1>1. state[p] = "RUNNING" /\ ret[p] = "user" /\ OnCpu(p)
  BY Zenon, Running DEF At
<1>2. TypeOK'
  BY Zenon DEF TypeOK, StateOK, TableOK, CpuOK, ThreadOK, ClockOK, Pcs, ProcInv, Goto
<1>3. StackInv' /\ TickInv' /\ RetInv' /\ ChanInv'
  BY DEF StackInv, OnCpu, TickInv, RetInv, Alive, ChanInv, ProcInv, At, Goto
<1>4. ChildInv' /\ ParentInv' /\ PidInv'
  <2>1. SameKind /\ SameForks
    BY Zenon DEF SameKind, Alive, SameForks, Loc, At, Goto, TypeOK, ThreadOK, ProcInv
  <2> QED
    BY Zenon, <2>1, FamilyFrame
<1>5. NoMissedExit' /\ NoMissedTick'
  BY Zenon, <1>1, SleepFrame DEF NobodySleeps
<1> QED
  BY Zenon, <1>2, <1>3, <1>4, <1>5 DEF ProcInv

(* Entries into the kernel and returns from it move the process alone. *)
LEMMA TrapInv ==
  ASSUME ProcInv, NEW c \in CPU, NEW p \in Slot,
         trapret(c, p) \/ trap_killed(c, p) \/ trap_fault(c, p) \/ sys_exit(c, p)
  PROVE  ProcInv'
<1>1. killed' \in [Slot -> BOOLEAN] /\ \A q \in Slot : q # p => killed'[q] = killed[q]
  BY Zenon DEF trapret, trap_killed, trap_fault, sys_exit, ProcInv, TypeOK, TableOK
<1>2. \E l \in {"user", "trapret", "exit"} : Goto(p, l)
  BY Zenon DEF trapret, trap_killed, trap_fault, sys_exit
<1> QED
  BY Zenon, <1>1, MoveInv DEF trapret, trap_killed, trap_fault, sys_exit, SysCall

(* The scheduler thread takes ptable.lock. *)
LEMMA SchedulerAcquireInv ==
  ASSUME ProcInv, NEW c \in CPU, scheduler_acquire(c)
  PROVE  ProcInv'
<1>1. TypeOK' /\ StackInv' /\ RetInv' /\ TickInv' /\ ChanInv'
  BY CPUAssumption DEF TypeOK, StateOK, TableOK, CpuOK, ThreadOK, ClockOK, StackInv, OnCpu,
     RetInv, Alive, TickInv, ChanInv, ProcInv, scheduler_acquire, Acquire
<1>2. ChildInv' /\ ParentInv' /\ PidInv'
  BY Zenon, FamilyFrame DEF SameKind, SameForks, Alive, Loc, scheduler_acquire
<1>3. NoMissedExit' /\ NoMissedTick'
  BY Zenon, SleepFrame DEF NobodySleeps, scheduler_acquire
<1> QED
  BY Zenon, <1>1, <1>2, <1>3 DEF ProcInv

(* The scheduler thread switches to a RUNNABLE process, with ptable.lock,  *)
(* or ends its pass and releases it.                                       *)
LEMMA SchedulerInv ==
  ASSUME ProcInv, NEW c \in CPU, scheduler(c)
  PROVE  ProcInv'
<1> DEFINE runnable == {p \in Slot : p >= scan[c] /\ state[p] = "RUNNABLE"}
<1>1. /\ cpu[c] = NoProc /\ lock = c
      /\ UNCHANGED <<pid, parent, killed, chan, nextpid, thread, clock, panicked>>
  BY Zenon DEF scheduler
<1>2. CASE runnable = {}
  <2>1. lock' = NoCPU /\ scan' = [scan EXCEPT ![c] = 1] /\ UNCHANGED <<cpu, state>>
    BY Zenon, <1>2 DEF scheduler, First
  <2>2. TypeOK' /\ StackInv' /\ RetInv' /\ TickInv' /\ ChanInv'
    BY <1>1, <2>1, Names, CPUAssumption DEF TypeOK, StateOK, TableOK, CpuOK, ThreadOK, ClockOK,
       StackInv, OnCpu, RetInv, Alive, TickInv, ChanInv, ProcInv
  <2>3. ChildInv' /\ ParentInv' /\ PidInv'
    BY Zenon, <1>1, <2>1, FamilyFrame DEF SameKind, SameForks, Alive, Loc
  <2>4. NoMissedExit' /\ NoMissedTick'
    BY Zenon, <1>1, <2>1, SleepFrame DEF NobodySleeps
  <2> QED
    BY Zenon, <2>2, <2>3, <2>4 DEF ProcInv
<1>3. CASE runnable # {}
  <2>2. PICK q \in Slot :
          /\ state[q] = "RUNNABLE" /\ state' = [state EXCEPT ![q] = "RUNNING"]
          /\ cpu' = [cpu EXCEPT ![c] = q] /\ scan' = [scan EXCEPT ![c] = q + 1] /\ lock' = c
    BY Zenon, <1>3 DEF scheduler, ScanNext, First
  <2>3. TypeOK'
    BY Zenon, <1>1, <2>2, Names DEF TypeOK, StateOK, TableOK, CpuOK, ThreadOK, ClockOK, States,
       ProcInv
  <2>4. ~OnCpu(q) /\ pc[q] = "resume"
    BY <1>1, <2>2, Names DEF StackInv, OnCpu, ProcInv
  <2>5. StackInv'
    BY <1>1, <2>2, Names DEF TypeOK, StateOK, CpuOK, StackInv, OnCpu, ProcInv
  <2>6. TickInv' /\ RetInv' /\ ChanInv'
    BY <1>1, <2>2, <2>4 DEF TickInv, RetInv, Alive, ChanInv, ProcInv
  <2>7. ChildInv' /\ ParentInv' /\ PidInv'
    <3>1. SameKind /\ SameForks
      BY Zenon, <1>1, <2>2 DEF SameKind, SameForks, Alive, Loc, TypeOK, StateOK, ProcInv
    <3> QED
      BY Zenon, <1>1, <3>1, FamilyFrame
  <2>8. NoMissedExit' /\ NoMissedTick'
    <3>1. NobodySleeps /\ \A r \in Slot : state'[r] = "ZOMBIE" => state[r] = "ZOMBIE"
      BY Zenon, <1>1, <2>2 DEF NobodySleeps, TypeOK, StateOK, ProcInv
    <3> QED
      BY Zenon, <1>1, <3>1, SleepFrame
  <2> QED
    BY Zenon, <2>3, <2>5, <2>6, <2>7, <2>8 DEF ProcInv
<1> QED
  BY Zenon, <1>2, <1>3

(* The thread leaves its CPU; ptable.lock stays with the CPU. *)
LEMMA SwtchInv ==
  ASSUME ProcInv, NEW c \in CPU, NEW p \in Slot, swtch(c, p)
  PROVE  ProcInv'
<1>1. TypeOK'
  BY Zenon DEF TypeOK, StateOK, TableOK, CpuOK, ThreadOK, ClockOK, Pcs, ProcInv, swtch, Goto
<1>2. StackInv' /\ RetInv' /\ TickInv' /\ ChanInv'
  BY DEF TypeOK, CpuOK, ThreadOK, StackInv, OnCpu, RetInv, Alive, TickInv, ChanInv, ProcInv,
     swtch, At, Goto
<1>3. ChildInv' /\ ParentInv' /\ PidInv'
  BY Zenon, FamilyFrame DEF SameKind, SameForks, Alive, Loc, swtch, At, Goto, TypeOK, ThreadOK,
     ProcInv
<1>4. NoMissedExit' /\ NoMissedTick'
  BY Zenon, SleepFrame DEF NobodySleeps, swtch
<1> QED
  BY Zenon, <1>1, <1>2, <1>3, <1>4 DEF ProcInv

(* The thread goes on where it slept or yielded, and only wait keeps       *)
(* ptable.lock.                                                            *)
LEMMA ResumeInv ==
  ASSUME ProcInv, NEW c \in CPU, NEW p \in Slot, resume(c, p)
  PROVE  ProcInv'
<1>1. state[p] = "RUNNING" /\ lock = c /\ tlock # c /\ OnCpu(p)
  BY Zenon, Running DEF resume, At
<1>2. ret[p] \in {"user", "trapret", "fork_alloc", "fork_run", "exit", "tick_lock", "wait"}
  BY Zenon DEF RetInv, ProcInv
<1>3. TypeOK'
  BY Zenon DEF TypeOK, StateOK, TableOK, CpuOK, ThreadOK, ClockOK, Pcs, ProcInv, resume, Goto
<1>4. StackInv' /\ TickInv'
  BY <1>1, <1>2, CPUAssumption DEF TypeOK, ThreadOK, StackInv, OnCpu, TickInv, ProcInv, resume,
     At, Goto
<1>5. RetInv' /\ ChanInv'
  BY Zenon DEF TypeOK, ThreadOK, RetInv, Alive, ChanInv, ProcInv, resume, Goto, TableOK
<1>6. ChildInv' /\ ParentInv' /\ PidInv'
  <2>1. SameKind /\ SameForks
    BY Zenon DEF TypeOK, ThreadOK, SameKind, SameForks, Alive, Loc, ProcInv, resume, At, Goto
  <2> QED
    BY Zenon, <2>1, FamilyFrame DEF resume
<1>7. NoMissedExit' /\ NoMissedTick'
  BY Zenon, <1>1, SleepFrame DEF NobodySleeps, resume, TypeOK, TableOK, ProcInv
<1> QED
  BY Zenon, <1>3, <1>4, <1>5, <1>6, <1>7 DEF ProcInv

(* A process that yields is RUNNABLE while it still is on its CPU, which   *)
(* has ptable.lock.                                                        *)
LEMMA YieldInv ==
  ASSUME ProcInv, NEW c \in CPU, NEW p \in Slot, yield(c, p)
  PROVE  ProcInv'
<1>1. state[p] = "RUNNING" /\ tlock # c /\ OnCpu(p) /\ cpu[c] = p /\ pc[p] = "yield"
  BY Zenon, Running DEF yield, At
<1>2. TypeOK'
  BY Zenon DEF TypeOK, StateOK, TableOK, CpuOK, ThreadOK, ClockOK, Pcs, States, ProcInv, yield,
     Goto, Acquire
<1>3. StackInv' /\ RetInv' /\ TickInv' /\ ChanInv'
  <2>1. /\ pc'[p] = "sched" /\ state'[p] = "RUNNABLE"
        /\ \A q \in Slot : q # p => pc'[q] = pc[q] /\ state'[q] = state[q]
        /\ lock = NoCPU /\ lock' = c /\ UNCHANGED <<cpu, ret, chan, due, tlock>>
    BY Zenon DEF TypeOK, StateOK, ThreadOK, ProcInv, yield, Goto, Acquire
  <2>2. \A d \in CPU : d # c => (lock' = d <=> lock = d)
    BY Zenon, <2>1, CPUAssumption
  <2>3. StackInv'
    BY Zenon, <1>1, <2>1, <2>2, StackFrame
  <2>4. RetInv'
    BY ZenonT(30), <1>1, <2>1 DEF RetInv, Alive, ProcInv
  <2>5. TickInv'
    BY Zenon, <1>1, <2>1, TickFrame
  <2>6. ChanInv'
    BY Zenon, <2>1 DEF ChanInv, ProcInv
  <2> QED
    BY Zenon, <2>3, <2>4, <2>5, <2>6
<1>4. ChildInv' /\ ParentInv' /\ PidInv'
  <2>1. SameKind /\ SameForks
    BY Zenon, <1>1 DEF SameKind, SameForks, Alive, Loc, yield, At, Goto, TypeOK, StateOK,
       ThreadOK, ProcInv
  <2> QED
    BY Zenon, <2>1, FamilyFrame DEF yield
<1>5. NoMissedExit' /\ NoMissedTick'
  BY Zenon, SleepFrame DEF NobodySleeps, yield, TypeOK, StateOK, ProcInv
<1> QED
  BY Zenon, <1>2, <1>3, <1>4, <1>5 DEF ProcInv

(* The clock interrupt.  It is not taken where ptable.lock or tickslock is *)
(* held, so the thread it stops is in none of their critical sections; and *)
(* CPU 0 counts the tick and wakes the sleepers under both.                *)
LEMMA TimerInv ==
  ASSUME ProcInv, NEW c \in CPU, timer(c)
  PROVE  ProcInv'
<1>1. /\ lock # c /\ tlock # c
      /\ UNCHANGED <<pid, parent, killed, chan, nextpid, lock, cpu, scan, child, tlock, panicked>>
  BY Zenon DEF timer
<1>2. /\ state' \in [Slot -> States] /\ due' \in [Slot -> Nat]
      /\ UNCHANGED <<state, due>> \/ (lock = NoCPU /\ tlock = NoCPU)
      /\ \A q \in Slot : \/ state'[q] = state[q]
                         \/ state[q] = "SLEEPING" /\ state'[q] = "RUNNABLE"
      /\ \A q \in Slot : state'[q] = "SLEEPING" /\ chan[q] = ticks => due'[q] = due[q]
  BY DEF timer, wakeup1, TypeOK, StateOK, ClockOK, States, ProcInv
<1>3. \/ cpu[c] = NoProc /\ UNCHANGED <<pc, ret>>
      \/ \E p \in Slot :
           /\ cpu[c] = p /\ state[p] = "RUNNING" /\ OnCpu(p) /\ ret[p] = "user"
           /\ \/ pc[p] = "user" /\ Goto(p, "exit") /\ UNCHANGED ret
              \/ /\ pc[p] \in {"user", "trapret", "fork_alloc", "fork_run", "exit", "tick_lock"}
                 /\ Goto(p, "yield")
                 /\ ret' = [ret EXCEPT ![p] = IF pc[p] = "user" THEN "trapret" ELSE pc[p]]
  <2>1. CASE cpu[c] = NoProc
    BY Zenon, <2>1, Names DEF timer
  <2>2. CASE cpu[c] \in Slot
    <3>1. PICK p \in Slot : p = cpu[c]
      BY Zenon, <2>2
    <3>2. pc[p] \notin {"sched", "yield"}
      BY Zenon, <3>1, Names DEF StackInv, timer, ProcInv
    <3>3. /\ state[p] = "RUNNING" /\ OnCpu(p) /\ ret[p] = "user"
          /\ pc[p] \in {"user", "trapret", "fork_alloc", "fork_run", "exit", "tick_lock"}
      BY <1>1, <3>1, <3>2, Running DEF TypeOK, ThreadOK, Pcs, ProcInv
    <3>4. \/ pc[p] = "user" /\ Goto(p, "exit") /\ UNCHANGED ret
          \/ /\ Goto(p, "yield")
             /\ ret' = [ret EXCEPT ![p] = IF pc[p] = "user" THEN "trapret" ELSE pc[p]]
      BY Zenon, <3>1, Names DEF timer
    <3> QED
      BY Zenon, <3>1, <3>3, <3>4
  <2> QED
    BY Zenon, <2>1, <2>2 DEF TypeOK, CpuOK, ProcInv
<1>4. TypeOK'
  BY <1>1, <1>2, <1>3 DEF TypeOK, StateOK, TableOK, CpuOK, ThreadOK, ClockOK, Pcs, Goto, ProcInv
<1>5. StackInv'
  BY <1>1, <1>2, <1>3 DEF TypeOK, CpuOK, ThreadOK, StackInv, OnCpu, Goto, ProcInv
<1>6. TickInv'
  BY <1>1, <1>2, <1>3, Names DEF TypeOK, CpuOK, ThreadOK, TickInv, StackInv, OnCpu, Goto,
     ProcInv
<1>7. RetInv' /\ ChanInv'
  <2>1. \A q \in Slot : Alive(q)' <=> Alive(q)
    BY Zenon, <1>2 DEF Alive
  <2> QED
    BY <1>1, <1>3, <2>1 DEF TypeOK, ThreadOK, RetInv, Alive, ChanInv, Goto, ProcInv
<1>8. ChildInv' /\ ParentInv' /\ PidInv'
  <2>1. SameKind
    BY Zenon, <1>2 DEF SameKind, Alive
  <2>2. SameForks
    BY ZenonT(30), <1>3 DEF TypeOK, ThreadOK, SameForks, Loc, Goto, ProcInv
  <2> QED
    BY Zenon, <1>1, <2>1, <2>2, FamilyFrame
<1>9. NoMissedExit' /\ NoMissedTick'
  <2>1. NobodySleeps /\ \A q \in Slot : state'[q] = "ZOMBIE" => state[q] = "ZOMBIE"
    BY Zenon, <1>1, <1>2 DEF NobodySleeps
  <2> QED
    BY Zenon, <1>1, <2>1, SleepFrame
<1> QED
  BY Zenon, <1>4, <1>5, <1>6, <1>7, <1>8, <1>9 DEF ProcInv

-----------------------------------------------------------------------------
(* fork finds no slot, or makes an EMBRYO that nobody else knows of. *)
LEMMA AllocprocInv ==
  ASSUME ProcInv, NEW c \in CPU, NEW p \in Slot, allocproc(c, p)
  PROVE  ProcInv'
<1> DEFINE unused == {q \in Slot : state[q] = "UNUSED"}
<1>1. /\ At(c, p, "user") /\ lock = NoCPU
      /\ UNCHANGED <<parent, killed, chan, lock, cpu, scan, clock, panicked>>
  BY Zenon DEF allocproc, SysCall
<1>2. /\ state[p] = "RUNNING" /\ ret[p] = "user" /\ OnCpu(p) /\ tlock # c
      /\ cpu[c] = p /\ pc[p] = "user" /\ \A d \in CPU : cpu[d] = p => d = c
  BY ZenonT(30), <1>1, Running DEF At
<1>3. CASE unused = {} \/ nextpid > MAXPID
  BY <1>1, <1>3, MoveInv, BoundAssumption DEF allocproc, TypeOK, TableOK, First, ProcInv
<1>4. CASE ~(unused = {} \/ nextpid > MAXPID)
  <2>2. PICK np \in Slot :
          /\ state[np] = "UNUSED" /\ state' = [state EXCEPT ![np] = "EMBRYO"]
          /\ pid' = [pid EXCEPT ![np] = nextpid] /\ nextpid' = nextpid + 1
          /\ child' = [child EXCEPT ![p] = np] /\ ret' = [ret EXCEPT ![np] = "user"]
          /\ pc' = [pc EXCEPT ![p] = "fork_alloc"]
    BY Zenon, <1>4 DEF allocproc, NextPid, Goto, First
  <2>3. np # p /\ ~OnCpu(np) /\ ret[np] = "user" /\ ret' = ret
    BY <1>2, <2>2, Names DEF TypeOK, ThreadOK, StackInv, OnCpu, RetInv, Alive, ProcInv
  <2>4. TypeOK'
    BY <1>1, <2>2 DEF TypeOK, StateOK, TableOK, CpuOK, ThreadOK, ClockOK, States, Pcs, ProcInv
  <2>5. StackInv'
    BY <1>1, <1>2, <2>2 DEF StackInv, OnCpu, ProcInv
  <2>6. RetInv' /\ ChanInv'
    BY Zenon, <1>1, <1>2, <2>2 DEF RetInv, Alive, ChanInv, ProcInv, TypeOK, StateOK, ThreadOK
  <2>7. TickInv'
    BY Zenon, <1>1, <1>2, <2>2 DEF TickInv, ProcInv, TypeOK, CpuOK, ThreadOK
  <2>8. ChildInv'
    <3>1. \A q \in Slot : child[q] # np /\ parent[np] = NoProc
      BY Zenon, <2>2, Names DEF ChildInv, ParentInv, ProcInv
    <3>2. \A q \in Slot : q # p => Loc(q)' = Loc(q)
      BY Zenon, <2>2, <2>3 DEF Loc, TypeOK, ThreadOK, ProcInv
    <3>3. Loc(p)' = "fork_alloc" /\ Loc(p) = "user" /\ child[p] = NoProc
      BY Zenon, <1>2, <2>2 DEF TypeOK, ThreadOK, Loc, ChildInv, ProcInv
    <3> QED
      <4>1. /\ child'[p] = np /\ state'[np] = "EMBRYO" /\ parent' = parent
            /\ \A q \in Slot : q # p => child'[q] = child[q]
            /\ \A q \in Slot : q # np => state'[q] = state[q]
        BY Zenon, <1>1, <2>2 DEF TypeOK, StateOK, ThreadOK, ProcInv
      <4>2. \A q, k \in Slot : q # p /\ child[q] = k => state'[k] = "EMBRYO" /\ parent'[k] = parent[k]
        BY ZenonT(30), <3>1, <4>1, Names DEF ChildInv, ProcInv
      <4> QED
        BY ZenonT(30), <3>1, <3>2, <3>3, <4>1, <4>2, Names, ChildFrame
  <2>9. ParentInv'
    <3>1. \A q \in Slot : (Alive(q)' <=> Alive(q)) /\ (q # np => state'[q] = state[q])
      BY Zenon, <2>2 DEF Alive, TypeOK, StateOK, ProcInv
    <3>2. state[np] = "UNUSED" /\ state'[np] = "EMBRYO" /\ parent' = parent
      BY Zenon, <1>1, <2>2 DEF TypeOK, StateOK, ProcInv
    <3> QED
      BY Zenon, <3>1, <3>2, ParentFrame
  <2>10. PidInv'
    BY <2>2 DEF TypeOK, TableOK, PidInv, UniquePids, ProcInv
  <2>11. NoMissedExit' /\ NoMissedTick'
    BY Zenon, <1>1, <2>2, SleepFrame DEF NobodySleeps, TypeOK, StateOK, ProcInv
  <2> QED
    BY Zenon, <2>4, <2>5, <2>6, <2>7, <2>8, <2>9, <2>10, <2>11 DEF ProcInv
<1> QED
  BY Zenon, <1>3, <1>4

(* The three steps of fork after allocproc are taken by the one process    *)
(* whose child the EMBRYO is.                                              *)
LEMMA ForkOwner ==
  ASSUME ProcInv, NEW c \in CPU, NEW p \in Slot, At(c, p, "fork_alloc") \/ At(c, p, "fork_run")
  PROVE  /\ cpu[c] = p /\ state[p] = "RUNNING" /\ ret[p] = "user" /\ OnCpu(p) /\ lock # c /\ tlock # c
         /\ child[p] \in Slot /\ child[p] # p /\ state[child[p]] = "EMBRYO" /\ ~OnCpu(child[p])
         /\ pc[child[p]] = "resume" /\ ret[child[p]] = "user" /\ child[child[p]] = NoProc
         /\ parent[child[p]] = IF pc[p] = "fork_run" THEN p ELSE NoProc
         /\ \A q \in Slot : q # p => child[q] # child[p]
<1>1. /\ state[p] = "RUNNING" /\ ret[p] = "user" /\ OnCpu(p) /\ lock # c /\ tlock # c
      /\ cpu[c] = p /\ Loc(p) = pc[p]
  BY Zenon, Running DEF Loc, At
<1>2. /\ child[p] \in Slot /\ state[child[p]] = "EMBRYO"
      /\ parent[child[p]] = IF pc[p] = "fork_run" THEN p ELSE NoProc
      /\ \A q \in Slot : q # p => child[q] # child[p]
  BY ZenonT(30), <1>1 DEF TypeOK, ThreadOK, ChildInv, ProcInv, At
<1>3. ~OnCpu(child[p]) /\ pc[child[p]] = "resume" /\ ret[child[p]] = "user"
  BY <1>2, Names DEF StackInv, OnCpu, RetInv, Alive, ProcInv
<1>4. child[child[p]] = NoProc
  BY Zenon, <1>2, <1>3 DEF ChildInv, Loc, ProcInv
<1> QED
  BY Zenon, <1>1, <1>2, <1>3, <1>4

(* copyuvm fails: the slot of the child is free again. *)
LEMMA ForkFailInv ==
  ASSUME ProcInv, NEW c \in CPU, NEW p \in Slot, fork_fail(c, p)
  PROVE  ProcInv'
<1>1. TypeOK'
  BY Zenon, ForkOwner DEF TypeOK, StateOK, TableOK, CpuOK, ThreadOK, ClockOK, States, Pcs,
     ProcInv, fork_fail, Goto
<1>2. StackInv' /\ TickInv'
  BY ForkOwner DEF StackInv, OnCpu, TickInv, ProcInv, fork_fail, Goto
<1>3. RetInv' /\ ChanInv'
  BY ForkOwner DEF RetInv, Alive, ChanInv, ProcInv, fork_fail, Goto
<1>4. ChildInv'
  BY DEF TypeOK, ThreadOK, ChildInv, Loc, ProcInv, fork_fail, Goto
<1>5. ParentInv'
  BY ForkOwner DEF ParentInv, Alive, ProcInv, fork_fail, At
<1>6. PidInv'
  BY Zenon DEF PidInv, UniquePids, ProcInv, fork_fail, TypeOK, StateOK
<1>7. NoMissedExit' /\ NoMissedTick'
  BY Zenon, SleepFrame DEF NobodySleeps, fork_fail, TypeOK, StateOK, ProcInv
<1> QED
  BY Zenon, <1>1, <1>2, <1>3, <1>4, <1>5, <1>6, <1>7 DEF ProcInv

(* fork makes the caller the parent of the new process. *)
LEMMA ForkCopyInv ==
  ASSUME ProcInv, NEW c \in CPU, NEW p \in Slot, fork_copy(c, p)
  PROVE  ProcInv'
<1>1. TypeOK'
  BY Zenon, ForkOwner DEF TypeOK, StateOK, TableOK, CpuOK, ThreadOK, ClockOK, Pcs, ProcInv,
     fork_copy, Goto
<1>0. /\ child[p] \in Slot /\ child[p] # p /\ state[child[p]] = "EMBRYO"
      /\ \A q \in Slot : q # p => child[q] # child[p]
      /\ cpu[c] = p /\ pc[p] = "fork_alloc" /\ state[p] = "RUNNING" /\ ret[p] = "user"
      /\ lock # c /\ tlock # c
  <2>1. At(c, p, "fork_alloc")
    BY Zenon DEF fork_copy
  <2>2. pc[p] = "fork_alloc"
    BY Zenon, <2>1 DEF At
  <2> QED
    BY <2>1, <2>2, ForkOwner
<1>k. PICK k : k = child[p]
  OBVIOUS
<1>2. /\ k \in Slot /\ child[p] = k /\ k # p /\ state[k] = "EMBRYO" /\ \A q \in Slot : q # p => child[q] # k
      /\ cpu[c] = p /\ pc[p] = "fork_alloc" /\ state[p] = "RUNNING" /\ ret[p] = "user"
      /\ lock # c /\ tlock # c
  BY Zenon, <1>0, <1>k
<1>3. /\ pc'[p] = "fork_run" /\ \A q \in Slot : q # p => pc'[q] = pc[q]
      /\ parent'[k] = p /\ \A q \in Slot : q # k => parent'[q] = parent[q]
      /\ UNCHANGED <<state, lock, cpu, ret, child, chan, due, tlock>>
  BY Zenon, <1>2 DEF ProcInv, TypeOK, ThreadOK, TableOK, fork_copy, Goto
<1>4. StackInv' /\ TickInv' /\ RetInv' /\ ChanInv'
  <2>1. StackInv'
    BY Zenon, <1>2, <1>3, StackFrame
  <2>2. TickInv'
    BY Zenon, <1>2, <1>3, TickFrame
  <2>3. RetInv'
    BY Zenon, <1>2, <1>3, RetFrame DEF Alive
  <2>4. ChanInv'
    BY Zenon, <1>3 DEF ChanInv, ProcInv
  <2> QED
    BY Zenon, <2>1, <2>2, <2>3, <2>4
<1>5. ChildInv'
  <2>1. /\ Loc(p) = "fork_alloc" /\ Loc(p)' = "fork_run"
        /\ \A q \in Slot : q # p => Loc(q)' = Loc(q)
    BY Zenon, <1>2, <1>3 DEF Loc
  <2>2. \A q \in Slot : child[q] \in Slot \cup {NoProc}
    BY Zenon DEF ProcInv, TypeOK, ThreadOK
  <2>3. \A q \in Slot : child'[q] # NoProc <=> Loc(q)' \in {"fork_alloc", "fork_run"}
    BY ZenonT(30), <1>2, <1>3, <2>1, Names DEF ProcInv, ChildInv
  <2>4. ASSUME NEW q \in Slot, child'[q] # NoProc
        PROVE  state'[child'[q]] = "EMBRYO" /\ parent'[child'[q]] = IF Loc(q)' = "fork_run" THEN q ELSE NoProc
    <3>1. CASE q = p
      BY Zenon, <1>2, <1>3, <2>1, <3>1
    <3>2. CASE q # p
      <4>1. child'[q] = child[q] /\ child[q] \in Slot /\ child[q] # k /\ Loc(q)' = Loc(q)
        BY Zenon, <1>2, <1>3, <2>1, <2>2, <2>4, <3>2
      <4>2. state[child[q]] = "EMBRYO" /\ parent[child[q]] = IF Loc(q) = "fork_run" THEN q ELSE NoProc
        BY Zenon, <2>4, <4>1 DEF ProcInv, ChildInv
      <4> QED
        BY Zenon, <1>3, <4>1, <4>2
    <3> QED
      BY Zenon, <3>1, <3>2
  <2>5. \A q, s \in Slot : child'[q] # NoProc /\ child'[q] = child'[s] => q = s
    BY Zenon, <1>3 DEF ProcInv, ChildInv
  <2> QED
    BY Zenon, <2>3, <2>4, <2>5 DEF ChildInv
<1>6. ParentInv'
  <2>1. \A q \in Slot : Alive(q)' <=> Alive(q)
    BY Zenon, <1>3 DEF Alive
  <2>2. Alive(p) /\ ~Alive(k)
    BY Zenon, <1>2 DEF Alive
  <2>3. /\ Alive(initproc) /\ parent[initproc] = NoProc
        /\ \A q \in Slot :
             /\ parent[q] # NoProc => parent[q] # q /\ Alive(parent[q])
             /\ q # initproc /\ (Alive(q) \/ state[q] = "ZOMBIE") => parent[q] # NoProc
             /\ state[q] = "UNUSED" => parent[q] = NoProc
        /\ \A q \in Slot : parent[q] \in Slot \cup {NoProc}
    BY Zenon DEF ProcInv, ParentInv, TypeOK, TableOK
  <2>4. Alive(initproc)' /\ parent'[initproc] = NoProc
    BY Zenon, <1>3, <2>1, <2>2, <2>3, Names
  <2>5. ASSUME NEW q \in Slot
        PROVE  /\ parent'[q] # NoProc => parent'[q] # q /\ Alive(parent[q])'
               /\ q # initproc /\ (Alive(q)' \/ state'[q] = "ZOMBIE") => parent'[q] # NoProc
               /\ state'[q] = "UNUSED" => parent'[q] = NoProc
    <3>1. CASE q = k
      BY Zenon, <1>2, <1>3, <2>1, <2>2, <3>1, Names
    <3>2. CASE q # k
      BY Zenon, <1>3, <2>1, <2>3, <3>2
    <3> QED
      BY Zenon, <3>1, <3>2
  <2> QED
    BY Zenon, <2>4, <2>5 DEF ParentInv
<1>7. PidInv' /\ NoMissedTick'
  BY Zenon DEF PidInv, UniquePids, NoMissedTick, ProcInv, fork_copy
<1>8. NoMissedExit'
  BY Names, ForkOwner DEF NoMissedExit, Children, ProcInv, fork_copy
<1> QED
  BY Zenon, <1>1, <1>4, <1>5, <1>6, <1>7, <1>8 DEF ProcInv

(* The child becomes runnable, and the parent returns. *)
LEMMA ForkRunInv ==
  ASSUME ProcInv, NEW c \in CPU, NEW p \in Slot, fork_run(c, p)
  PROVE  ProcInv'
<1>1. TypeOK'
  BY Zenon, ForkOwner DEF TypeOK, StateOK, TableOK, CpuOK, ThreadOK, ClockOK, States, Pcs,
     ProcInv, fork_run, Goto
<1>0. /\ child[p] \in Slot /\ child[p] # p /\ state[child[p]] = "EMBRYO" /\ ~OnCpu(child[p])
      /\ cpu[c] = p /\ pc[p] = "fork_run" /\ state[p] = "RUNNING" /\ lock # c /\ tlock # c
  <2>1. At(c, p, "fork_run")
    BY Zenon DEF fork_run
  <2>2. pc[p] = "fork_run"
    BY Zenon, <2>1 DEF At
  <2> QED
    BY <2>1, <2>2, ForkOwner
<1>2. PICK k \in Slot :
        /\ child[p] = k /\ k # p /\ state[k] = "EMBRYO" /\ ~OnCpu(k)
        /\ cpu[c] = p /\ pc[p] = "fork_run" /\ state[p] = "RUNNING" /\ lock # c /\ tlock # c
  BY Zenon, <1>0
<1>3. /\ pc'[p] = "trapret" /\ \A q \in Slot : q # p => pc'[q] = pc[q]
      /\ state'[k] = "RUNNABLE" /\ \A q \in Slot : q # k => state'[q] = state[q]
      /\ child'[p] = NoProc /\ \A q \in Slot : q # p => child'[q] = child[q]
      /\ UNCHANGED <<lock, cpu, ret, pid, nextpid, parent, due, tlock>>
  BY Zenon, <1>2 DEF ProcInv, TypeOK, StateOK, ThreadOK, fork_run, Goto
<1>4. StackInv' /\ TickInv'
  <2>1. StackInv'
    <3>1. \A q \in Slot : q # p => state'[q] = state[q] \/ (~OnCpu(q) /\ state'[q] # "RUNNING")
      BY Zenon, <1>2, <1>3
    <3>2. pc'[p] = "trapret" /\ state'[p] = "RUNNING"
      BY Zenon, <1>2, <1>3
    <3> QED
      BY ZenonT(30), <1>2, <1>3, <3>1, <3>2, StackFrame
  <2>2. TickInv'
    BY Zenon, <1>2, <1>3, TickFrame
  <2> QED
    BY Zenon, <2>1, <2>2
<1>5. RetInv' /\ ChanInv'
  <2>1. chan' = chan /\ ret[p] = "user" /\ \A q \in Slot : Alive(q) => Alive(q)'
    <3>1. ret[p] = "user"
      BY Zenon, <1>2 DEF RetInv, ProcInv
    <3> QED
      BY Zenon, <1>2, <1>3, <3>1 DEF Alive, fork_run
  <2>2. RetInv'
    BY Zenon, <1>3, <2>1, RetFrame
  <2>3. ChanInv'
    BY Zenon, <2>1 DEF ChanInv, ProcInv
  <2> QED
    BY Zenon, <2>2, <2>3
<1>6. ChildInv'
  <2>1. Loc(p)' = "trapret" /\ \A q \in Slot : q # p => Loc(q)' = Loc(q)
    BY Zenon, <1>3 DEF Loc
  <2>2. ASSUME NEW q \in Slot, NEW s \in Slot, child[q] = s
        PROVE  state[s] = "EMBRYO" /\ (child[p] = s => q = p)
    <3>1. child[q] # NoProc
      BY Zenon, <2>2, Names
    <3> QED
      BY Zenon, <2>2, <3>1 DEF ChildInv, ProcInv
  <2>3. ASSUME NEW q \in Slot, NEW s \in Slot, q # p, child[q] = s
        PROVE  state'[s] = "EMBRYO" /\ parent'[s] = parent[s]
    <3>1. state[s] = "EMBRYO" /\ child[p] # s
      BY Zenon, <2>2, <2>3
    <3>2. state'[s] = state[s]
      BY Zenon, <1>2, <1>3, <3>1
    <3> QED
      BY Zenon, <1>3, <3>1, <3>2
  <2> QED
    BY ZenonT(30), <1>3, <2>1, <2>3, ChildFrame
<1>7. ParentInv'
  <2>1. parent[k] # NoProc
    BY ZenonT(30), <1>2, Names DEF ChildInv, Loc, ProcInv
  <2> QED
    BY ZenonT(30), <1>2, <1>3, <2>1, ParentFrame DEF Alive
<1>8. PidInv'
  <2>1. \A q \in Slot : pid'[q] < nextpid'
    BY Zenon, <1>3 DEF ProcInv, PidInv
  <2>2. \A q \in Slot : state'[q] # "UNUSED" => state[q] # "UNUSED" /\ pid'[q] = pid[q]
    BY Zenon, <1>2, <1>3
  <2> QED
    BY Zenon, <2>1, <2>2, PidFrame
<1>9. NoMissedExit' /\ NoMissedTick'
  BY Zenon, SleepFrame DEF NobodySleeps, fork_run, TypeOK, StateOK, ProcInv
<1> QED
  BY Zenon, <1>1, <1>4, <1>5, <1>6, <1>7, <1>8, <1>9 DEF ProcInv

-----------------------------------------------------------------------------
(* exit becomes a zombie with ptable.lock held, after its children went to *)
(* init and its parent, and init if need be, were woken.                   *)
LEMMA ExitInv ==
  ASSUME ProcInv, NEW c \in CPU, NEW p \in Slot, exit(c, p)
  PROVE  ProcInv'
<1>1. At(c, p, "exit") /\ UNCHANGED <<pid, killed, chan, nextpid, cpu, scan, ret, child, clock>>
  BY Zenon DEF exit
<1>2. /\ state[p] = "RUNNING" /\ ret[p] = "user" /\ OnCpu(p) /\ tlock # c
      /\ cpu[c] = p /\ pc[p] = "exit" /\ \A d \in CPU : cpu[d] = p => d = c
  BY ZenonT(30), <1>1, Running DEF At
<1>3. CASE p = initproc
  <2>1. panicked' = TRUE /\ UNCHANGED <<state, parent, lock, pc>>
    BY Zenon, <1>3 DEF exit
  <2>2. TypeOK' /\ StackInv' /\ RetInv' /\ TickInv' /\ ChanInv'
    <3>1. TypeOK' /\ ChanInv'
      BY Zenon, <1>1, <2>1 DEF TypeOK, StateOK, TableOK, CpuOK, ThreadOK, ClockOK, ChanInv,
         ProcInv
    <3>2. StackInv'
      BY ZenonT(30), <1>1, <2>1 DEF StackInv, OnCpu, ProcInv
    <3>3. RetInv'
      BY Zenon, <1>1, <2>1 DEF RetInv, Alive, ProcInv
    <3>4. TickInv'
      BY Zenon, <1>1, <2>1 DEF TickInv, ProcInv
    <3> QED
      BY Zenon, <3>1, <3>2, <3>3, <3>4
  <2>3. ChildInv' /\ ParentInv' /\ PidInv'
    BY Zenon, <1>1, <2>1, FamilyFrame DEF SameKind, SameForks, Alive, Loc
  <2>4. NoMissedExit' /\ NoMissedTick'
    BY Zenon, <1>1, <2>1, SleepFrame DEF NobodySleeps
  <2> QED
    BY Zenon, <2>2, <2>3, <2>4 DEF ProcInv
<1>4. CASE p # initproc
  <2>1. /\ lock = NoCPU /\ lock' = c /\ UNCHANGED panicked
        /\ parent' = [q \in Slot |-> IF parent[q] = p THEN initproc ELSE parent[q]]
        /\ pc' = [pc EXCEPT ![p] = "sched"]
        /\ state' = [ExitWakeup(p) EXCEPT ![p] = "ZOMBIE"]
    BY Zenon, <1>4 DEF exit, Acquire, Reparent, Goto
  <2>2. /\ ExitWakeup(p) \in [Slot -> States]
        /\ \A q \in Slot : \/ ExitWakeup(p)[q] = state[q]
                           \/ state[q] = "SLEEPING" /\ ExitWakeup(p)[q] = "RUNNABLE"
        /\ \A q \in Slot : ExitWakeup(p)[q] = "SLEEPING" =>
             /\ chan[q] # parent[p]
             /\ chan[q] = initproc => \A r \in Children(p) : state[r] # "ZOMBIE"
    BY Zenon DEF ExitWakeup, wakeup1, TypeOK, StateOK, States, Children, ProcInv
  <2>3. /\ state' \in [Slot -> States] /\ state'[p] = "ZOMBIE"
        /\ \A q \in Slot \ {p} : \/ state'[q] = state[q]
                                 \/ state[q] = "SLEEPING" /\ state'[q] = "RUNNABLE"
        /\ \A q \in Slot : state'[q] = "SLEEPING" =>
             /\ state[q] = "SLEEPING" /\ q # p /\ chan[q] # parent[p]
             /\ chan[q] = initproc => \A r \in Children(p) : state[r] # "ZOMBIE"
    BY Zenon, <2>1, <2>2 DEF States
  <2>4. /\ \A q \in Slot \ {p} : (Alive(q)' <=> Alive(q)) /\ (~Alive(q) => state'[q] = state[q])
        /\ Alive(p) /\ ~Alive(p)'
    BY Zenon, <1>2, <2>3 DEF Alive
  <2>5. TypeOK'
    BY ZenonT(30), <1>1, <2>1, <2>3, Names DEF TypeOK, StateOK, TableOK, CpuOK, ThreadOK, ClockOK,
       Pcs, ProcInv
  <2>6. pc'[p] = "sched" /\ \A q \in Slot : q # p => pc'[q] = pc[q]
    BY Zenon, <2>1 DEF TypeOK, ThreadOK, ProcInv
  <2>7. StackInv' /\ RetInv' /\ TickInv' /\ ChanInv'
    <3>1. StackInv'
      <4>1. \A q \in Slot : q # p => state'[q] = state[q] \/ (state[q] = "SLEEPING" /\ state'[q] = "RUNNABLE")
        BY Zenon, <2>3
      <4>2. \A d \in CPU : d # c => (lock' = d <=> lock = d)
        BY Zenon, <2>1, CPUAssumption
      <4>3. cpu[c] = p /\ pc[p] # "sched" /\ cpu' = cpu /\ lock' = c /\ state'[p] = "ZOMBIE"
        BY Zenon, <1>1, <1>2, <2>1, <2>3
      <4> QED
        BY Zenon, <2>6, <4>1, <4>2, <4>3, StackFrame
    <3>2. RetInv'
      BY Zenon, <1>1, <1>2, <2>4, <2>6, RetFrame
    <3>3. TickInv'
      BY Zenon, <1>1, <1>2, <2>6, TickFrame
    <3>4. ChanInv'
      BY Zenon, <1>1 DEF ChanInv, ProcInv
    <3> QED
      BY Zenon, <3>1, <3>2, <3>3, <3>4
  <2>8. ChildInv'
    <3>1. child[p] = NoProc /\ \A q \in Slot : child[q] # p
      BY ZenonT(30), <1>2, Names DEF ChildInv, Loc, ProcInv
    <3>2. ASSUME NEW q \in Slot, NEW k \in Slot, q # p, child[q] = k
          PROVE  state'[k] = "EMBRYO" /\ parent'[k] = parent[k]
      <4>1. state[k] = "EMBRYO" /\ parent[k] = (IF Loc(q) = "fork_run" THEN q ELSE NoProc) /\ k # p
        BY ZenonT(30), <3>1, <3>2, Names DEF ChildInv, ProcInv
      <4>2. state'[k] = "EMBRYO"
        BY Zenon, <2>3, <4>1
      <4>3. parent[k] # p
        BY Zenon, <3>2, <4>1, Names
      <4> QED
        BY Zenon, <2>1, <4>2, <4>3
    <3>3. Loc(p)' = "user" /\ \A q \in Slot : q # p => Loc(q)' = Loc(q)
      BY Zenon, <1>1, <1>2, <2>6 DEF Loc
    <3> QED
      BY Zenon, <1>1, <3>1, <3>2, <3>3, ChildFrame
  <2>9. ParentInv'
    <3>1. /\ Alive(initproc) /\ parent[initproc] = NoProc
          /\ \A q \in Slot :
               /\ parent[q] # NoProc => parent[q] # q /\ Alive(parent[q])
               /\ q # initproc /\ (Alive(q) \/ state[q] = "ZOMBIE") => parent[q] # NoProc
               /\ state[q] = "UNUSED" => parent[q] = NoProc
          /\ \A q \in Slot : parent[q] \in Slot \cup {NoProc}
      BY Zenon DEF ProcInv, ParentInv, TypeOK, TableOK
    <3>2. Alive(initproc)' /\ parent'[initproc] = NoProc
      BY ZenonT(30), <1>4, <2>1, <2>4, <3>1, Names
    <3>3. ASSUME NEW q \in Slot
          PROVE  /\ parent'[q] # NoProc => parent'[q] # q /\ Alive(parent[q])'
                 /\ q # initproc /\ (Alive(q)' \/ state'[q] = "ZOMBIE") => parent'[q] # NoProc
                 /\ state'[q] = "UNUSED" => parent'[q] = NoProc
      <4>1. parent'[q] # NoProc => parent'[q] # q /\ Alive(parent[q])'
        <5>1. CASE parent[q] = p
          <6>1. parent'[q] = initproc /\ q # initproc
            BY Zenon, <2>1, <3>1, <5>1, Names
          <6> QED
            BY Zenon, <3>2, <6>1 DEF Alive
        <5>2. CASE parent[q] # p /\ parent[q] # NoProc
          <6>1. parent'[q] = parent[q] /\ parent[q] \in Slot \ {p} /\ parent[q] # q /\ Alive(parent[q])
            BY Zenon, <2>1, <3>1, <5>2
          <6>2. PICK r \in Slot \ {p} : r = parent[q]
            BY Zenon, <6>1
          <6>3. Alive(r)' /\ parent'[q] = r
            BY Zenon, <2>4, <6>1, <6>2
          <6> QED
            BY Zenon, <6>1, <6>3 DEF Alive
        <5> QED
          BY Zenon, <2>1, <5>1, <5>2, Names
      <4>2. Alive(q) \/ state[q] = "ZOMBIE" \/ (~Alive(q)' /\ state'[q] # "ZOMBIE")
        BY Zenon, <2>3, <2>4
      <4>3. state'[q] = "UNUSED" => state[q] = "UNUSED"
        BY Zenon, <2>3
      <4> QED
        BY Zenon, <2>1, <3>1, <4>1, <4>2, <4>3, Names
    <3> QED
      BY Zenon, <3>2, <3>3 DEF ParentInv
  <2>10. PidInv'
    <3>1. \A q \in Slot : pid'[q] < nextpid'
      BY Zenon, <1>1 DEF PidInv, ProcInv
    <3>2. \A q \in Slot : state'[q] # "UNUSED" => state[q] # "UNUSED" /\ pid'[q] = pid[q]
      BY Zenon, <1>1, <1>2, <2>3
    <3> QED
      BY Zenon, <3>1, <3>2, PidFrame
  <2>11. NoMissedExit'
    <3> SUFFICES ASSUME NEW q \in Slot, state'[q] = "SLEEPING", chan'[q] = q
                 PROVE  /\ Children(q)' # {} /\ ~killed'[q]
                        /\ \A r \in Children(q)' : state'[r] # "ZOMBIE"
      BY Zenon DEF NoMissedExit
    <3>1. /\ state[q] = "SLEEPING" /\ chan[q] = q /\ q # p /\ q # parent[p]
          /\ q = initproc => \A r \in Children(p) : state[r] # "ZOMBIE"
      BY Zenon, <1>1, <2>3
    <3>2. Children(q) # {} /\ ~killed[q] /\ \A r \in Children(q) : state[r] # "ZOMBIE"
      BY Zenon, <3>1 DEF NoMissedExit, ProcInv
    <3>3. Children(q)' = IF q = initproc THEN Children(q) \cup Children(p) ELSE Children(q)
      BY Zenon, <2>1, <3>1 DEF Children
    <3>4. p \notin Children(q)'
      BY Zenon, <2>1, <3>1, Names DEF Children, ParentInv, ProcInv
    <3>5. \A r \in Slot : r # p /\ state[r] # "ZOMBIE" => state'[r] # "ZOMBIE"
      BY Zenon, <2>3
    <3> QED
      BY Zenon, <1>1, <3>1, <3>2, <3>3, <3>4, <3>5 DEF Children
  <2>12. NoMissedTick'
    BY Zenon, <1>1, <2>3 DEF NoMissedTick, ProcInv
  <2> QED
    BY Zenon, <2>5, <2>7, <2>8, <2>9, <2>10, <2>11, <2>12 DEF ProcInv
<1> QED
  BY Zenon, <1>3, <1>4

(* wait takes ptable.lock, and keeps it. *)
LEMMA SysWaitInv ==
  ASSUME ProcInv, NEW c \in CPU, NEW p \in Slot, sys_wait(c, p)
  PROVE  ProcInv'
<1>1. /\ state[p] = "RUNNING" /\ ret[p] = "user" /\ tlock # c /\ OnCpu(p)
      /\ cpu[c] = p /\ pc[p] = "user"
  BY Zenon, Running DEF sys_wait, SysCall, At
<1>2. TypeOK'
  BY Zenon DEF TypeOK, StateOK, TableOK, CpuOK, ThreadOK, ClockOK, Pcs, ProcInv, sys_wait, Goto,
     Acquire
<1>3. StackInv' /\ RetInv' /\ TickInv' /\ ChanInv'
  <2>1. /\ pc'[p] = "wait" /\ \A q \in Slot : q # p => pc'[q] = pc[q]
        /\ lock = NoCPU /\ lock' = c /\ UNCHANGED <<state, cpu, ret, chan, due, tlock>>
    BY Zenon DEF TypeOK, ThreadOK, ProcInv, sys_wait, Goto, Acquire
  <2>2. \A d \in CPU : d # c => (lock' = d <=> lock = d)
    BY Zenon, <2>1, CPUAssumption
  <2>3. StackInv'
    BY Zenon, <1>1, <2>1, <2>2, StackFrame
  <2>4. RetInv'
    BY Zenon, <1>1, <2>1, RetFrame DEF Alive
  <2>5. TickInv'
    BY Zenon, <1>1, <2>1, TickFrame
  <2>6. ChanInv'
    BY Zenon, <2>1 DEF ChanInv, ProcInv
  <2> QED
    BY Zenon, <2>3, <2>4, <2>5, <2>6
<1>4. ChildInv' /\ ParentInv' /\ PidInv'
  BY Zenon, FamilyFrame DEF SameKind, SameForks, Alive, Loc, sys_wait, SysCall, At, Goto,
     TypeOK, ThreadOK, ProcInv
<1>5. NoMissedExit' /\ NoMissedTick'
  BY Zenon, SleepFrame DEF NobodySleeps, sys_wait
<1> QED
  BY Zenon, <1>2, <1>3, <1>4, <1>5 DEF ProcInv

(* wait frees a zombie that is off its CPU, gives up, or falls asleep      *)
(* before any child can exit.                                              *)
LEMMA WaitInv ==
  ASSUME ProcInv, NEW c \in CPU, NEW p \in Slot, wait(c, p)
  PROVE  ProcInv'
<1> DEFINE zombies == {q \in Children(p) : state[q] = "ZOMBIE"}
<1>1. At(c, p, "wait") /\ UNCHANGED <<nextpid, cpu, scan, child, clock, panicked>>
  BY Zenon DEF wait
<1>2. /\ state[p] = "RUNNING" /\ ret[p] = "user" /\ OnCpu(p) /\ tlock # c /\ lock = c
      /\ cpu[c] = p /\ pc[p] = "wait" /\ \A d \in CPU : cpu[d] = p => d = c
  BY ZenonT(30), <1>1, Running DEF At
<1>3. CASE zombies # {}
  <2>2. PICK q \in Slot :
          /\ parent[q] = p /\ state[q] = "ZOMBIE"
          /\ state' = [state EXCEPT ![q] = "UNUSED"] /\ pid' = [pid EXCEPT ![q] = 0]
          /\ parent' = [parent EXCEPT ![q] = NoProc] /\ killed' = [killed EXCEPT ![q] = FALSE]
          /\ lock' = NoCPU /\ pc' = [pc EXCEPT ![p] = "trapret"] /\ UNCHANGED <<chan, ret>>
    BY Zenon, <1>3 DEF wait, Goto, Children, First
  <2>3. q # p /\ q # initproc /\ ~OnCpu(q) /\ \A r \in Slot : child[r] # q
    <3>1. q # p /\ q # initproc /\ ~OnCpu(q)
      <4>1. q # p /\ q # initproc
        BY Zenon, <1>2, <2>2, Names DEF ParentInv, ProcInv
      <4>2. ASSUME NEW d \in CPU, cpu[d] = q
            PROVE  FALSE
        BY Zenon, <1>2, <2>2, <4>1, <4>2, Names DEF StackInv, ProcInv
      <4> QED
        BY Zenon, <4>1, <4>2 DEF OnCpu
    <3>2. \A r \in Slot : child[r] # q
      BY Zenon, <2>2, Names DEF ChildInv, ProcInv
    <3> QED
      BY Zenon, <3>1, <3>2
  <2>4. \A r \in Slot : (Alive(r)' <=> Alive(r)) /\ (r # q => state'[r] = state[r])
    BY Zenon, <2>2 DEF Alive, TypeOK, StateOK, ProcInv
  <2>5. TypeOK'
    BY Zenon, <1>1, <2>2 DEF TypeOK, StateOK, TableOK, CpuOK, ThreadOK, ClockOK, States, Pcs,
       ProcInv
  <2>6. StackInv' /\ TickInv'
    <3>1. pc'[p] = "trapret" /\ \A r \in Slot : r # p => pc'[r] = pc[r]
      BY Zenon, <2>2 DEF TypeOK, ThreadOK, ProcInv
    <3>2. state'[q] = "UNUSED" /\ state'[p] = "RUNNING"
      BY Zenon, <1>2, <2>2, <2>3, <2>4 DEF TypeOK, StateOK, ProcInv
    <3>3. \A r \in Slot : r # p => state'[r] = state[r] \/ (~OnCpu(r) /\ state'[r] # "RUNNING")
      BY Zenon, <2>3, <2>4, <3>2
    <3>4. \A d \in CPU : d # c => (lock' = d <=> lock = d)
      BY Zenon, <1>2, <2>2, CPUAssumption
    <3>5. lock' # c
      BY Zenon, <2>2, CPUAssumption
    <3>6. StackInv'
      BY Zenon, <1>1, <1>2, <3>1, <3>2, <3>3, <3>4, <3>5, StackFrame
    <3>7. TickInv'
      BY Zenon, <1>1, <1>2, <3>1, TickFrame
    <3> QED
      BY Zenon, <3>6, <3>7
  <2>7. RetInv' /\ ChanInv'
    BY Zenon, <1>2, <2>2, <2>4 DEF RetInv, ChanInv, ProcInv, TypeOK, ThreadOK
  <2>8. ChildInv'
    <3>1. \A r \in Slot : Loc(r)' = Loc(r) \/ (r = p /\ Loc(p) = "wait" /\ Loc(p)' = "trapret")
      BY Zenon, <1>2, <2>2 DEF Loc, TypeOK, ThreadOK, ProcInv
    <3>2. child[p] = NoProc
      BY Zenon, <1>2 DEF ChildInv, Loc, ProcInv
    <3>3. ASSUME NEW r \in Slot, NEW k \in Slot, r # p, child[r] = k
          PROVE  state'[k] = "EMBRYO" /\ parent'[k] = parent[k]
      <4>1. child[r] # NoProc /\ k # q
        BY Zenon, <2>3, <3>3, Names
      <4>2. state[k] = "EMBRYO"
        BY Zenon, <3>3, <4>1 DEF ChildInv, ProcInv
      <4>3. state'[k] = state[k] /\ parent'[k] = parent[k]
        BY Zenon, <2>2, <2>4, <4>1 DEF ProcInv, TypeOK, TableOK
      <4> QED
        BY Zenon, <4>2, <4>3
    <3> QED
      BY ZenonT(30), <1>1, <1>2, <3>1, <3>2, <3>3, ChildFrame DEF Loc
  <2>9. ParentInv'
    <3>1. /\ parent'[q] = NoProc /\ state'[q] = "UNUSED" /\ ~Alive(q)'
          /\ \A r \in Slot : r # q => parent'[r] = parent[r]
      BY Zenon, <2>2 DEF TypeOK, StateOK, TableOK, Alive, ProcInv
    <3> QED
      BY Zenon, <2>4, <3>1, ParentFrame
  <2>10. PidInv'
    <3>1. \A r \in Slot : pid'[r] = (IF r = q THEN 0 ELSE pid[r]) /\ pid'[r] < nextpid'
      BY <1>1, <2>2 DEF TypeOK, TableOK, PidInv, ProcInv
    <3> QED
      BY ZenonT(30), <2>2, <3>1 DEF TypeOK, StateOK, PidInv, UniquePids, ProcInv, TableOK
  <2>11. NoMissedExit'
    <3>1. \A r \in Slot : r # p => Children(r)' = Children(r)
      BY Zenon, <2>2, Names DEF Children, TypeOK, TableOK, ProcInv
    <3>2. \A r \in Slot : state'[r] = "SLEEPING" => r # p /\ r # q /\ state[r] = "SLEEPING"
      BY Zenon, <1>2, <2>2 DEF TypeOK, StateOK, ProcInv
    <3> QED
      BY <2>2, <3>1, <3>2 DEF NoMissedExit, ProcInv
  <2>12. NoMissedTick'
    BY Zenon, <1>1, <2>2 DEF NoMissedTick, ProcInv, TypeOK, StateOK
  <2> QED
    BY Zenon, <2>5, <2>6, <2>7, <2>8, <2>9, <2>10, <2>11, <2>12 DEF ProcInv
<1>4. CASE zombies = {} /\ (Children(p) = {} \/ killed[p])
  <2>1. /\ lock' = NoCPU /\ pc' = [pc EXCEPT ![p] = "trapret"]
        /\ UNCHANGED <<state, pid, parent, killed, chan, ret>>
    BY Zenon, <1>4 DEF wait, Goto, First
  <2>2. TypeOK' /\ ChanInv'
    BY Zenon, <1>1, <2>1 DEF TypeOK, StateOK, TableOK, CpuOK, ThreadOK, ClockOK, Pcs, ChanInv,
       ProcInv
  <2>3. StackInv' /\ TickInv' /\ RetInv'
    <3>1. pc'[p] = "trapret" /\ \A r \in Slot : r # p => pc'[r] = pc[r]
      BY Zenon, <2>1 DEF TypeOK, ThreadOK, ProcInv
    <3>2. lock' # c /\ \A d \in CPU : d # c => (lock' = d <=> lock = d)
      BY Zenon, <1>2, <2>1, CPUAssumption
    <3>3. StackInv'
      BY Zenon, <1>1, <1>2, <2>1, <3>1, <3>2, StackFrame
    <3>4. TickInv'
      BY Zenon, <1>1, <1>2, <3>1, TickFrame
    <3>5. RetInv'
      BY Zenon, <1>2, <2>1, <3>1, RetFrame DEF Alive
    <3> QED
      BY Zenon, <3>3, <3>4, <3>5
  <2>4. ChildInv' /\ ParentInv' /\ PidInv'
    BY Zenon, <1>1, <1>2, <2>1, FamilyFrame DEF SameKind, SameForks, Alive, Loc, TypeOK,
       ThreadOK, ProcInv
  <2>5. NoMissedExit' /\ NoMissedTick'
    BY Zenon, <1>1, <2>1, SleepFrame DEF NobodySleeps
  <2> QED
    BY Zenon, <2>2, <2>3, <2>4, <2>5 DEF ProcInv
<1>5. CASE zombies = {} /\ Children(p) # {} /\ ~killed[p]
  <2>1. /\ chan' = [chan EXCEPT ![p] = p] /\ state' = [state EXCEPT ![p] = "SLEEPING"]
        /\ ret' = [ret EXCEPT ![p] = "wait"] /\ pc' = [pc EXCEPT ![p] = "sched"]
        /\ UNCHANGED <<pid, parent, killed, lock>>
    BY Zenon, <1>5 DEF wait, Goto, First
  <2>2. TypeOK' /\ ChanInv'
    BY Zenon, <1>1, <2>1 DEF TypeOK, StateOK, TableOK, CpuOK, ThreadOK, ClockOK, States, Pcs,
       ChanInv, ProcInv
  <2>3. StackInv' /\ TickInv'
    <3>1. /\ pc'[p] = "sched" /\ state'[p] = "SLEEPING"
          /\ \A r \in Slot : r # p => pc'[r] = pc[r] /\ state'[r] = state[r]
      BY Zenon, <2>1 DEF TypeOK, StateOK, ThreadOK, ProcInv
    <3>2. StackInv'
      BY ZenonT(30), <1>1, <1>2, <2>1, <3>1, StackFrame
    <3>3. TickInv'
      BY Zenon, <1>1, <1>2, <3>1, TickFrame
    <3> QED
      BY Zenon, <3>2, <3>3
  <2>4. RetInv'
    BY Zenon, <2>1 DEF TypeOK, ThreadOK, RetInv, Alive, ProcInv, StateOK
  <2>5. ChildInv' /\ ParentInv' /\ PidInv'
    <3>1. SameKind /\ SameForks
      BY Zenon, <1>2, <2>1 DEF SameKind, SameForks, Alive, Loc, TypeOK, StateOK, ThreadOK,
         ProcInv
    <3> QED
      BY Zenon, <1>1, <2>1, <3>1, FamilyFrame
  <2>6. NoMissedExit'
    <3>1. /\ state'[p] = "SLEEPING" /\ \A r \in Slot : r # p => state'[r] = state[r] /\ chan'[r] = chan[r]
          /\ \A r \in Slot : state'[r] = "ZOMBIE" => state[r] = "ZOMBIE"
      BY Zenon, <2>1 DEF TypeOK, StateOK, TableOK, ProcInv
    <3>2. \A r \in Slot : Children(r)' = Children(r)
      BY Zenon, <2>1 DEF Children
    <3>3. \A r \in Slot : Children(r) \subseteq Slot
      BY Zenon DEF Children
    <3>4. ASSUME NEW r \in Slot, state'[r] = "SLEEPING", chan'[r] = r
          PROVE  Children(r) # {} /\ ~killed[r] /\ \A s \in Children(r) : state[s] # "ZOMBIE"
      <4>1. CASE r = p
        BY Zenon, <1>5, <4>1
      <4>2. CASE r # p
        BY Zenon, <3>1, <3>4, <4>2 DEF NoMissedExit, ProcInv
      <4> QED
        BY Zenon, <4>1, <4>2
    <3> QED
      BY ZenonT(30), <2>1, <3>1, <3>2, <3>3, <3>4 DEF NoMissedExit
  <2>7. NoMissedTick'
    BY Zenon, <1>1, <2>1, Names DEF TypeOK, TableOK, NoMissedTick, ProcInv, StateOK
  <2> QED
    BY Zenon, <2>2, <2>3, <2>4, <2>5, <2>6, <2>7 DEF ProcInv
<1> QED
  BY Zenon, <1>3, <1>4, <1>5

(* kill marks its victim, and wakes it if it sleeps. *)
LEMMA KillInv ==
  ASSUME ProcInv, NEW c \in CPU, NEW p \in Slot, NEW n \in Killable, kill(c, p, n)
  PROVE  ProcInv'
<1> DEFINE found == {q \in Slot : pid[q] = n}
<1>1. /\ At(c, p, "user") /\ lock = NoCPU /\ Goto(p, "trapret")
      /\ UNCHANGED <<pid, parent, chan, nextpid, lock, cpu, scan, ret, child, clock, panicked>>
  BY Zenon DEF kill, SysCall
<1>2. CASE found = {}
  BY Zenon, <1>1, <1>2, MoveInv DEF kill, TypeOK, TableOK, First, ProcInv
<1>3. CASE found # {}
  <2>2. PICK q \in Slot :
          /\ killed' = [killed EXCEPT ![q] = TRUE]
          /\ state' = [state EXCEPT ![q] = IF state[q] = "SLEEPING" THEN "RUNNABLE" ELSE state[q]]
    BY Zenon, <1>3 DEF kill, First
  <2>3. /\ state[p] = "RUNNING" /\ ret[p] = "user" /\ OnCpu(p) /\ tlock # c
        /\ cpu[c] = p /\ pc[p] = "user" /\ pc' = [pc EXCEPT ![p] = "trapret"]
    BY Zenon, <1>1, Running DEF At, Goto
  <2>4. /\ state' \in [Slot -> States]
        /\ \A r \in Slot : \/ state'[r] = state[r]
                           \/ state[r] = "SLEEPING" /\ state'[r] = "RUNNABLE"
        /\ state'[q] # "SLEEPING"
    BY Zenon, <2>2 DEF TypeOK, StateOK, States, ProcInv
  <2>5. TypeOK' /\ ChanInv'
    BY Zenon, <1>1, <2>2, <2>3, <2>4 DEF TypeOK, StateOK, TableOK, CpuOK, ThreadOK, ClockOK,
       Pcs, ChanInv, ProcInv
  <2>6. StackInv' /\ TickInv'
    <3>1. pc'[p] = "trapret" /\ \A r \in Slot : r # p => pc'[r] = pc[r]
      BY Zenon, <2>3 DEF TypeOK, ThreadOK, ProcInv
    <3>2. state'[p] = "RUNNING" /\ cpu' = cpu /\ lock' = lock /\ lock # c
      BY Zenon, <1>1, <2>3, <2>4, CPUAssumption
    <3>3. StackInv'
      BY Zenon, <2>3, <2>4, <3>1, <3>2, StackFrame
    <3>4. TickInv'
      BY Zenon, <1>1, <2>3, <3>1, TickFrame
    <3> QED
      BY Zenon, <3>3, <3>4
  <2>7. RetInv'
    BY Zenon, <1>1, <2>3, <2>4 DEF RetInv, Alive, ProcInv, TypeOK, ThreadOK
  <2>8. ChildInv' /\ ParentInv' /\ PidInv'
    <3>1. SameKind
      BY Zenon, <2>4 DEF SameKind, Alive
    <3>2. SameForks
      BY Zenon, <1>1, <2>3 DEF SameForks, Loc, TypeOK, ThreadOK, ProcInv
    <3> QED
      BY Zenon, <1>1, <3>1, <3>2, FamilyFrame
  <2>9. NoMissedExit' /\ NoMissedTick'
    <3>1. NobodySleeps
      BY Zenon, <1>1, <2>2, <2>4 DEF TypeOK, TableOK, NobodySleeps, ProcInv
    <3> QED
      BY Zenon, <1>1, <2>4, <3>1, SleepFrame
  <2> QED
    BY Zenon, <2>5, <2>6, <2>7, <2>8, <2>9 DEF ProcInv
<1> QED
  BY Zenon, <1>2, <1>3

(* sleep(n) takes tickslock, at first and when it is awakened. *)
LEMMA TickLockInv ==
  ASSUME ProcInv, NEW c \in CPU, NEW p \in Slot,
         (\E n \in 1 .. MAXTICKS : sys_sleep(c, p, n)) \/ sleep_relock(c, p)
  PROVE  ProcInv'
<1>1. /\ At(c, p, "user") \/ At(c, p, "tick_lock")
      /\ tlock = NoCPU /\ tlock' = c /\ pc' = [pc EXCEPT ![p] = "tick_test"]
      /\ UNCHANGED <<ptable, lock, cpu, scan, ret, child, panicked>>
  BY Zenon DEF sys_sleep, SysCall, sleep_relock, Goto
<1>2. due' \in [Slot -> Nat] /\ \A q \in Slot : q # p => due'[q] = due[q]
  BY DEF sys_sleep, sleep_relock, TypeOK, ClockOK, ProcInv
<1>3. /\ state[p] = "RUNNING" /\ ret[p] = "user" /\ OnCpu(p) /\ cpu[c] = p
      /\ pc[p] \in {"user", "tick_lock"} /\ \A d \in CPU : cpu[d] = p => d = c
  BY Zenon, <1>1, Running DEF At
<1>4. TypeOK' /\ ChanInv'
  BY Zenon, <1>1, <1>2 DEF TypeOK, StateOK, TableOK, CpuOK, ThreadOK, ClockOK, Pcs, ChanInv,
     ProcInv
<1>5. StackInv' /\ TickInv'
  <2>1. pc'[p] = "tick_test" /\ \A q \in Slot : q # p => pc'[q] = pc[q]
    BY Zenon, <1>1 DEF TypeOK, ThreadOK, ProcInv
  <2>2. lock # c
    BY Zenon, <1>1, <1>3, Running
  <2>3. \A d \in CPU : d # c => (tlock' = d <=> tlock = d)
    BY Zenon, <1>1, CPUAssumption
  <2>4. StackInv'
    BY Zenon, <1>1, <1>3, <2>1, <2>2, StackFrame
  <2>5. TickInv'
    BY ZenonT(30), <1>1, <1>2, <1>3, <2>1, <2>3, TickFrame
  <2> QED
    BY Zenon, <2>4, <2>5
<1>6. RetInv'
  BY Zenon, <1>1, <1>3 DEF RetInv, Alive, ProcInv, TypeOK, ThreadOK
<1>7. ChildInv' /\ ParentInv' /\ PidInv'
  BY Zenon, <1>1, <1>3, FamilyFrame DEF SameKind, SameForks, Alive, Loc, TypeOK, ThreadOK,
     ProcInv
<1>8. NoMissedExit' /\ NoMissedTick'
  BY Zenon, <1>1, <1>2, <1>3, SleepFrame DEF NobodySleeps
<1> QED
  BY Zenon, <1>4, <1>5, <1>6, <1>7, <1>8 DEF ProcInv

(* The test of ticks, under tickslock. *)
LEMMA SleepTestInv ==
  ASSUME ProcInv, NEW c \in CPU, NEW p \in Slot, sleep_test(c, p)
  PROVE  ProcInv'
<1>1. /\ state[p] = "RUNNING" /\ ret[p] = "user" /\ OnCpu(p) /\ lock # c /\ tlock = c
      /\ \A d \in CPU : cpu[d] = p => d = c
  BY ZenonT(30), Running DEF sleep_test, At
<1>2. /\ cpu[c] = p /\ pc[p] = "tick_test" /\ UNCHANGED <<ptable, lock, cpu, scan, ret, child, panicked>>
      /\ \/ tlock' = NoCPU /\ due' = [due EXCEPT ![p] = 0] /\ pc' = [pc EXCEPT ![p] = "trapret"]
         \/ tlock' = tlock /\ due' = due /\ due[p] # 0 /\ pc' = [pc EXCEPT ![p] = "sleep"]
  <2>1. CASE due[p] = 0 \/ killed[p]
    BY Zenon, <2>1 DEF sleep_test, At, Goto
  <2>2. CASE ~(due[p] = 0 \/ killed[p])
    BY Zenon, <2>2 DEF sleep_test, At, Goto
  <2> QED
    BY Zenon, <2>1, <2>2
<1>3. TypeOK' /\ ChanInv'
  <2>1. due' \in [Slot -> Nat]
    BY <1>2 DEF TypeOK, ClockOK, ProcInv
  <2>2. pc' \in [Slot -> Pcs]
    BY ZenonT(30), <1>2 DEF TypeOK, ThreadOK, Pcs, ProcInv
  <2> QED
    BY Zenon, <1>2, <2>1, <2>2 DEF TypeOK, StateOK, TableOK, CpuOK, ThreadOK, ClockOK, ChanInv,
       ProcInv
<1>4. StackInv' /\ TickInv'
  <2>1. \A q \in Slot : q # p => pc'[q] = pc[q] /\ due'[q] = due[q]
    BY Zenon, <1>2 DEF TypeOK, ThreadOK, ClockOK, ProcInv
  <2>2. \/ tlock' # c /\ pc'[p] = "trapret"
        \/ tlock' = c /\ due' = due /\ due[p] # 0 /\ pc'[p] = "sleep"
    BY Zenon, <1>1, <1>2, CPUAssumption DEF TypeOK, ThreadOK, ProcInv
  <2>3. \A d \in CPU : d # c => (tlock' = d <=> tlock = d)
    BY Zenon, <1>1, <1>2, CPUAssumption
  <2>4. due[p] # 0 => due[p] > 0
    BY DEF TypeOK, ClockOK, ProcInv
  <2>5. StackInv'
    BY ZenonT(30), <1>1, <1>2, <2>1, <2>2, StackFrame
  <2>6. TickInv'
    BY ZenonT(30), <1>2, <2>1, <2>2, <2>3, <2>4, TickFrame
  <2> QED
    BY Zenon, <2>5, <2>6
<1>5. RetInv'
  BY Zenon, <1>1 DEF TypeOK, ThreadOK, RetInv, Alive, ProcInv, sleep_test, Goto
<1>6. ChildInv' /\ ParentInv' /\ PidInv'
  BY ZenonT(30), FamilyFrame DEF TypeOK, ThreadOK, SameKind, SameForks, Alive, Loc, ProcInv, sleep_test, At,
     Goto
<1>7. NoMissedExit' /\ NoMissedTick'
  BY Zenon, <1>1, SleepFrame DEF TypeOK, ClockOK, NobodySleeps, ProcInv, sleep_test
<1> QED
  BY Zenon, <1>3, <1>4, <1>5, <1>6, <1>7 DEF ProcInv

(* sleep gives up tickslock when it has ptable.lock. *)
LEMMA SleepInv ==
  ASSUME ProcInv, NEW c \in CPU, NEW p \in Slot, sleep(c, p)
  PROVE  ProcInv'
<1>1. /\ state[p] = "RUNNING" /\ ret[p] = "user" /\ OnCpu(p) /\ tlock = c /\ due[p] > 0 /\ cpu[c] = p /\ pc[p] = "sleep"
      /\ \A d \in CPU : cpu[d] = p => d = c
  BY ZenonT(30), Running DEF TickInv, ProcInv, sleep, At
<1>2. TypeOK' /\ ChanInv'
  BY Zenon DEF TypeOK, StateOK, TableOK, CpuOK, ThreadOK, ClockOK, Pcs, States, ChanInv,
     ProcInv, sleep, Goto, Acquire
<1>3. StackInv' /\ TickInv'
  <2>1. /\ pc'[p] = "sched" /\ state'[p] = "SLEEPING"
        /\ \A q \in Slot : q # p => pc'[q] = pc[q] /\ state'[q] = state[q]
        /\ lock = NoCPU /\ lock' = c /\ tlock' = NoCPU /\ cpu' = cpu /\ due' = due
    BY Zenon DEF TypeOK, StateOK, ThreadOK, ProcInv, sleep, Goto, Acquire
  <2>2. tlock' # c /\ \A d \in CPU : d # c => (lock' = d <=> lock = d) /\ (tlock' = d <=> tlock = d)
    BY Zenon, <1>1, <2>1, CPUAssumption
  <2>3. StackInv'
    BY Zenon, <1>1, <2>1, <2>2, StackFrame
  <2>4. TickInv'
    BY Zenon, <1>1, <2>1, <2>2, TickFrame
  <2> QED
    BY Zenon, <2>3, <2>4
<1>4. RetInv'
  BY Zenon DEF TypeOK, ThreadOK, RetInv, Alive, ProcInv, sleep, Goto, StateOK
<1>5. ChildInv' /\ ParentInv' /\ PidInv'
  BY Zenon, <1>1, FamilyFrame DEF SameKind, SameForks, Alive, Loc, sleep, At, Goto, TypeOK,
     StateOK, ThreadOK, ProcInv
<1>6. NoMissedExit' /\ NoMissedTick'
  <2>1. /\ chan'[p] = ticks /\ state'[p] = "SLEEPING" /\ due' = due /\ killed' = killed
        /\ \A q \in Slot : q # p => chan'[q] = chan[q] /\ state'[q] = state[q]
        /\ \A q \in Slot : Children(q)' = Children(q)
    BY Zenon DEF TypeOK, TableOK, StateOK, Children, ProcInv, sleep
  <2>2. NoMissedExit'
    <3>1. \A q \in Slot : state'[q] = "ZOMBIE" => state[q] = "ZOMBIE"
      BY Zenon, <2>1
    <3>2. \A q \in Slot : Children(q) \subseteq Slot
      BY Zenon DEF Children
    <3>3. \A q \in Slot : state'[q] = "SLEEPING" /\ chan'[q] = q => q # p
      BY Zenon, <2>1, Names
    <3>4. ASSUME NEW q \in Slot, state'[q] = "SLEEPING", chan'[q] = q
          PROVE  Children(q) # {} /\ ~killed[q] /\ \A r \in Children(q) : state[r] # "ZOMBIE"
      BY Zenon, <2>1, <3>3, <3>4 DEF NoMissedExit, ProcInv
    <3> QED
      BY ZenonT(30), <2>1, <3>1, <3>2, <3>4 DEF NoMissedExit
  <2>3. NoMissedTick'
    BY Zenon, <1>1, <2>1 DEF NoMissedTick, ProcInv
  <2> QED
    BY Zenon, <2>2, <2>3
<1> QED
  BY Zenon, <1>2, <1>3, <1>4, <1>5, <1>6 DEF ProcInv

-----------------------------------------------------------------------------
(* Every step preserves the invariant. *)
LEMMA NextInv ==
  ASSUME ProcInv, Next
  PROVE  ProcInv'
<1>1. ASSUME NEW c \in CPU, scheduler_acquire(c) \/ scheduler(c) \/ timer(c)
      PROVE  ProcInv'
  BY Zenon, <1>1, SchedulerAcquireInv, SchedulerInv, TimerInv
<1>2. ASSUME NEW c \in CPU, NEW p \in Slot, Switch(c, p)
      PROVE  ProcInv'
  BY Zenon, <1>2, YieldInv, SwtchInv, ResumeInv DEF Switch
<1>3. ASSUME NEW c \in CPU, NEW p \in Slot, Kernel(c, p)
      PROVE  ProcInv'
  BY Zenon, <1>3, TrapInv, ForkFailInv, ForkCopyInv, ForkRunInv, ExitInv, WaitInv, SleepTestInv,
     SleepInv, TickLockInv DEF Kernel
<1>4. ASSUME NEW c \in CPU, NEW p \in Slot, User(c, p)
      PROVE  ProcInv'
  BY Zenon, <1>4, TrapInv, AllocprocInv, SysWaitInv, KillInv, TickLockInv DEF User
<1> QED
  BY Zenon, <1>1, <1>2, <1>3, <1>4 DEF Next

(* So does a step that changes nothing. *)
LEMMA StutterInv == ProcInv /\ UNCHANGED vars => ProcInv'
<1> SUFFICES ASSUME ProcInv, UNCHANGED vars PROVE ProcInv'
  BY Zenon
<1>1. TypeOK' /\ ChanInv'
  BY Zenon DEF TypeOK, StateOK, TableOK, CpuOK, ThreadOK, ClockOK, ChanInv, vars, ProcInv
<1>2. StackInv' /\ RetInv' /\ TickInv'
  <2>1. StackInv'
    BY ZenonT(30) DEF StackInv, OnCpu, vars, ProcInv
  <2>2. RetInv'
    BY Zenon DEF RetInv, Alive, vars, ProcInv
  <2>3. TickInv'
    BY Zenon DEF TickInv, vars, ProcInv
  <2> QED
    BY Zenon, <2>1, <2>2, <2>3
<1>3. ChildInv' /\ ParentInv' /\ PidInv'
  BY Zenon, FamilyFrame DEF SameKind, SameForks, Alive, Loc, vars
<1>4. NoMissedExit' /\ NoMissedTick'
  BY Zenon, SleepFrame DEF NobodySleeps, vars
<1> QED
  BY Zenon, <1>1, <1>2, <1>3, <1>4 DEF ProcInv

(* ptable.lock, the CPUs, the states of processes and their families hang  *)
(* together as proc.c relies on, whatever the processes call and whenever  *)
(* clock interrupts come.                                                  *)
THEOREM Invariance == Spec => []ProcInv
<1>1. ProcInv /\ [Next]_vars => ProcInv'
  BY Zenon, NextInv, StutterInv
<1> QED
  BY InitInv, <1>1, PTL DEF Spec

(* No two CPUs are ever on the same kernel stack, and a process is off its *)
(* stack before another CPU resumes it or wait frees it (swtch, scheduler  *)
(* and exit under ptable.lock).                                            *)
THEOREM StackSafety == Spec => []OneStackOneCPU
<1>1. ProcInv => OneStackOneCPU
  BY Zenon DEF ProcInv, StackInv, OnCpu, OneStackOneCPU
<1> QED
  BY Invariance, <1>1, PTL

(* Every process but init has a living parent, although parents exit while *)
(* their children run, sleep or are zombies.                               *)
THEOREM ParentsLive == Spec => []ParentLives
<1>1. ProcInv => ParentLives
  BY Zenon DEF ProcInv, TypeOK, TableOK, ParentInv, ParentLives
<1> QED
  BY Invariance, <1>1, PTL

(* sleep and wakeup lose nothing: not the exit of a child, not a kill, not *)
(* the tick that comes between the test and the sleep.                     *)
THEOREM WakeupsNotMissed == Spec => []NoMissedWakeup
<1>1. ProcInv => NoMissedWakeup
  BY Zenon DEF ProcInv, NoMissedWakeup
<1> QED
  BY Invariance, <1>1, PTL
=============================================================================
