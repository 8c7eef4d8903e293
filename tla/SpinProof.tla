------------------------------ MODULE SpinProof ------------------------------
(***************************************************************************)
(* The spinlocks exclude and mask interrupts for any number of CPUs and    *)
(* kernel threads: LockInv is inductive, with one lemma per action.        *)
(***************************************************************************)
EXTENDS SpinLock, TLAPS

USE DEF lockVars, cpuVars, ctxVars, schedVars

(* ncli counts a set of at most two locks. *)
LEMMA Count ==
  ASSUME NEW S \in SUBSET Lock
  PROVE  /\ HowMany(S) \in Nat /\ (HowMany(S) = 0 <=> S = {})
         /\ \A l \in Lock : l \notin S => HowMany(S \cup {l}) = HowMany(S) + 1
         /\ \A l \in Lock : l \in S => HowMany(S \ {l}) = HowMany(S) - 1
         /\ HowMany({"ptable"}) = 1
BY DEF Lock, HowMany

(* A CPU that has popped every cli is not above zero. *)
LEMMA Balanced == ~(0 > 0)
OBVIOUS

(* The part of LockInv that implies the rest. *)
Ind == /\ TypeOK /\ NoPanic /\ PlaceInv /\ FrameInv /\ StepInv /\ OwnerInv
       /\ MutualExclusion /\ LocksMaskInterrupts /\ InterruptsRestored

(* holding answers for the CPU that asks. *)
LEMMA Exact == Ind => HoldingIsExact
BY Zenon DEF Ind, OwnerInv, Inside, HoldingIsExact, holding

(* Every CPU starts in its scheduler, without locks. *)
LEMMA InitInd == Init => Ind
<1> SUFFICES ASSUME Init PROVE Ind
  BY Zenon
<1>1. TypeOK /\ NoPanic
  <2>1. frames \in [Context -> Seq(Frame)]
    <3>1. [gate |-> FALSE, pc |-> "run", arg |-> "ptable", eflags |-> FALSE] \in Frame
      BY Zenon DEF Frame, Pcs, Lock
    <3> QED
      BY <3>1 DEF Init
  <2>2. /\ locked \in [Lock -> BOOLEAN] /\ cpu \in [Lock -> CPU \cup {NoCPU}] /\ running \in [CPU -> Context]
        /\ pc \in [Context -> Pcs] /\ arg \in [Context -> Lock] /\ held \in [Context -> SUBSET Lock]
    BY Zenon DEF Lock, Pcs, Init, Context
  <2> QED
    BY Zenon, <2>1, <2>2 DEF TypeOK, LockOK, CpuOK, PlaceOK, FrameOK, HeldOK, SchedOK, NoPanic,
       Init
<1>2. PlaceInv
  BY SpinAssumption DEF PlaceInv, Depth, InGate, Init, Context
<1>3. FrameInv
  BY DEF FrameInv, Depth, Init, Context
<1>4. StepInv /\ OwnerInv /\ MutualExclusion
  BY Zenon, SpinAssumption DEF StepInv, OwnerInv, MutualExclusion, Inside, Init, Context
<1>5. LocksMaskInterrupts
  <2>1. {} \in SUBSET Lock
    BY Zenon
  <2>2. HowMany({}) = 0
    BY Zenon, <2>1, Count
  <2>3. HowMany({}) + 0 = 0 /\ ~(0 > 0)
    BY <2>2
  <2>4. ASSUME NEW c \in CPU
        PROVE  pc[running[c]] = "run" /\ held[running[c]] = {} /\ ncli[c] = 0
    BY Zenon DEF Init, Context
  <2> QED
    BY Zenon, <2>3, <2>4 DEF LocksMaskInterrupts
<1>6. InterruptsRestored
  BY DEF InterruptsRestored, Init, Context
<1> QED
  BY Zenon, <1>1, <1>2, <1>3, <1>4, <1>5, <1>6 DEF Ind

-----------------------------------------------------------------------------
(* LockInv as one CPU sees it. *)
StepAt(c) ==
  LET x == running[c]
  IN /\ pc[x] \in {"cli", "xchg", "setcpu"} => arg[x] \notin held[x] /\ "ptable" \notin held[x]
     /\ pc[x] = "cli" => eflags[x] = IF_[c]
     /\ pc[x] = "unlock" => arg[x] \in held[x]
     /\ pc[x] = "sti" => x = c /\ frames[x] = <<>> /\ held[x] = {}
     /\ x \in CPU /\ frames[x] = <<>> =>
          held[x] \subseteq {"ptable"} /\ (pc[x] \in {"cli", "xchg", "setcpu"} => arg[x] = "ptable")
     /\ ncli[c] > 0 => (InGate(x) => ~intena[c]) /\ (Depth(x) = 0 /\ x \in Thread => intena[c])

MaskAt(c) ==
  LET x == running[c]
  IN /\ ncli[c] = IF pc[x] \in {"xchg", "setcpu"} THEN HowMany(held[x]) + 1 ELSE HowMany(held[x])
     /\ ncli[c] > 0 => ~IF_[c]

RestoredAt(c) ==
  LET x == running[c]
  IN pc[x] \in {"run", "cli"} /\ held[x] = {} => (InGate(x) => ~IF_[c]) /\ (Depth(x) = 0 => IF_[c])

Mine(c, l) == l \in held[running[c]] /\ ~(pc[running[c]] = "unlock" /\ arg[running[c]] = l)

(* What FrameInv says of frame i of context x, which is f, above frame g. *)
FrameAt(x, i, f, g) ==
  /\ f.pc \in {"run", "cli", "sti"}
  /\ f.pc = "cli" => f.eflags /\ (x \in CPU => f.arg = "ptable")
  /\ f.pc = "sti" => x \in CPU /\ i = 1
  /\ IF f.gate THEN i > 1 => ~g.gate ELSE i = 1 /\ f.pc = "run" /\ x \in Thread

(* The lowest frame is above none. *)
LEMMA LowestFrame ==
  ASSUME NEW x, NEW f, NEW g, NEW h, FrameAt(x, 1, f, g)
  PROVE  FrameAt(x, 1, f, h)
<1>1. ~(1 > 1)
  OBVIOUS
<1> QED
  BY Zenon, <1>1 DEF FrameAt

(* What the invariant says of one CPU. *)
LEMMA AtEachCpu ==
  ASSUME TypeOK
  PROVE  /\ StepInv <=> \A c \in CPU : StepAt(c)
         /\ LocksMaskInterrupts <=> \A c \in CPU : MaskAt(c)
         /\ InterruptsRestored <=> \A c \in CPU : RestoredAt(c)
<1>1. StepInv <=> \A c \in CPU : StepAt(c)
  BY Zenon DEF StepInv, StepAt
<1>2. LocksMaskInterrupts <=> \A c \in CPU : MaskAt(c)
  <2>1. \A c \in CPU : HowMany(held[running[c]]) \in Nat
    BY Zenon, Count DEF TypeOK, HeldOK, SchedOK
  <2> QED
    BY <2>1 DEF LocksMaskInterrupts, MaskAt
<1>3. InterruptsRestored <=> \A c \in CPU : RestoredAt(c)
  BY Zenon DEF InterruptsRestored, RestoredAt, InGate, Depth
<1> QED
  BY Zenon, <1>1, <1>2, <1>3

(* What is said of a CPU depends on the CPU and the context it runs. *)
LEMMA SameCpu ==
  ASSUME NEW d \in CPU, NEW y \in Context, running[d] = y, running'[d] = y,
         IF_'[d] = IF_[d], ncli'[d] = ncli[d], intena'[d] = intena[d],
         pc'[y] = pc[y], arg'[y] = arg[y], eflags'[y] = eflags[y], frames'[y] = frames[y],
         held'[y] = held[y], StepAt(d), MaskAt(d), RestoredAt(d)
  PROVE  StepAt(d)' /\ MaskAt(d)' /\ RestoredAt(d)'
<1>1. StepAt(d)'
  BY DEF StepAt, InGate, Depth
<1>2. MaskAt(d)'
  BY DEF MaskAt
<1>3. RestoredAt(d)'
  BY DEF RestoredAt, InGate, Depth
<1> QED
  BY Zenon, <1>1, <1>2, <1>3

(* What CPU c does with the context it runs, or switches to, is no concern *)
(* of the other CPUs.                                                      *)
LEMMA OtherCpus ==
  ASSUME Ind, TypeOK', PlaceInv', NEW c \in CPU,
         \A d \in CPU : d # c =>
           /\ running'[d] = running[d] /\ IF_'[d] = IF_[d] /\ ncli'[d] = ncli[d] /\ intena'[d] = intena[d],
         \A y \in Context : y \notin {running[c], running'[c]} =>
           /\ pc'[y] = pc[y] /\ arg'[y] = arg[y] /\ eflags'[y] = eflags[y]
           /\ frames'[y] = frames[y] /\ held'[y] = held[y],
         StepAt(c)', MaskAt(c)', RestoredAt(c)'
  PROVE  StepInv' /\ LocksMaskInterrupts' /\ InterruptsRestored'
<1>1. ASSUME NEW d \in CPU, d # c
      PROVE  StepAt(d)' /\ MaskAt(d)' /\ RestoredAt(d)'
  <2>1. running[d] \in Context /\ running[d] # running[c]
    BY ZenonT(30), <1>1 DEF PlaceInv, TypeOK, FrameOK, SchedOK, Ind
  <2>2. running'[d] # running'[c]
    BY Zenon, <1>1 DEF PlaceInv
  <2>3. StepAt(d) /\ MaskAt(d) /\ RestoredAt(d)
    BY Zenon, AtEachCpu DEF Ind
  <2>4. PICK y \in Context : running[d] = y
    BY Zenon, <2>1
  <2>5. /\ running'[d] = y /\ IF_'[d] = IF_[d] /\ ncli'[d] = ncli[d] /\ intena'[d] = intena[d]
        /\ pc'[y] = pc[y] /\ arg'[y] = arg[y] /\ eflags'[y] = eflags[y] /\ frames'[y] = frames[y]
        /\ held'[y] = held[y]
    BY ZenonT(30), <1>1, <2>1, <2>2, <2>4
  <2> QED
    BY Zenon, <2>3, <2>4, <2>5, SameCpu
<1>2. \A d \in CPU : StepAt(d)' /\ MaskAt(d)' /\ RestoredAt(d)'
  BY Zenon, <1>1
<1>3. StepInv'
  BY Zenon, <1>2 DEF StepInv, StepAt
<1>4. LocksMaskInterrupts'
  <2>1. \A d \in CPU : HowMany(held'[running'[d]]) \in Nat
    BY ZenonT(30), Count DEF TypeOK, HeldOK, SchedOK
  <2> QED
    BY <1>2, <2>1 DEF LocksMaskInterrupts, MaskAt
<1>5. InterruptsRestored'
  BY Zenon, <1>2 DEF InterruptsRestored, RestoredAt, InGate, Depth
<1> QED
  BY Zenon, <1>3, <1>4, <1>5

(* What the words of the locks say of the contexts that hold them. *)
LEMMA Owners ==
  ASSUME Ind
  PROVE  \A d \in CPU, l \in Lock : (Inside(d, l) => locked[l]) /\ (cpu[l] = d <=> Mine(d, l))
BY Zenon DEF Ind, OwnerInv, Mine

(* A step that takes and gives back no lock. *)
LEMMA OwnerFrame ==
  ASSUME Ind, UNCHANGED <<locked, cpu>>,
         \A d \in CPU, l \in Lock : (Inside(d, l)' <=> Inside(d, l)) /\ (Mine(d, l)' <=> Mine(d, l))
  PROVE  OwnerInv' /\ MutualExclusion'
<1>1. OwnerInv'
  BY DEF Ind, OwnerInv, Mine
<1>2. MutualExclusion'
  BY Zenon DEF Ind, MutualExclusion
<1> QED
  BY Zenon, <1>1, <1>2

(* A step that does not switch leaves what does not run alone. *)
LEMMA PlaceFrame ==
  ASSUME Ind, NEW c \in CPU, UNCHANGED <<running, saved, ready, fresh>>,
         \A y \in Context : y # running[c] =>
           pc'[y] = pc[y] /\ held'[y] = held[y] /\ frames'[y] = frames[y]
  PROVE  PlaceInv'
<1>1. \A t \in ready : t \in Context /\ t # running[c]
  BY SpinAssumption DEF PlaceInv, Ind, TypeOK, SchedOK, Context
<1>2. \A d \in CPU : running[d] # d => d \in Context /\ d # running[c]
  BY SpinAssumption DEF PlaceInv, Ind, Context
<1>3. \A t \in ready : /\ pc'[t] = pc[t] /\ held'[t] = held[t]
                       /\ Depth(t)' = Depth(t) /\ (InGate(t)' <=> InGate(t))
  BY Zenon, <1>1 DEF Depth, InGate
<1>4. \A d \in CPU : running[d] # d => pc'[d] = pc[d] /\ held'[d] = held[d] /\ frames'[d] = frames[d]
  BY Zenon, <1>2
<1>5. ASSUME NEW t \in ready'
      PROVE  /\ pc'[t] = "run" /\ held'[t] = IF t \in fresh' THEN {} ELSE {"ptable"}
             /\ t \in fresh' => Depth(t)' > 0 /\ ~InGate(t)'
             /\ t \notin fresh' => (InGate(t)' => ~saved'[t]) /\ (Depth(t)' = 0 => saved'[t])
  <2>1. t \in ready
    OBVIOUS
  <2>2. /\ pc[t] = "run" /\ held[t] = IF t \in fresh THEN {} ELSE {"ptable"}
        /\ t \in fresh => Depth(t) > 0 /\ ~InGate(t)
        /\ t \notin fresh => (InGate(t) => ~saved[t]) /\ (Depth(t) = 0 => saved[t])
    BY Zenon, <2>1 DEF Ind, PlaceInv
  <2> QED
    BY Zenon, <1>3, <2>1, <2>2
<1>6. /\ \A d \in CPU : running'[d] \in {d} \cup (Thread \ ready')
      /\ \A d, e \in CPU : running'[d] = running'[e] => d = e
      /\ \A d \in CPU : running'[d] # d => pc'[d] = "run" /\ frames'[d] = <<>> /\ held'[d] = {"ptable"}
      /\ fresh' \subseteq ready'
  BY ZenonT(30), <1>4 DEF Ind, PlaceInv
<1> QED
  BY Zenon, <1>5, <1>6 DEF PlaceInv

(* A step that neither traps nor returns from a trap. *)
LEMMA FramesSame ==
  ASSUME Ind, frames' = frames
  PROVE  FrameInv'
<1>1. \A y \in Context : \A i \in 1 .. Depth(y) : FrameAt(y, i, frames[y][i], frames[y][i - 1])
  BY Zenon DEF Ind, FrameInv, FrameAt
<1>2. \A y \in Context : \A i \in 1 .. Depth(y)' : FrameAt(y, i, frames'[y][i], frames'[y][i - 1])
  BY Zenon, <1>1 DEF Depth
<1> QED
  BY Zenon, <1>2 DEF FrameInv, FrameAt

(* Such a step of CPU c, with the context x that it runs and goes on with. *)
LEMMA LocalStep ==
  ASSUME Ind, TypeOK', NEW c \in CPU, NEW x \in Context, running[c] = x,
         UNCHANGED <<frames, running, saved, ready, fresh>>,
         \A d \in CPU : d # c => IF_'[d] = IF_[d] /\ ncli'[d] = ncli[d] /\ intena'[d] = intena[d],
         \A y \in Context : y # x =>
           pc'[y] = pc[y] /\ arg'[y] = arg[y] /\ eflags'[y] = eflags[y] /\ held'[y] = held[y],
         StepAt(c)', MaskAt(c)', RestoredAt(c)'
  PROVE  PlaceInv' /\ FrameInv' /\ StepInv' /\ LocksMaskInterrupts' /\ InterruptsRestored'
<1>1. PlaceInv'
  BY Zenon, PlaceFrame
<1>2. FrameInv'
  BY Zenon, FramesSame
<1> QED
  BY Zenon, <1>1, <1>2, OtherCpus

(* What a running context may rely on. *)
LEMMA View ==
  ASSUME Ind, NEW c \in CPU, NEW x \in Context, NEW l, At(c, x, l)
  PROVE  /\ ~panicked /\ running[c] = x /\ pc[x] = l /\ StepAt(c) /\ MaskAt(c) /\ RestoredAt(c)
         /\ held[x] \in SUBSET Lock /\ arg[x] \in Lock /\ ncli[c] \in Nat
         /\ \A d \in CPU : d # c => running[d] # x
         /\ \A k \in Lock : holding(k, c) <=> Mine(c, k)
<1>1. StepAt(c) /\ MaskAt(c) /\ RestoredAt(c)
  BY Zenon, AtEachCpu DEF Ind
<1>2. \A k \in Lock : holding(k, c) <=> Mine(c, k)
  BY Zenon, Exact DEF HoldingIsExact, Mine
<1> QED
  BY Zenon, <1>1, <1>2 DEF Ind, At, TypeOK, CpuOK, PlaceOK, HeldOK, PlaceInv

-----------------------------------------------------------------------------
(* pushcli reads eflags: nothing else changes. *)
LEMMA PushcliReadInd ==
  ASSUME Ind, NEW c \in CPU, NEW x \in Context, NEW l \in Lock, pushcli_read(c, x, l)
  PROVE  Ind'
<1>1. TypeOK' /\ NoPanic'
  BY Zenon DEF Ind, TypeOK, LockOK, CpuOK, PlaceOK, FrameOK, HeldOK, SchedOK, NoPanic, Pcs,
     pushcli_read
<1>2. /\ running[c] = x /\ pc[x] = "run" /\ StepAt(c) /\ MaskAt(c) /\ RestoredAt(c)
      /\ \A d \in CPU : d # c => running[d] # x
  BY Zenon, View DEF pushcli_read
<1>3. /\ pc'[x] = "cli" /\ arg'[x] = l /\ eflags'[x] = IF_[c]
      /\ \A y \in Context : y # x => pc'[y] = pc[y] /\ arg'[y] = arg[y] /\ eflags'[y] = eflags[y]
      /\ l \notin held[x] /\ "ptable" \notin held[x] /\ (x \in CPU /\ frames[x] = <<>> => l = "ptable")
      /\ UNCHANGED <<locked, cpu, IF_, ncli, intena, frames, held, running, saved, ready, fresh>>
  BY Zenon DEF Ind, TypeOK, PlaceOK, pushcli_read
<1>4. StepAt(c)' /\ MaskAt(c)' /\ RestoredAt(c)'
  <2>1. StepAt(c)'
    BY Zenon, <1>2, <1>3 DEF StepAt, InGate, Depth
  <2>2. MaskAt(c)' /\ RestoredAt(c)'
    BY Zenon, <1>2, <1>3 DEF MaskAt, RestoredAt, InGate, Depth
  <2> QED
    BY Zenon, <2>1, <2>2
<1>5. PlaceInv' /\ FrameInv' /\ StepInv' /\ LocksMaskInterrupts' /\ InterruptsRestored'
  BY Zenon, <1>1, <1>2, <1>3, <1>4, LocalStep
<1>6. \A d \in CPU, k \in Lock : (Inside(d, k)' <=> Inside(d, k)) /\ (Mine(d, k)' <=> Mine(d, k))
  BY Zenon, <1>2, <1>3 DEF Ind, TypeOK, SchedOK, Inside, Mine
<1>7. OwnerInv' /\ MutualExclusion'
  BY Zenon, <1>3, <1>6, OwnerFrame
<1> QED
  BY Zenon, <1>1, <1>5, <1>7 DEF Ind

(* acquire's panic would need a lock that the CPU holds already. *)
LEMMA PushcliInd ==
  ASSUME Ind, NEW c \in CPU, NEW x \in Context, pushcli(c, x)
  PROVE  Ind'
<1>1. At(c, x, "cli") /\ ~holding(arg[x], c)
  <2>1. At(c, x, "cli")
    BY Zenon DEF pushcli
  <2>2. /\ running[c] = x /\ pc[x] = "cli" /\ StepAt(c) /\ arg[x] \in Lock
        /\ \A k \in Lock : holding(k, c) <=> Mine(c, k)
    BY Zenon, <2>1, View
  <2> QED
    BY Zenon, <2>1, <2>2 DEF StepAt, Mine
<1>2. /\ IF_' = [IF_ EXCEPT ![c] = FALSE] /\ ncli' = [ncli EXCEPT ![c] = @ + 1]
      /\ intena' = IF ncli[c] = 0 THEN [intena EXCEPT ![c] = eflags[x]] ELSE intena
      /\ eflags' = [eflags EXCEPT ![x] = FALSE] /\ pc' = [pc EXCEPT ![x] = "xchg"]
      /\ UNCHANGED <<lockVars, arg, frames, held, schedVars, panicked>>
  BY Zenon, <1>1 DEF pushcli, Cli
<1>3. TypeOK' /\ NoPanic'
  BY <1>2 DEF Ind, TypeOK, LockOK, CpuOK, PlaceOK, FrameOK, HeldOK, SchedOK, NoPanic, Pcs
<1>4. /\ ~IF_'[c] /\ ncli'[c] = ncli[c] + 1 /\ intena'[c] = (IF ncli[c] = 0 THEN eflags[x] ELSE intena[c])
      /\ pc'[x] = "xchg" /\ running' = running /\ held' = held /\ arg' = arg /\ frames' = frames
      /\ \A d \in CPU : d # c => IF_'[d] = IF_[d] /\ ncli'[d] = ncli[d] /\ intena'[d] = intena[d]
      /\ \A y \in Context : y # x => pc'[y] = pc[y] /\ eflags'[y] = eflags[y]
  BY Zenon, <1>2 DEF Ind, TypeOK, CpuOK, PlaceOK
<1>5. running[c] = x /\ pc[x] = "cli" /\ ncli[c] \in Nat /\ StepAt(c) /\ MaskAt(c) /\ RestoredAt(c)
  BY Zenon, <1>1, View
<1>6. MaskAt(c)' /\ RestoredAt(c)'
  <2>1. HowMany(held[x]) \in Nat
    BY Zenon, <1>1, View, Count
  <2> QED
    BY Zenon, <1>4, <1>5 DEF MaskAt, RestoredAt
<1>7. StepAt(c)'
  <2>1. ncli[c] = 0 => held[x] = {} /\ eflags[x] = IF_[c]
    <3>1. held[x] \in SUBSET Lock
      BY Zenon, <1>1, View
    <3> QED
      BY Zenon, <1>5, <3>1, Count DEF StepAt, MaskAt
  <2>2. (InGate(x)' <=> InGate(x)) /\ Depth(x)' = Depth(x)
    BY Zenon, <1>4 DEF InGate, Depth
  <2>3. (InGate(x) => ~intena'[c]) /\ (Depth(x) = 0 /\ x \in Thread => intena'[c])
    <3>1. ncli[c] # 0 => ncli[c] > 0
      BY <1>5
    <3>2. CASE ncli[c] = 0
      BY Zenon, <1>4, <1>5, <2>1, <3>2 DEF RestoredAt
    <3>3. CASE ncli[c] # 0
      BY Zenon, <1>4, <1>5, <3>1, <3>3 DEF StepAt
    <3> QED
      BY Zenon, <3>2, <3>3
  <2> QED
    BY Zenon, <1>4, <1>5, <2>2, <2>3 DEF StepAt
<1>8. PlaceInv' /\ FrameInv' /\ StepInv' /\ LocksMaskInterrupts' /\ InterruptsRestored'
  BY Zenon, <1>2, <1>3, <1>4, <1>5, <1>6, <1>7, LocalStep
<1>9. \A d \in CPU, k \in Lock : (Inside(d, k)' <=> Inside(d, k)) /\ (Mine(d, k)' <=> Mine(d, k))
  <2>1. \A d \in CPU : running[d] \in Context
    BY Zenon DEF Ind, TypeOK, SchedOK
  <2> QED
    BY Zenon, <1>4, <1>5, <2>1 DEF Inside, Mine
<1>10. OwnerInv' /\ MutualExclusion'
  BY Zenon, <1>2, <1>9, OwnerFrame
<1> QED
  BY Zenon, <1>3, <1>8, <1>10 DEF Ind

(* The lock was free, so nobody was inside. *)
LEMMA XchgInd ==
  ASSUME Ind, NEW c \in CPU, NEW x \in Context, xchg(c, x)
  PROVE  Ind'
<1>1. TypeOK' /\ NoPanic'
  BY Zenon DEF Ind, TypeOK, LockOK, CpuOK, PlaceOK, FrameOK, HeldOK, SchedOK, NoPanic, Pcs, xchg
<1>2. /\ running[c] = x /\ pc[x] = "xchg" /\ arg[x] \in Lock /\ StepAt(c) /\ MaskAt(c) /\ RestoredAt(c)
      /\ \A d \in CPU : d # c => running[d] # x
  BY Zenon, View DEF xchg
<1>3. /\ pc'[x] = "setcpu" /\ \A y \in Context : y # x => pc'[y] = pc[y]
      /\ locked'[arg[x]] /\ \A l \in Lock : l # arg[x] => locked'[l] = locked[l]
      /\ ~locked[arg[x]]
      /\ UNCHANGED <<cpu, IF_, ncli, intena, arg, eflags, frames, held, running, saved, ready, fresh>>
  BY Zenon, <1>2 DEF Ind, TypeOK, LockOK, PlaceOK, xchg, Free
<1>4. StepAt(c)' /\ MaskAt(c)' /\ RestoredAt(c)'
  <2>1. StepAt(c)'
    BY Zenon, <1>2, <1>3 DEF StepAt, InGate, Depth
  <2>2. MaskAt(c)' /\ RestoredAt(c)'
    BY Zenon, <1>2, <1>3 DEF MaskAt, RestoredAt
  <2> QED
    BY Zenon, <2>1, <2>2
<1>5. PlaceInv' /\ FrameInv' /\ StepInv' /\ LocksMaskInterrupts' /\ InterruptsRestored'
  BY Zenon, <1>1, <1>2, <1>3, <1>4, LocalStep
<1>6. \A d \in CPU : ~Inside(d, arg[x])
  BY Zenon, <1>2, <1>3 DEF Ind, OwnerInv
<1>7. \A d \in CPU, l \in Lock :
        /\ Inside(d, l)' <=> Inside(d, l) \/ (d = c /\ l = arg[x])
        /\ Mine(d, l)' <=> Mine(d, l)
  <2>1. \A d \in CPU : running[d] \in Context
    BY Zenon DEF Ind, TypeOK, SchedOK
  <2> QED
    BY ZenonT(30), <1>2, <1>3, <2>1 DEF Inside, Mine
<1>8. OwnerInv'
  <2>1. ASSUME NEW d \in CPU, NEW l \in Lock
        PROVE  (Inside(d, l)' => locked'[l]) /\ (cpu'[l] = d <=> Mine(d, l)')
    <3>1. (Inside(d, l) => locked[l]) /\ (cpu[l] = d <=> Mine(d, l))
      BY Zenon, Owners
    <3>2. locked[l] \/ l = arg[x] => locked'[l]
      BY Zenon, <1>3
    <3>3. cpu' = cpu
      BY Zenon, <1>3
    <3> QED
      BY Zenon, <1>7, <3>1, <3>2, <3>3
  <2> QED
    BY Zenon, <2>1 DEF OwnerInv, Mine
<1>9. MutualExclusion'
  <2>1. \A l \in Lock : \A d, e \in CPU : Inside(d, l) /\ Inside(e, l) => d = e
    BY Zenon DEF Ind, MutualExclusion
  <2>2. ASSUME NEW l \in Lock, NEW d \in CPU, NEW e \in CPU, Inside(d, l)', Inside(e, l)'
        PROVE  d = e
    <3>1. Inside(d, l) \/ (d = c /\ l = arg[x])
      BY Zenon, <1>7, <2>2
    <3>2. Inside(e, l) \/ (e = c /\ l = arg[x])
      BY Zenon, <1>7, <2>2
    <3> QED
      BY Zenon, <1>6, <2>1, <3>1, <3>2
  <2> QED
    BY Zenon, <2>2 DEF MutualExclusion
<1> QED
  BY Zenon, <1>1, <1>5, <1>8, <1>9 DEF Ind

(* acquire ends: the thread goes on with one more lock. *)
LEMMA AcquiredInd ==
  ASSUME Ind, NEW c \in CPU, NEW x \in Context, acquired(c, x)
  PROVE  Ind'
<1>1. TypeOK' /\ NoPanic'
  BY Zenon DEF Ind, TypeOK, LockOK, CpuOK, PlaceOK, FrameOK, HeldOK, SchedOK, NoPanic, Pcs,
     Lock, acquired
<1>2. /\ running[c] = x /\ pc[x] = "setcpu" /\ arg[x] \in Lock /\ held[x] \in SUBSET Lock
      /\ StepAt(c) /\ MaskAt(c) /\ RestoredAt(c) /\ \A d \in CPU : d # c => running[d] # x
  BY Zenon, View DEF acquired
<1>3. /\ pc'[x] = "run" /\ held'[x] = held[x] \cup {arg[x]}
      /\ \A y \in Context : y # x => pc'[y] = pc[y] /\ arg'[y] = arg[y] /\ held'[y] = held[y]
      /\ cpu'[arg[x]] = c /\ \A l \in Lock : l # arg[x] => cpu'[l] = cpu[l]
      /\ UNCHANGED <<locked, IF_, ncli, intena, eflags, frames, running, saved, ready, fresh>>
  BY Zenon, <1>2 DEF Ind, TypeOK, LockOK, PlaceOK, HeldOK, acquired
<1>4. StepAt(c)' /\ MaskAt(c)' /\ RestoredAt(c)'
  <2>1. arg[x] \notin held[x] /\ "ptable" \notin held[x]
    BY Zenon, <1>2 DEF StepAt
  <2>2. x \in CPU /\ frames[x] = <<>> => held'[x] \subseteq {"ptable"}
    BY Zenon, <1>2, <1>3 DEF StepAt
  <2>3. StepAt(c)'
    BY Zenon, <1>2, <1>3, <2>2 DEF StepAt, InGate, Depth
  <2>4. HowMany(held'[x]) = HowMany(held[x]) + 1
    <3>1. HowMany(held[x] \cup {arg[x]}) = HowMany(held[x]) + 1
      BY Zenon, <1>2, <2>1, Count
    <3> QED
      BY Zenon, <1>3, <3>1
  <2>5. MaskAt(c)'
    BY Zenon, <1>2, <1>3, <2>4 DEF MaskAt
  <2>6. RestoredAt(c)'
    BY Zenon, <1>3, <1>2 DEF RestoredAt
  <2> QED
    BY Zenon, <2>3, <2>5, <2>6
<1>5. PlaceInv' /\ FrameInv' /\ StepInv' /\ LocksMaskInterrupts' /\ InterruptsRestored'
  <2>1. \A y \in Context : y # x =>
          pc'[y] = pc[y] /\ arg'[y] = arg[y] /\ eflags'[y] = eflags[y] /\ held'[y] = held[y]
    BY Zenon, <1>3
  <2>2. \A d \in CPU : IF_'[d] = IF_[d] /\ ncli'[d] = ncli[d] /\ intena'[d] = intena[d]
    BY Zenon, <1>3
  <2>3. UNCHANGED <<frames, running, saved, ready, fresh>> /\ running[c] = x
    BY Zenon, <1>2, <1>3
  <2> QED
    BY Zenon, <1>1, <1>4, <2>1, <2>2, <2>3, LocalStep
<1>6. Inside(c, arg[x]) /\ \A d \in CPU : Inside(d, arg[x]) => d = c
  <2>1. Inside(c, arg[x])
    BY Zenon, <1>2 DEF Inside
  <2> QED
    BY Zenon, <1>2, <2>1 DEF Ind, MutualExclusion
<1>7. \A d \in CPU, l \in Lock :
        /\ Inside(d, l)' <=> Inside(d, l)
        /\ Mine(d, l)' <=> Mine(d, l) \/ (d = c /\ l = arg[x])
  <2>1. \A d \in CPU : running[d] \in Context
    BY Zenon DEF Ind, TypeOK, SchedOK
  <2>2. ASSUME NEW d \in CPU, NEW k \in Lock, d # c
        PROVE  (Inside(d, k)' <=> Inside(d, k)) /\ (Mine(d, k)' <=> Mine(d, k))
    <3>1. running[d] \in Context /\ running[d] # x /\ running'[d] = running[d]
      BY Zenon, <1>2, <1>3, <2>1, <2>2
    <3> QED
      BY Zenon, <1>3, <3>1 DEF Inside, Mine
  <2>3. ASSUME NEW k \in Lock
        PROVE  (Inside(c, k)' <=> Inside(c, k)) /\ (Mine(c, k)' <=> Mine(c, k) \/ k = arg[x])
    <3>1. running[c] = x /\ running'[c] = x /\ pc[x] = "setcpu" /\ pc'[x] = "run"
          /\ held'[x] = held[x] \cup {arg[x]}
      BY Zenon, <1>2, <1>3
    <3> QED
      BY Zenon, <3>1 DEF Inside, Mine
  <2> QED
    BY Zenon, <2>2, <2>3
<1>8. OwnerInv'
  <2>1. \A d \in CPU, l \in Lock : cpu'[l] = d <=> cpu[l] = d \/ (d = c /\ l = arg[x])
    <3>1. \A d \in CPU : cpu[arg[x]] = d => Inside(d, arg[x])
      BY Zenon, <1>2, Owners DEF Inside, Mine
    <3> QED
      BY ZenonT(30), <1>2, <1>3, <1>6, <3>1
  <2>2. ASSUME NEW d \in CPU, NEW l \in Lock
        PROVE  (Inside(d, l)' => locked'[l]) /\ (cpu'[l] = d <=> Mine(d, l)')
    <3>1. (Inside(d, l) => locked[l]) /\ (cpu[l] = d <=> Mine(d, l))
      BY Zenon, Owners
    <3>2. /\ Inside(d, l)' <=> Inside(d, l)
          /\ Mine(d, l)' <=> Mine(d, l) \/ (d = c /\ l = arg[x])
      BY Zenon, <1>7
    <3>3. cpu'[l] = d <=> cpu[l] = d \/ (d = c /\ l = arg[x])
      BY Zenon, <2>1
    <3>4. locked' = locked
      BY Zenon, <1>3
    <3> QED
      BY Zenon, <3>1, <3>2, <3>3, <3>4
  <2> QED
    BY Zenon, <2>2 DEF OwnerInv, Mine
<1>9. MutualExclusion'
  BY Zenon, <1>7 DEF Ind, MutualExclusion
<1> QED
  BY Zenon, <1>1, <1>5, <1>8, <1>9 DEF Ind

(* release's panic would need a lock that is not the CPU's. *)
LEMMA ReleaseInd ==
  ASSUME Ind, NEW c \in CPU, NEW x \in Context, NEW l \in Lock, release(c, x, l)
  PROVE  Ind'
<1>1. At(c, x, "run") /\ l \in held[x]
  BY Zenon DEF release
<1>2. /\ running[c] = x /\ pc[x] = "run" /\ StepAt(c) /\ MaskAt(c) /\ RestoredAt(c)
      /\ \A d \in CPU : d # c => running[d] # x
      /\ \A k \in Lock : holding(k, c) <=> Mine(c, k)
  BY Zenon, <1>1, View
<1>3. holding(l, c)
  BY Zenon, <1>1, <1>2 DEF Mine
<1>4. /\ cpu' = [cpu EXCEPT ![l] = NoCPU] /\ arg' = [arg EXCEPT ![x] = l]
      /\ pc' = [pc EXCEPT ![x] = "unlock"]
      /\ UNCHANGED <<locked, cpuVars, eflags, frames, held, schedVars, panicked>>
  BY Zenon, <1>3 DEF release, NoOwner
<1>5. TypeOK' /\ NoPanic'
  BY Zenon, <1>4 DEF Ind, TypeOK, LockOK, CpuOK, PlaceOK, FrameOK, HeldOK, SchedOK, NoPanic, Pcs
<1>6. /\ pc'[x] = "unlock" /\ arg'[x] = l /\ \A y \in Context : y # x => pc'[y] = pc[y] /\ arg'[y] = arg[y]
      /\ UNCHANGED <<locked, IF_, ncli, intena, eflags, frames, held, running, saved, ready, fresh>>
  BY Zenon, <1>4 DEF Ind, TypeOK, PlaceOK
<1>7. StepAt(c)' /\ MaskAt(c)' /\ RestoredAt(c)'
  <2>1. StepAt(c)'
    BY Zenon, <1>1, <1>2, <1>6 DEF StepAt, InGate, Depth
  <2>2. MaskAt(c)' /\ RestoredAt(c)'
    BY Zenon, <1>2, <1>6 DEF MaskAt, RestoredAt
  <2> QED
    BY Zenon, <2>1, <2>2
<1>8. PlaceInv' /\ FrameInv' /\ StepInv' /\ LocksMaskInterrupts' /\ InterruptsRestored'
  BY Zenon, <1>2, <1>5, <1>6, <1>7, LocalStep
<1>9. \A d \in CPU, k \in Lock :
        /\ Inside(d, k)' <=> Inside(d, k)
        /\ Mine(d, k)' <=> Mine(d, k) /\ ~(d = c /\ k = l)
  <2>1. \A d \in CPU : running[d] \in Context
    BY Zenon DEF Ind, TypeOK, SchedOK
  <2> QED
    BY Zenon, <1>2, <1>6, <2>1 DEF Inside, Mine
<1>10. OwnerInv'
  <2>1. \A d \in CPU, k \in Lock : cpu'[k] = d <=> cpu[k] = d /\ ~(d = c /\ k = l)
    BY Zenon, <1>3, <1>4, SpinAssumption DEF Ind, TypeOK, LockOK, holding
  <2> QED
    <3>1. ASSUME NEW d \in CPU, NEW k \in Lock
          PROVE  (Inside(d, k)' => locked'[k]) /\ (cpu'[k] = d <=> Mine(d, k)')
      <4>1. (Inside(d, k) => locked[k]) /\ (cpu[k] = d <=> Mine(d, k))
        BY Zenon, Owners
      <4> QED
        BY ZenonT(30), <1>6, <1>9, <2>1, <4>1
    <3> QED
      BY Zenon, <3>1 DEF OwnerInv, Mine
<1>11. MutualExclusion'
  BY Zenon, <1>9 DEF Ind, MutualExclusion
<1> QED
  BY Zenon, <1>5, <1>8, <1>10, <1>11 DEF Ind

(* popcli's panics would need a CPU that counts no lock; the last pop      *)
(* restores what the first push saw.                                       *)
LEMMA PopcliInd ==
  ASSUME Ind, NEW c \in CPU, NEW x \in Context, popcli(c, x)
  PROVE  Ind'
<1>1. /\ At(c, x, "unlock") /\ running[c] = x /\ pc[x] = "unlock" /\ arg[x] \in held[x]
      /\ held[x] \in SUBSET Lock /\ arg[x] \in Lock
      /\ StepAt(c) /\ MaskAt(c) /\ RestoredAt(c) /\ \A d \in CPU : d # c => running[d] # x
  <2>1. At(c, x, "unlock")
    BY Zenon DEF popcli
  <2>2. /\ running[c] = x /\ pc[x] = "unlock" /\ held[x] \in SUBSET Lock /\ arg[x] \in Lock
        /\ StepAt(c) /\ MaskAt(c) /\ RestoredAt(c) /\ \A d \in CPU : d # c => running[d] # x
    BY Zenon, <2>1, View
  <2>3. arg[x] \in held[x]
    BY Zenon, <2>2 DEF StepAt
  <2> QED
    BY Zenon, <2>1, <2>2, <2>3
<1>2. /\ ncli[c] \in Nat /\ ncli[c] = HowMany(held[x]) /\ ncli[c] > 0 /\ ~IF_[c]
      /\ HowMany(held[x] \ {arg[x]}) = ncli[c] - 1
      /\ ncli[c] = 1 <=> held[x] \ {arg[x]} = {}
  <2>1. /\ ncli[c] = HowMany(held[x]) /\ HowMany(held[x]) \in Nat /\ HowMany(held[x]) # 0
    BY Zenon, <1>1, Count DEF MaskAt
  <2>2. /\ HowMany(held[x] \ {arg[x]}) = HowMany(held[x]) - 1
        /\ HowMany(held[x] \ {arg[x]}) = 0 <=> held[x] \ {arg[x]} = {}
    BY Zenon, <1>1, Count
  <2> QED
    BY <1>1, <2>1, <2>2 DEF MaskAt
<1>3. /\ locked' = [locked EXCEPT ![arg[x]] = FALSE] /\ ncli' = [ncli EXCEPT ![c] = ncli[c] - 1]
      /\ IF_' = IF ncli[c] = 1 /\ intena[c] THEN [IF_ EXCEPT ![c] = TRUE] ELSE IF_
      /\ held' = [held EXCEPT ![x] = held[x] \ {arg[x]}]
      /\ pc' = [pc EXCEPT ![x] = IF x \in CPU /\ frames[x] = <<>> THEN "sti" ELSE "run"]
      /\ arg' = [arg EXCEPT ![x] = "ptable"]
      /\ UNCHANGED <<cpu, intena, eflags, frames, schedVars, panicked>>
  <2>1. ~(IF_[c] \/ ncli[c] = 0)
    BY <1>2
  <2> QED
    BY Zenon, <2>1 DEF popcli, Unlock, PopOne, LastPop
<1>4. TypeOK' /\ NoPanic'
  <2>1. ncli' \in [CPU -> Nat] /\ held' \in [Context -> SUBSET Lock]
    BY <1>2, <1>3 DEF Ind, TypeOK, CpuOK, HeldOK
  <2>2. IF_' \in [CPU -> BOOLEAN] /\ locked' \in [Lock -> BOOLEAN]
    BY Zenon, <1>3 DEF Ind, TypeOK, LockOK, CpuOK
  <2>3. pc' \in [Context -> Pcs] /\ arg' \in [Context -> Lock]
    BY Zenon, <1>3 DEF Ind, TypeOK, PlaceOK, Pcs, Lock
  <2> QED
    BY Zenon, <1>3, <2>1, <2>3 DEF Ind, TypeOK, LockOK, CpuOK, PlaceOK, FrameOK, HeldOK,
       SchedOK, NoPanic
<1>5. /\ ncli'[c] = ncli[c] - 1 /\ (IF_'[c] <=> ncli[c] = 1 /\ intena[c])
      /\ held'[x] = held[x] \ {arg[x]} /\ pc'[x] = IF x \in CPU /\ frames[x] = <<>> THEN "sti" ELSE "run"
      /\ running'[c] = x /\ frames' = frames /\ intena'[c] = intena[c]
      /\ \A d \in CPU : d # c => IF_'[d] = IF_[d] /\ ncli'[d] = ncli[d] /\ intena'[d] = intena[d]
      /\ \A y \in Context : y # x =>
           pc'[y] = pc[y] /\ arg'[y] = arg[y] /\ eflags'[y] = eflags[y] /\ held'[y] = held[y]
  BY Zenon, <1>1, <1>2, <1>3 DEF Ind, TypeOK, CpuOK, PlaceOK, HeldOK
<1>6. MaskAt(c)'
  <2>1. pc'[x] \notin {"xchg", "setcpu"}
    BY Zenon, <1>5
  <2>2. HowMany(held'[x]) = ncli'[c]
    BY Zenon, <1>2, <1>5
  <2>3. ncli'[c] > 0 => ~IF_'[c]
    BY <1>5
  <2> QED
    BY Zenon, <1>2, <1>5, <2>3 DEF MaskAt
<1>7. Depth(x) = 0 => frames[x] = <<>>
  BY DEF Depth
<1>8. x \in CPU => x = c
  BY Zenon, <1>1 DEF Ind, PlaceInv
<1>9. StepAt(c)' /\ RestoredAt(c)'
  <2>1. (InGate(x) => ~intena[c]) /\ (Depth(x) = 0 /\ x \in Thread => intena[c])
    BY Zenon, <1>1, <1>2 DEF StepAt
  <2>2. pc'[x] = "sti" => x = c /\ frames[x] = <<>> /\ held'[x] = {}
    <3>1. pc'[x] = "sti" => x \in CPU /\ frames[x] = <<>>
      BY Zenon, <1>5
    <3>2. x \in CPU /\ frames[x] = <<>> => held[x] \subseteq {"ptable"}
      BY Zenon, <1>1 DEF StepAt
    <3>3. held[x] \subseteq {"ptable"} => held'[x] = {}
      BY ZenonT(30), <1>1, <1>5
    <3> QED
      BY Zenon, <1>8, <3>1, <3>2, <3>3
  <2>3. (InGate(x)' <=> InGate(x)) /\ Depth(x)' = Depth(x)
    BY Zenon, <1>5 DEF InGate, Depth
  <2>4. StepAt(c)'
    BY Zenon, <1>5, <2>1, <2>2, <2>3 DEF StepAt
  <2>5. RestoredAt(c)'
    BY Zenon, <1>2, <1>5, <1>7, <2>1, <2>3 DEF RestoredAt, Context
  <2> QED
    BY Zenon, <2>4, <2>5
<1>10. PlaceInv' /\ FrameInv' /\ StepInv' /\ LocksMaskInterrupts' /\ InterruptsRestored'
  BY ZenonT(30), <1>3, <1>4, <1>5, <1>6, <1>9, LocalStep
<1>11. Inside(c, arg[x]) /\ \A d \in CPU : Inside(d, arg[x]) => d = c
  BY Zenon, <1>1 DEF Ind, Inside, MutualExclusion
<1>12. \A d \in CPU, k \in Lock :
        /\ Inside(d, k)' <=> Inside(d, k) /\ ~(d = c /\ k = arg[x])
        /\ Mine(d, k)' <=> Mine(d, k)
  <2>1. \A d \in CPU : running[d] \in Context
    BY Zenon DEF Ind, TypeOK, SchedOK
  <2>2. running' = running
    BY Zenon, <1>3
  <2>3. \A d \in CPU : d # c => running[d] \in Context /\ running[d] # x
    BY Zenon, <1>1, <2>1
  <2>4. ASSUME NEW d \in CPU, NEW k \in Lock, d # c
        PROVE  (Inside(d, k)' <=> Inside(d, k)) /\ (Mine(d, k)' <=> Mine(d, k))
    BY ZenonT(30), <1>5, <2>2, <2>3, <2>4 DEF Inside, Mine
  <2>5. ASSUME NEW k \in Lock
        PROVE  /\ Inside(c, k)' <=> Inside(c, k) /\ k # arg[x]
               /\ Mine(c, k)' <=> Mine(c, k)
    <3>1. pc'[x] \notin {"setcpu", "unlock"} /\ pc[x] = "unlock" /\ held'[x] = held[x] \ {arg[x]}
      BY Zenon, <1>1, <1>5
    <3> QED
      BY Zenon, <1>1, <2>2, <3>1 DEF Inside, Mine
  <2> QED
    BY Zenon, <2>4, <2>5
<1>13. OwnerInv'
  <2>1. cpu' = cpu /\ \A k \in Lock : k # arg[x] => locked'[k] = locked[k]
    BY Zenon, <1>1, <1>3 DEF Ind, TypeOK, LockOK
  <2>2. \A d \in CPU, k \in Lock : Inside(d, k)' => k # arg[x] /\ Inside(d, k)
    BY Zenon, <1>11, <1>12
  <2> QED
    <3>1. ASSUME NEW d \in CPU, NEW k \in Lock
          PROVE  (Inside(d, k)' => locked'[k]) /\ (cpu'[k] = d <=> Mine(d, k)')
      <4>1. (Inside(d, k) => locked[k]) /\ (cpu[k] = d <=> Mine(d, k))
        BY Zenon, Owners
      <4> QED
        BY Zenon, <1>12, <2>1, <2>2, <4>1
    <3> QED
      BY Zenon, <3>1 DEF OwnerInv, Mine
<1>14. MutualExclusion'
  BY Zenon, <1>12 DEF Ind, MutualExclusion
<1> QED
  BY Zenon, <1>4, <1>10, <1>13, <1>14 DEF Ind

(* The sti of the scheduler. *)
LEMMA StiInd ==
  ASSUME Ind, NEW c \in CPU, sti(c)
  PROVE  Ind'
<1>1. c \in Context /\ At(c, c, "sti") /\ c \notin Thread
  BY Zenon, SpinAssumption DEF Context, sti
<1>2. /\ running[c] = c /\ pc[c] = "sti" /\ frames[c] = <<>> /\ held[c] = {}
      /\ StepAt(c) /\ MaskAt(c) /\ ncli[c] \in Nat
  <2>1. running[c] = c /\ pc[c] = "sti" /\ StepAt(c) /\ MaskAt(c) /\ ncli[c] \in Nat
    BY Zenon, <1>1, View
  <2> QED
    BY Zenon, <2>1 DEF StepAt
<1>3. TypeOK' /\ NoPanic'
  BY Zenon DEF Ind, TypeOK, LockOK, CpuOK, PlaceOK, FrameOK, HeldOK, SchedOK, NoPanic, Pcs, sti
<1>4. /\ running'[c] = c /\ pc'[c] = "run" /\ IF_'[c] /\ ncli'[c] = 0 /\ ncli[c] = 0
      /\ held'[c] = {} /\ frames'[c] = <<>>
  <2>1. ncli[c] = 0
    BY Zenon, <1>2, Count DEF MaskAt
  <2> QED
    BY Zenon, <1>1, <1>2, <2>1 DEF Ind, TypeOK, CpuOK, PlaceOK, sti
<1>5. StepAt(c)' /\ MaskAt(c)' /\ RestoredAt(c)'
  <2>1. MaskAt(c)'
    BY <1>4, Count DEF MaskAt
  <2>2. StepAt(c)'
    <3>1. ~(ncli'[c] > 0)
      BY Zenon, Balanced, <1>4
    <3> QED
      BY Zenon, <1>4, <3>1 DEF StepAt
  <2>3. RestoredAt(c)'
    BY <1>4 DEF RestoredAt, InGate, Depth
  <2> QED
    BY Zenon, <2>1, <2>2, <2>3
<1>6. PlaceInv' /\ FrameInv' /\ StepInv' /\ LocksMaskInterrupts' /\ InterruptsRestored'
  BY Zenon, <1>1, <1>2, <1>3, <1>5, LocalStep DEF TypeOK, CpuOK, PlaceOK, sti
<1>7. OwnerInv' /\ MutualExclusion'
  BY <1>1, View, OwnerFrame DEF Inside, Mine, sti
<1> QED
  BY Zenon, <1>3, <1>6, <1>7 DEF Ind

-----------------------------------------------------------------------------
(* An interrupt finds no lock held or waited for, and not another one's    *)
(* handler.                                                                *)
LEMMA InterruptInd ==
  ASSUME Ind, NEW c \in CPU, interrupt(c)
  PROVE  Ind'
<1> DEFINE x == running[c]
           f == [gate |-> TRUE, pc |-> pc[x], arg |-> arg[x], eflags |-> eflags[x]]
           n == Depth(x)
<1>1. x \in Context /\ pc[x] \in Pcs /\ f \in Frame /\ frames[x] \in Seq(Frame) /\ n \in Nat
  <2>1. x \in Context
    BY Zenon DEF Ind, TypeOK, SchedOK
  <2> HIDE DEF x
  <2>2. pc[x] \in Pcs /\ arg[x] \in Lock /\ eflags[x] \in BOOLEAN /\ frames[x] \in Seq(Frame)
    BY Zenon, <2>1 DEF Ind, TypeOK, PlaceOK, FrameOK
  <2> QED
    BY <2>1, <2>2 DEF Frame, Depth
<1>2. At(c, x, pc[x])
  BY Zenon DEF At, interrupt
<1>3. /\ StepAt(c) /\ MaskAt(c) /\ RestoredAt(c) /\ held[x] \in SUBSET Lock /\ ncli[c] \in Nat
      /\ \A d \in CPU : d # c => running[d] # x
  BY Zenon, <1>1, <1>2, View
<1>4. ncli[c] = 0 /\ held[x] = {} /\ pc[x] \in {"run", "cli", "sti"}
  <2>1. ncli[c] = 0
    BY <1>3 DEF MaskAt, interrupt
  <2>2. HowMany(held[x]) \in Nat /\ (HowMany(held[x]) = 0 <=> held[x] = {})
    BY Zenon, <1>3, Count
  <2>3. held[x] = {} /\ pc[x] \notin {"xchg", "setcpu"}
    BY <1>3, <2>1, <2>2 DEF MaskAt
  <2> QED
    BY Zenon, <1>1, <1>3, <2>1, <2>3 DEF StepAt, Pcs
<1>5. ~InGate(x) /\ (pc[x] = "cli" => eflags[x]) /\ (pc[x] = "sti" => x = c /\ n = 0)
  <2>1. (pc[x] = "cli" => eflags[x]) /\ (pc[x] = "sti" => x = c /\ frames[x] = <<>>)
    BY Zenon, <1>3 DEF StepAt, interrupt
  <2>2. frames[x] = <<>> => n = 0 /\ ~InGate(x)
    BY DEF InGate, Depth
  <2>3. pc[x] \in {"run", "cli"} => ~InGate(x)
    BY Zenon, <1>3, <1>4 DEF RestoredAt, interrupt
  <2> QED
    BY Zenon, <1>4, <2>1, <2>2, <2>3
<1>6. /\ frames'[x] = Append(frames[x], f) /\ \A y \in Context : y # x => frames'[y] = frames[y]
      /\ Len(frames'[x]) = n + 1 /\ frames'[x][n + 1] = f
      /\ \A i \in 1 .. n : frames'[x][i] = frames[x][i]
  <2>1. frames'[x] = Append(frames[x], f) /\ \A y \in Context : y # x => frames'[y] = frames[y]
    BY Zenon, <1>1 DEF Ind, TypeOK, FrameOK, interrupt
  <2>2. n = Len(frames[x])
    BY Zenon DEF Depth
  <2>3. ASSUME NEW s \in Seq(Frame), NEW g \in Frame
        PROVE  /\ Len(Append(s, g)) = Len(s) + 1 /\ Append(s, g)[Len(s) + 1] = g
               /\ \A i \in 1 .. Len(s) : Append(s, g)[i] = s[i]
    OBVIOUS
  <2> HIDE DEF x, f, n
  <2>4. /\ Len(Append(frames[x], f)) = n + 1 /\ Append(frames[x], f)[n + 1] = f
        /\ \A i \in 1 .. n : Append(frames[x], f)[i] = frames[x][i]
    <3>1. /\ Len(Append(frames[x], f)) = Len(frames[x]) + 1 /\ Append(frames[x], f)[Len(frames[x]) + 1] = f
          /\ \A i \in 1 .. Len(frames[x]) : Append(frames[x], f)[i] = frames[x][i]
      BY Zenon, <1>1, <2>3
    <3> QED
      BY Zenon, <2>2, <3>1
  <2> QED
    BY Zenon, <2>1, <2>4
<1>7. /\ pc'[x] = "run" /\ \A y \in Context : y # x => pc'[y] = pc[y]
      /\ ~IF_'[c] /\ \A d \in CPU : d # c => IF_'[d] = IF_[d]
      /\ UNCHANGED <<locked, cpu, ncli, intena, arg, eflags, held, running, saved, ready, fresh, panicked>>
  BY Zenon, <1>1 DEF Ind, TypeOK, CpuOK, PlaceOK, interrupt
<1> HIDE DEF x, f, n
<1>8. TypeOK' /\ NoPanic'
  <2>1. frames' \in [Context -> Seq(Frame)]
    BY <1>1 DEF Ind, TypeOK, FrameOK, x, f, interrupt
  <2> QED
    BY Zenon, <2>1 DEF Ind, TypeOK, LockOK, CpuOK, PlaceOK, FrameOK, HeldOK, SchedOK, NoPanic,
       Pcs, interrupt
<1>9. FrameInv'
  <2>1. \A y \in Context : \A i \in 1 .. Depth(y) : FrameAt(y, i, frames[y][i], frames[y][i - 1])
    BY Zenon DEF Ind, FrameInv, FrameAt
  <2>2. ASSUME NEW y \in Context, NEW i \in 1 .. Depth(y)', y # x
        PROVE  FrameAt(y, i, frames'[y][i], frames'[y][i - 1])
    <3>1. frames'[y] = frames[y]
      BY Zenon, <1>6, <2>2
    <3>2. i \in 1 .. Depth(y)
      BY Zenon, <3>1 DEF Depth
    <3> QED
      BY Zenon, <2>1, <3>1, <3>2
  <2>3. ASSUME NEW i \in 1 .. n
        PROVE  FrameAt(x, i, frames'[x][i], frames'[x][i - 1])
    <3>1. i = 1 \/ i - 1 \in 1 .. n
      BY <1>1
    <3>2. FrameAt(x, i, frames[x][i], frames[x][i - 1])
      BY Zenon, <1>1, <2>1 DEF n
    <3>3. frames'[x][i] = frames[x][i] /\ (i - 1 \in 1 .. n => frames'[x][i - 1] = frames[x][i - 1])
      BY Zenon, <1>6
    <3> QED
      BY Zenon, <3>1, <3>2, <3>3, LowestFrame
  <2>4. FrameAt(x, n + 1, frames'[x][n + 1], frames'[x][n])
    <3>1. n + 1 > 1 => ~frames'[x][n].gate
      <4>1. n + 1 > 1 => n > 0 /\ n \in 1 .. n
        BY <1>1
      <4> QED
        BY Zenon, <1>5, <1>6, <4>1 DEF InGate, n
    <3>2. x \in CPU => n = 0 /\ x = c
      <4>1. x \in CPU => x = c /\ x \notin Thread
        BY Zenon, SpinAssumption DEF Ind, PlaceInv, x
      <4>2. n = 0 \/ (n > 0 /\ n \in 1 .. n)
        BY <1>1
      <4>3. n > 0 /\ n \in 1 .. n => ~frames[x][n].gate /\ FrameAt(x, n, frames[x][n], frames[x][n - 1])
        BY Zenon, <1>1, <1>5, <2>1 DEF InGate, n
      <4> QED
        BY Zenon, <4>1, <4>2, <4>3 DEF FrameAt
    <3>3. pc[x] = "cli" /\ x \in CPU => arg[x] = "ptable"
      <4>1. n = 0 => frames[x] = <<>>
        BY <1>1 DEF Depth, n
      <4> QED
        BY Zenon, <1>3, <3>2, <4>1 DEF StepAt, x
    <3>4. f.gate /\ f.pc = pc[x] /\ f.arg = arg[x] /\ f.eflags = eflags[x]
      BY Zenon DEF f
    <3>5. pc[x] = "sti" => x \in CPU /\ n + 1 = 1
      BY <1>5
    <3> QED
      BY Zenon, <1>4, <1>5, <1>6, <3>1, <3>3, <3>4, <3>5 DEF FrameAt
  <2>5. ASSUME NEW y \in Context, NEW i \in 1 .. Depth(y)', y = x
        PROVE  i \in 1 .. n \/ (i = n + 1 /\ i - 1 = n)
    <3>1. i \in 1 .. n + 1
      BY Zenon, <1>6, <2>5 DEF Depth
    <3> QED
      BY <1>1, <3>1
  <2>6. \A y \in Context : \A i \in 1 .. Depth(y)' : FrameAt(y, i, frames'[y][i], frames'[y][i - 1])
    BY Zenon, <2>2, <2>3, <2>4, <2>5
  <2> QED
    BY Zenon, <2>6 DEF FrameInv, FrameAt
<1>10. PlaceInv'
  BY Zenon, <1>6, <1>7, PlaceFrame DEF x
<1>11. StepAt(c)' /\ MaskAt(c)' /\ RestoredAt(c)'
  <2>1. running'[c] = x /\ held'[x] = {} /\ ncli'[c] = 0 /\ frames'[x] # <<>> /\ Len(frames'[x]) > 0
    <3>1. running'[c] = x /\ held'[x] = {} /\ ncli'[c] = 0
      BY Zenon, <1>4, <1>7 DEF x
    <3>2. Len(frames'[x]) > 0
      BY <1>1, <1>6
    <3>3. frames'[x] # <<>>
      BY <3>2
    <3> QED
      BY Zenon, <3>1, <3>2, <3>3
  <2>2. MaskAt(c)'
    BY Zenon, <1>7, <2>1, Count DEF MaskAt
  <2>3. StepAt(c)'
    <3>1. ~(ncli'[c] > 0)
      BY Zenon, Balanced, <2>1
    <3> QED
      BY Zenon, <1>7, <2>1, <3>1 DEF StepAt
  <2>4. RestoredAt(c)'
    BY <1>7, <2>1 DEF RestoredAt, Depth
  <2> QED
    BY Zenon, <2>2, <2>3, <2>4
<1>12. StepInv' /\ LocksMaskInterrupts' /\ InterruptsRestored'
  BY Zenon, <1>6, <1>7, <1>8, <1>10, <1>11, OtherCpus DEF x
<1>13. OwnerInv' /\ MutualExclusion'
  <2>1. \A d \in CPU, l \in Lock : (Inside(d, l)' <=> Inside(d, l)) /\ (Mine(d, l)' <=> Mine(d, l))
    <3>1. pc[x] # "setcpu" /\ held[x] = {}
      BY Zenon, <1>4
    <3>2. running'[c] = x /\ running[c] = x
      BY Zenon, <1>7 DEF x
    <3>3. \A d \in CPU : d # c => running[d] \in Context /\ running[d] # x
      BY Zenon, <1>3 DEF Ind, TypeOK, SchedOK
    <3>4. ASSUME NEW d \in CPU, NEW l \in Lock, d # c
          PROVE  (Inside(d, l)' <=> Inside(d, l)) /\ (Mine(d, l)' <=> Mine(d, l))
      BY Zenon, <1>7, <3>3, <3>4 DEF Inside, Mine
    <3>5. ASSUME NEW l \in Lock
          PROVE  (Inside(c, l)' <=> Inside(c, l)) /\ (Mine(c, l)' <=> Mine(c, l))
      <4>1. pc'[x] = "run" /\ held'[x] = {}
        BY Zenon, <1>7, <3>1
      <4> QED
        BY Zenon, <3>1, <3>2, <4>1 DEF Inside, Mine
    <3> QED
      BY Zenon, <3>4, <3>5
  <2> QED
    BY Zenon, <1>7, <2>1, OwnerFrame
<1> QED
  BY Zenon, <1>8, <1>9, <1>10, <1>12, <1>13 DEF Ind

(* The iret goes back to where interrupts were on and no lock was held. *)
LEMMA TrapretInd ==
  ASSUME Ind, NEW c \in CPU, NEW x \in Context, trapret(c, x)
  PROVE  Ind'
<1> DEFINE n == Depth(x)
           f == frames[x][n]
<1>1. /\ At(c, x, "run") /\ running[c] = x /\ pc[x] = "run" /\ held[x] = {} /\ MaskAt(c)
      /\ \A d \in CPU : d # c => running[d] # x
  <2>1. At(c, x, "run")
    BY Zenon DEF trapret
  <2> QED
    BY Zenon, View DEF trapret
<1>2. /\ frames[x] \in Seq(Frame) /\ n \in Nat /\ n > 0 /\ f \in Frame
      /\ frames' = [frames EXCEPT ![x] = SubSeq(frames[x], 1, n - 1)]
  <2>1. frames[x] \in Seq(Frame) /\ frames[x] # <<>>
    BY Zenon DEF Ind, TypeOK, FrameOK, trapret
  <2>2. n \in Nat /\ n > 0
    BY <2>1 DEF Depth
  <2>3. f \in Frame
    <3>1. ASSUME NEW s \in Seq(Frame), Len(s) > 0
          PROVE  s[Len(s)] \in Frame
      BY <3>1
    <3> QED
      BY Zenon, <2>1, <2>2, <3>1 DEF Depth
  <2>4. frames' = [frames EXCEPT ![x] = SubSeq(frames[x], 1, n - 1)]
    BY Zenon DEF Depth, trapret
  <2> QED
    BY Zenon, <2>1, <2>2, <2>3, <2>4
<1>3. /\ f.pc \in {"run", "cli", "sti"} /\ (f.pc = "cli" => f.eflags /\ (x \in CPU => f.arg = "ptable"))
      /\ f.pc = "sti" => x \in CPU /\ n = 1
      /\ n > 1 => ~frames[x][n - 1].gate
  <2>1. n \in 1 .. Depth(x) /\ ~(n > 1 /\ n = 1)
    BY <1>2
  <2> HIDE DEF n
  <2>2. /\ f.pc \in {"run", "cli", "sti"} /\ (f.pc = "cli" => f.eflags /\ (x \in CPU => f.arg = "ptable"))
        /\ f.pc = "sti" => x \in CPU /\ n = 1
        /\ IF f.gate THEN n > 1 => ~frames[x][n - 1].gate ELSE n = 1
    BY Zenon, <2>1 DEF Ind, FrameInv, trapret
  <2> QED
    BY Zenon, <2>1, <2>2
<1>4. /\ Len(frames'[x]) = n - 1 /\ \A i \in 1 .. n - 1 : frames'[x][i] = frames[x][i]
      /\ frames'[x] \in Seq(Frame) /\ (n = 1 => frames'[x] = <<>>)
      /\ \A y \in Context : y # x => frames'[y] = frames[y]
  <2>1. frames'[x] = SubSeq(frames[x], 1, n - 1) /\ \A y \in Context : y # x => frames'[y] = frames[y]
    BY Zenon, <1>2 DEF Ind, TypeOK, FrameOK
  <2>2. ASSUME NEW s \in Seq(Frame), Len(s) = n
        PROVE  /\ Len(SubSeq(s, 1, n - 1)) = n - 1 /\ SubSeq(s, 1, n - 1) \in Seq(Frame)
               /\ \A i \in 1 .. n - 1 : SubSeq(s, 1, n - 1)[i] = s[i]
               /\ n = 1 => SubSeq(s, 1, n - 1) = <<>>
    <3> HIDE DEF n
    <3> QED
      BY <1>2, <2>2
  <2>3. Len(frames[x]) = n
    BY Zenon DEF Depth
  <2> QED
    BY ZenonT(30), <1>2, <2>1, <2>2, <2>3
<1>5. /\ pc'[x] = f.pc /\ arg'[x] = f.arg /\ eflags'[x] = f.eflags
      /\ \A y \in Context : y # x => pc'[y] = pc[y] /\ arg'[y] = arg[y] /\ eflags'[y] = eflags[y]
      /\ IF_'[c] /\ \A d \in CPU : d # c => IF_'[d] = IF_[d]
      /\ UNCHANGED <<locked, cpu, ncli, intena, held, running, saved, ready, fresh, panicked>>
  BY Zenon DEF Ind, TypeOK, CpuOK, PlaceOK, Depth, trapret
<1>6. TypeOK' /\ NoPanic'
  <2>1. f.pc \in Pcs /\ f.arg \in Lock /\ f.eflags \in BOOLEAN
    BY Zenon, <1>2 DEF Frame
  <2>2. frames' \in [Context -> Seq(Frame)]
    BY Zenon, <1>2, <1>4 DEF Ind, TypeOK, FrameOK
  <2>3. pc' \in [Context -> Pcs] /\ arg' \in [Context -> Lock] /\ eflags' \in [Context -> BOOLEAN]
    BY Zenon, <2>1 DEF Ind, TypeOK, PlaceOK, Depth, trapret
  <2>4. IF_' \in [CPU -> BOOLEAN]
    BY Zenon DEF Ind, TypeOK, CpuOK, trapret
  <2> QED
    BY Zenon, <1>5, <2>2, <2>3, <2>4 DEF Ind, TypeOK, LockOK, CpuOK, PlaceOK, FrameOK, HeldOK,
       SchedOK, NoPanic
<1> HIDE DEF n, f
<1>7. FrameInv'
  <2>1. \A y \in Context : \A i \in 1 .. Depth(y) : FrameAt(y, i, frames[y][i], frames[y][i - 1])
    BY Zenon DEF Ind, FrameInv, FrameAt
  <2>2. ASSUME NEW y \in Context, NEW i \in 1 .. Depth(y)', y # x
        PROVE  FrameAt(y, i, frames'[y][i], frames'[y][i - 1])
    <3>1. frames'[y] = frames[y]
      BY Zenon, <1>4, <2>2
    <3>2. i \in 1 .. Depth(y)
      BY Zenon, <3>1 DEF Depth
    <3> QED
      BY Zenon, <2>1, <3>1, <3>2
  <2>3. ASSUME NEW i \in 1 .. Depth(x)'
        PROVE  FrameAt(x, i, frames'[x][i], frames'[x][i - 1])
    <3>1. i \in 1 .. n - 1
      BY Zenon, <1>4 DEF Depth
    <3>2. i \in 1 .. n /\ (i = 1 \/ i - 1 \in 1 .. n - 1)
      BY <1>2, <3>1
    <3>3. FrameAt(x, i, frames[x][i], frames[x][i - 1])
      BY Zenon, <2>1, <3>2 DEF n
    <3>4. frames'[x][i] = frames[x][i] /\ (i - 1 \in 1 .. n - 1 => frames'[x][i - 1] = frames[x][i - 1])
      BY Zenon, <1>4, <3>1
    <3> QED
      BY Zenon, <3>2, <3>3, <3>4, LowestFrame
  <2>4. \A y \in Context : \A i \in 1 .. Depth(y)' : FrameAt(y, i, frames'[y][i], frames'[y][i - 1])
    BY Zenon, <2>2, <2>3
  <2> QED
    BY Zenon, <2>4 DEF FrameInv, FrameAt
<1>8. PlaceInv'
  <2>1. \A y \in Context : y # x => pc'[y] = pc[y] /\ held'[y] = held[y] /\ frames'[y] = frames[y]
    BY Zenon, <1>4, <1>5
  <2>2. running[c] = x /\ UNCHANGED <<running, saved, ready, fresh>>
    BY Zenon, <1>1, <1>5
  <2> QED
    BY Zenon, <2>1, <2>2, PlaceFrame
<1>9. ncli[c] = 0
  BY Zenon, <1>1, Count DEF MaskAt
<1>10. running'[c] = x /\ held'[x] = {} /\ ncli'[c] = 0
  BY Zenon, <1>1, <1>5, <1>9
<1>11. MaskAt(c)'
  <2>1. pc'[x] \notin {"xchg", "setcpu"} /\ ~(ncli'[c] > 0)
    BY Zenon, Balanced, <1>3, <1>5, <1>10
  <2> QED
    BY Zenon, <1>10, <2>1, Count DEF MaskAt
<1>12. StepAt(c)'
  <2>1. x \in CPU => x = c
    BY Zenon, <1>1, SpinAssumption DEF Ind, PlaceInv
  <2>2. ~(ncli'[c] > 0)
    BY Zenon, Balanced, <1>10
  <2> QED
    BY Zenon, <1>3, <1>4, <1>5, <1>10, <2>1, <2>2 DEF StepAt
<1>13. RestoredAt(c)'
  <2>1. ~InGate(x)'
    <3>1. Len(frames'[x]) > 0 => n > 1 /\ n - 1 \in 1 .. n - 1
      BY <1>2, <1>4
    <3>2. Len(frames'[x]) > 0 => ~frames'[x][n - 1].gate
      BY Zenon, <1>3, <1>4, <3>1
    <3>3. Len(frames'[x]) = n - 1
      BY Zenon, <1>4
    <3> QED
      BY Zenon, <3>2, <3>3 DEF InGate, Depth
  <2> QED
    BY Zenon, <1>5, <1>10, <2>1 DEF RestoredAt
<1>14. StepInv' /\ LocksMaskInterrupts' /\ InterruptsRestored'
  <2>1. \A y \in Context : y \notin {running[c], running'[c]} =>
          /\ pc'[y] = pc[y] /\ arg'[y] = arg[y] /\ eflags'[y] = eflags[y]
          /\ frames'[y] = frames[y] /\ held'[y] = held[y]
    BY Zenon, <1>1, <1>4, <1>5
  <2>2. \A d \in CPU : d # c =>
          /\ running'[d] = running[d] /\ IF_'[d] = IF_[d] /\ ncli'[d] = ncli[d] /\ intena'[d] = intena[d]
    BY Zenon, <1>5
  <2> QED
    BY Zenon, <1>6, <1>8, <1>11, <1>12, <1>13, <2>1, <2>2, OtherCpus
<1>15. OwnerInv' /\ MutualExclusion'
  <2>1. \A d \in CPU, l \in Lock : (Inside(d, l)' <=> Inside(d, l)) /\ (Mine(d, l)' <=> Mine(d, l))
    <3>1. \A d \in CPU : d # c => running[d] \in Context /\ running[d] # x
      BY Zenon, <1>1 DEF Ind, TypeOK, SchedOK
    <3>2. ASSUME NEW d \in CPU, NEW l \in Lock, d # c
          PROVE  (Inside(d, l)' <=> Inside(d, l)) /\ (Mine(d, l)' <=> Mine(d, l))
      BY Zenon, <1>5, <3>1, <3>2 DEF Inside, Mine
    <3>3. ASSUME NEW l \in Lock
          PROVE  (Inside(c, l)' <=> Inside(c, l)) /\ (Mine(c, l)' <=> Mine(c, l))
      <4>1. pc'[x] # "setcpu"
        BY Zenon, <1>3, <1>5
      <4> QED
        BY Zenon, <1>1, <1>10, <4>1 DEF Inside, Mine
    <3> QED
      BY Zenon, <3>2, <3>3
  <2> QED
    BY Zenon, <1>5, <2>1, OwnerFrame
<1> QED
  BY Zenon, <1>6, <1>7, <1>8, <1>14, <1>15 DEF Ind

-----------------------------------------------------------------------------
(* sched's panics would need a thread that does not hold ptable.lock, or   *)
(* holds another one too.                                                  *)
LEMMA SchedInd ==
  ASSUME Ind, NEW c \in CPU, NEW x \in Context, sched(c, x)
  PROVE  Ind'
<1>1. /\ At(c, x, "run") /\ running[c] = x /\ pc[x] = "run" /\ held[x] = {"ptable"} /\ x \in Thread
      /\ StepAt(c) /\ MaskAt(c) /\ \A d \in CPU : d # c => running[d] # x
      /\ "ptable" \in Lock /\ \A k \in Lock : holding(k, c) <=> Mine(c, k)
  <2>1. At(c, x, "run") /\ held[x] = {"ptable"} /\ x \in Thread
    BY Zenon DEF sched
  <2> QED
    BY Zenon, <2>1, View
<1>2. ncli[c] = 1 /\ ~IF_[c] /\ holding("ptable", c)
  <2>1. HowMany({"ptable"}) = 1
    BY Zenon, Count
  <2>2. ncli[c] = 1 /\ (1 > 0 => ~IF_[c])
    BY Zenon, <1>1, <2>1 DEF MaskAt
  <2>3. 1 > 0
    OBVIOUS
  <2>4. holding("ptable", c)
    BY Zenon, <1>1 DEF Mine
  <2> QED
    BY Zenon, <2>2, <2>3, <2>4
<1>3. /\ saved' = [saved EXCEPT ![x] = intena[c]] /\ running' = [running EXCEPT ![c] = c]
      /\ ready' = ready \cup {x}
      /\ UNCHANGED <<lockVars, cpuVars, ctxVars, fresh, panicked>>
  BY Zenon, <1>2 DEF sched
<1>4. TypeOK' /\ NoPanic'
  BY Zenon, <1>1, <1>3 DEF Ind, TypeOK, LockOK, CpuOK, PlaceOK, FrameOK, HeldOK, SchedOK,
     NoPanic, Context
<1>5. /\ c \in Context /\ c \notin Thread /\ c # x /\ running'[c] = c /\ \A d \in CPU : d # c => running'[d] = running[d]
      /\ pc[c] = "run" /\ frames[c] = <<>> /\ held[c] = {"ptable"} /\ x \notin ready
  <2>1. c \in Context /\ c \notin Thread /\ c # x
    BY Zenon, <1>1, SpinAssumption DEF Context
  <2>2. running'[c] = c /\ \A d \in CPU : d # c => running'[d] = running[d]
    BY Zenon, <1>3 DEF Ind, TypeOK, SchedOK
  <2>3. pc[c] = "run" /\ frames[c] = <<>> /\ held[c] = {"ptable"} /\ x \notin ready
    BY Zenon, <1>1, <2>1 DEF Ind, PlaceInv
  <2> QED
    BY Zenon, <2>1, <2>2, <2>3
<1>6. FrameInv'
  <2>1. frames' = frames
    BY Zenon, <1>3 DEF ctxVars
  <2> QED
    BY Zenon, <2>1, FramesSame
<1>7. PlaceInv'
  <2>1. (InGate(x) => ~saved'[x]) /\ (Depth(x) = 0 => saved'[x])
    <3>1. saved'[x] = intena[c]
      BY Zenon, <1>1, <1>3 DEF Ind, TypeOK, SchedOK
    <3>2. ncli[c] > 0
      BY <1>2
    <3> QED
      BY Zenon, <1>1, <3>1, <3>2 DEF StepAt
  <2>2. \A t \in ready : t # x /\ saved'[t] = saved[t]
    BY Zenon, <1>3, <1>5 DEF Ind, TypeOK, SchedOK
  <2>3. /\ \A d \in CPU : running'[d] \in {d} \cup (Thread \ ready')
        /\ \A d, e \in CPU : running'[d] = running'[e] => d = e
        /\ \A d \in CPU : running'[d] # d => pc[d] = "run" /\ frames[d] = <<>> /\ held[d] = {"ptable"}
        /\ fresh \subseteq ready' /\ x \notin fresh
    <3>1. \A d \in CPU : running'[d] # d => d # c /\ running'[d] = running[d]
      BY Zenon, <1>5
    <3>2. \A d \in CPU : running[d] \in {d} \cup (Thread \ ready)
      BY Zenon DEF Ind, PlaceInv
    <3>3. \A d \in CPU : running'[d] \in {d} \cup (Thread \ ready')
      <4>1. ASSUME NEW d \in CPU, running'[d] # d
            PROVE  running'[d] \in Thread \ ready'
        <5>1. running'[d] = running[d] /\ running[d] # x /\ running[d] # d
          BY Zenon, <1>1, <3>1, <4>1
        <5>2. running[d] \in Thread \ ready
          BY Zenon, <3>2, <5>1
        <5>3. ready' = ready \cup {x}
          BY Zenon, <1>3
        <5> QED
          BY Zenon, <5>1, <5>2, <5>3
      <4> QED
        BY Zenon, <4>1
    <3>4. \A d, e \in CPU : running'[d] = running'[e] => d = e
      <4>1. \A d, e \in CPU : running[d] = running[e] => d = e
        BY Zenon DEF Ind, PlaceInv
      <4>2. \A d \in CPU : d # c => running'[d] # c
        BY ZenonT(30), <1>5, <3>2
      <4> QED
        BY Zenon, <1>5, <4>1, <4>2
    <3>5. \A d \in CPU : running'[d] # d => pc[d] = "run" /\ frames[d] = <<>> /\ held[d] = {"ptable"}
      BY Zenon, <3>1 DEF Ind, PlaceInv
    <3>6. fresh \subseteq ready' /\ x \notin fresh
      BY Zenon, <1>3, <1>5 DEF Ind, PlaceInv
    <3> QED
      BY Zenon, <3>3, <3>4, <3>5, <3>6
  <2>4. \A t \in ready' :
          /\ pc[t] = "run" /\ held[t] = IF t \in fresh THEN {} ELSE {"ptable"}
          /\ t \in fresh => Depth(t) > 0 /\ ~InGate(t)
          /\ t \notin fresh => (InGate(t) => ~saved'[t]) /\ (Depth(t) = 0 => saved'[t])
    <3>1. ASSUME NEW t \in ready
          PROVE  /\ pc[t] = "run" /\ held[t] = IF t \in fresh THEN {} ELSE {"ptable"}
                 /\ t \in fresh => Depth(t) > 0 /\ ~InGate(t)
                 /\ t \notin fresh => (InGate(t) => ~saved[t]) /\ (Depth(t) = 0 => saved[t])
      BY Zenon DEF Ind, PlaceInv
    <3>2. \A t \in ready' : t \in ready \/ t = x
      BY Zenon, <1>3
    <3>3. /\ pc[x] = "run" /\ held[x] = {"ptable"} /\ x \notin fresh
          /\ (InGate(x) => ~saved'[x]) /\ (Depth(x) = 0 => saved'[x])
      BY Zenon, <1>1, <2>1, <2>3
    <3>4. ASSUME NEW t \in ready
          PROVE  /\ pc[t] = "run" /\ held[t] = IF t \in fresh THEN {} ELSE {"ptable"}
                 /\ t \in fresh => Depth(t) > 0 /\ ~InGate(t)
                 /\ t \notin fresh => (InGate(t) => ~saved'[t]) /\ (Depth(t) = 0 => saved'[t])
      BY Zenon, <2>2, <3>1
    <3> QED
      BY Zenon, <3>2, <3>3, <3>4
  <2> QED
    BY Zenon, <1>3, <2>3, <2>4 DEF PlaceInv, InGate, Depth
<1>8. MaskAt(c)' /\ StepAt(c)' /\ RestoredAt(c)'
  <2>1. MaskAt(c)'
    BY Zenon, <1>1, <1>3, <1>5, SpinAssumption DEF MaskAt
  <2>2. StepAt(c)' /\ RestoredAt(c)'
    <3>1. /\ running'[c] = c /\ pc'[c] = "run" /\ frames'[c] = <<>> /\ held'[c] = {"ptable"}
          /\ Depth(c)' = 0 /\ ~(0 > 0)
      <4>1. running'[c] = c /\ pc'[c] = "run" /\ frames'[c] = <<>> /\ held'[c] = {"ptable"}
        BY Zenon, <1>3, <1>5 DEF ctxVars
      <4> QED
        BY <4>1 DEF Depth
    <3> QED
      BY Zenon, <1>5, <3>1 DEF StepAt, RestoredAt, InGate
  <2> QED
    BY Zenon, <2>1, <2>2
<1>9. StepInv' /\ LocksMaskInterrupts' /\ InterruptsRestored'
  BY Zenon, <1>3, <1>4, <1>5, <1>7, <1>8, OtherCpus
<1>10. OwnerInv' /\ MutualExclusion'
  <2>1. \A d \in CPU, l \in Lock : (Inside(d, l)' <=> Inside(d, l)) /\ (Mine(d, l)' <=> Mine(d, l))
    <3>1. UNCHANGED <<pc, arg, held>>
      BY Zenon, <1>3 DEF ctxVars
    <3>2. ASSUME NEW d \in CPU, NEW l \in Lock, d # c
          PROVE  (Inside(d, l)' <=> Inside(d, l)) /\ (Mine(d, l)' <=> Mine(d, l))
      BY Zenon, <1>5, <3>1, <3>2 DEF Inside, Mine
    <3>3. ASSUME NEW l \in Lock
          PROVE  (Inside(c, l)' <=> Inside(c, l)) /\ (Mine(c, l)' <=> Mine(c, l))
      BY Zenon, <1>1, <1>5, <3>1 DEF Inside, Mine
    <3> QED
      BY Zenon, <3>2, <3>3
  <2> QED
    BY Zenon, <1>3, <2>1, OwnerFrame
<1> QED
  BY Zenon, <1>4, <1>6, <1>7, <1>9, <1>10 DEF Ind

(* The thread that is switched to gets ptable.lock, and its intena back. *)
LEMMA SchedulerInd ==
  ASSUME Ind, NEW c \in CPU, NEW t \in Thread, scheduler(c, t)
  PROVE  Ind'
<1>1. /\ c \in Context /\ t \in Context /\ c \notin Thread /\ c # t
      /\ At(c, c, "run") /\ frames[c] = <<>> /\ held[c] = {"ptable"} /\ t \in ready
      /\ ready' = ready \ {t} /\ fresh' = fresh \ {t} /\ running' = [running EXCEPT ![c] = t]
      /\ held' = [held EXCEPT ![t] = {"ptable"}] /\ saved' = [saved EXCEPT ![t] = FALSE]
      /\ intena' = IF t \in fresh THEN intena ELSE [intena EXCEPT ![c] = saved[t]]
      /\ UNCHANGED <<lockVars, IF_, ncli, pc, arg, eflags, frames, panicked>>
  BY Zenon, SpinAssumption DEF scheduler, RestoreIntena, Context
<1>2. running[c] = c /\ pc[c] = "run" /\ MaskAt(c) /\ StepAt(c)
  BY Zenon, <1>1, View
<1>3. /\ pc[t] = "run" /\ \A d \in CPU : running[d] # t
      /\ t \in fresh => Depth(t) > 0 /\ ~InGate(t)
      /\ t \notin fresh => (InGate(t) => ~saved[t]) /\ (Depth(t) = 0 => saved[t])
  <2>1. ASSUME NEW d \in CPU
        PROVE  running[d] # t
    <3>1. running[d] \in {d} \cup (Thread \ ready)
      BY Zenon DEF Ind, PlaceInv
    <3>2. d # t
      BY Zenon, SpinAssumption
    <3> QED
      BY Zenon, <1>1, <3>1, <3>2
  <2> QED
    BY Zenon, <1>1, <2>1 DEF Ind, PlaceInv
<1>4. TypeOK' /\ NoPanic'
  <2>1. held' \in [Context -> SUBSET Lock] /\ running' \in [CPU -> Context]
    BY Zenon, <1>1 DEF Ind, TypeOK, HeldOK, SchedOK
  <2>2. intena' \in [CPU -> BOOLEAN] /\ saved' \in [Thread -> BOOLEAN]
    BY Zenon, <1>1 DEF Ind, TypeOK, CpuOK, SchedOK
  <2> QED
    BY Zenon, <1>1 DEF Ind, TypeOK, LockOK, CpuOK, PlaceOK, FrameOK, HeldOK, SchedOK, NoPanic
<1>5. /\ running'[c] = t /\ \A d \in CPU : d # c => running'[d] = running[d]
      /\ held'[t] = {"ptable"} /\ \A y \in Context : y # t => held'[y] = held[y]
      /\ intena'[c] = (IF t \in fresh THEN intena[c] ELSE saved[t])
      /\ \A d \in CPU : d # c => intena'[d] = intena[d]
      /\ \A u \in Thread : u # t => saved'[u] = saved[u]
  BY Zenon, <1>1 DEF Ind, TypeOK, CpuOK, HeldOK, SchedOK
<1>6. FrameInv'
  BY Zenon, <1>1, FramesSame
<1>7. PlaceInv'
  <2>1. /\ \A d \in CPU : running'[d] \in {d} \cup (Thread \ ready')
        /\ \A d, e \in CPU : running'[d] = running'[e] => d = e
        /\ fresh' \subseteq ready'
    <3>1. ASSUME NEW d \in CPU
          PROVE  running[d] \in {d} \cup (Thread \ ready) /\ running[d] # t
      BY Zenon, <1>3 DEF Ind, PlaceInv
    <3>2. \A d \in CPU : running'[d] \in {d} \cup (Thread \ ready')
      <4>1. ASSUME NEW d \in CPU, d # c
            PROVE  running'[d] \in {d} \cup (Thread \ ready')
        <5>1. running'[d] = running[d] /\ ready' = ready \ {t}
          BY Zenon, <1>1, <1>5, <4>1
        <5> QED
          BY Zenon, <3>1, <5>1
      <4>2. running'[c] = t /\ t \in Thread \ ready'
        BY Zenon, <1>1, <1>5
      <4> QED
        BY Zenon, <4>1, <4>2
    <3>3. \A d, e \in CPU : running'[d] = running'[e] => d = e
      <4>1. \A d, e \in CPU : running[d] = running[e] => d = e
        BY Zenon DEF Ind, PlaceInv
      <4>2. running'[c] = t /\ \A d \in CPU : d # c => running'[d] = running[d] /\ running'[d] # t
        BY Zenon, <1>5, <3>1
      <4> QED
        BY Zenon, <4>1, <4>2
    <3>4. fresh' \subseteq ready'
      BY Zenon, <1>1 DEF Ind, PlaceInv
    <3> QED
      BY Zenon, <3>2, <3>3, <3>4
  <2>2. ASSUME NEW d \in CPU, running'[d] # d
        PROVE  pc[d] = "run" /\ frames[d] = <<>> /\ held'[d] = {"ptable"}
    <3>1. d \in Context /\ d # t
      BY Zenon, SpinAssumption DEF Context
    <3>2. CASE d = c
      BY Zenon, <1>1, <1>2, <1>5, <3>1, <3>2
    <3>3. CASE d # c
      <4>1. running[d] # d /\ held'[d] = held[d]
        BY Zenon, <1>5, <2>2, <3>1, <3>3
      <4> QED
        BY Zenon, <4>1 DEF Ind, PlaceInv
    <3> QED
      BY Zenon, <3>2, <3>3
  <2>3. ASSUME NEW u \in ready'
        PROVE  /\ pc[u] = "run" /\ held'[u] = IF u \in fresh' THEN {} ELSE {"ptable"}
               /\ u \in fresh' => Depth(u) > 0 /\ ~InGate(u)
               /\ u \notin fresh' => (InGate(u) => ~saved'[u]) /\ (Depth(u) = 0 => saved'[u])
    <3>1. u \in ready /\ u # t /\ u \in Thread /\ u \in Context /\ (u \in fresh' <=> u \in fresh)
      BY Zenon, <1>1 DEF Ind, TypeOK, SchedOK, Context
    <3>2. /\ pc[u] = "run" /\ held[u] = IF u \in fresh THEN {} ELSE {"ptable"}
          /\ u \in fresh => Depth(u) > 0 /\ ~InGate(u)
          /\ u \notin fresh => (InGate(u) => ~saved[u]) /\ (Depth(u) = 0 => saved[u])
      BY Zenon, <3>1 DEF Ind, PlaceInv
    <3> QED
      BY Zenon, <1>5, <3>1, <3>2
  <2> QED
    BY Zenon, <1>1, <2>1, <2>2, <2>3 DEF PlaceInv, InGate, Depth
<1>8. MaskAt(c)' /\ StepAt(c)' /\ RestoredAt(c)'
  <2>1. MaskAt(c)'
    <3>1. ncli[c] = HowMany({"ptable"}) /\ (ncli[c] > 0 => ~IF_[c])
      BY Zenon, <1>1, <1>2 DEF MaskAt
    <3>2. pc'[t] = "run" /\ held'[t] = {"ptable"} /\ running'[c] = t /\ ncli' = ncli /\ IF_' = IF_
      BY Zenon, <1>1, <1>3, <1>5
    <3> QED
      BY Zenon, <3>1, <3>2 DEF MaskAt
  <2>2. (InGate(t) => ~intena'[c]) /\ (Depth(t) = 0 => intena'[c])
    <3>1. Depth(t) > 0 => Depth(t) # 0
      OBVIOUS
    <3> QED
      BY Zenon, <1>3, <1>5, <3>1
  <2>3. StepAt(c)'
    BY Zenon, <1>1, <1>3, <1>5, <2>2 DEF StepAt, InGate, Depth
  <2>4. RestoredAt(c)'
    BY Zenon, <1>5 DEF RestoredAt
  <2> QED
    BY Zenon, <2>1, <2>3, <2>4
<1>9. StepInv' /\ LocksMaskInterrupts' /\ InterruptsRestored'
  BY Zenon, <1>1, <1>4, <1>5, <1>7, <1>8, OtherCpus
<1>10. OwnerInv' /\ MutualExclusion'
  <2>1. \A d \in CPU, l \in Lock : (Inside(d, l)' <=> Inside(d, l)) /\ (Mine(d, l)' <=> Mine(d, l))
    <3>1. \A d \in CPU : d # c => running[d] \in Context /\ running[d] # t
      BY Zenon, <1>3 DEF Ind, TypeOK, SchedOK
    <3>2. pc' = pc /\ arg' = arg
      BY Zenon, <1>1
    <3>3. ASSUME NEW d \in CPU, NEW l \in Lock, d # c
          PROVE  (Inside(d, l)' <=> Inside(d, l)) /\ (Mine(d, l)' <=> Mine(d, l))
      <4>1. running'[d] = running[d] /\ held'[running[d]] = held[running[d]]
        BY Zenon, <1>5, <3>1, <3>3
      <4> QED
        BY Zenon, <3>2, <4>1 DEF Inside, Mine
    <3>4. ASSUME NEW l \in Lock
          PROVE  (Inside(c, l)' <=> Inside(c, l)) /\ (Mine(c, l)' <=> Mine(c, l))
      <4>1. /\ running[c] = c /\ pc[c] = "run" /\ held[c] = {"ptable"}
            /\ running'[c] = t /\ pc'[t] = "run" /\ held'[t] = {"ptable"}
        BY Zenon, <1>1, <1>2, <1>3, <1>5
      <4> QED
        BY Zenon, <4>1 DEF Inside, Mine
    <3> QED
      BY Zenon, <3>3, <3>4
  <2> QED
    BY Zenon, <1>1, <2>1, OwnerFrame
<1> QED
  BY Zenon, <1>4, <1>6, <1>7, <1>9, <1>10 DEF Ind

-----------------------------------------------------------------------------
(* A step that changes nothing. *)
LEMMA StutterInd == Ind /\ UNCHANGED vars => Ind'
<1> SUFFICES ASSUME Ind, UNCHANGED vars PROVE Ind'
  BY Zenon
<1>1. TypeOK' /\ NoPanic'
  BY Zenon DEF TypeOK, LockOK, CpuOK, PlaceOK, FrameOK, HeldOK, SchedOK, NoPanic, Ind, vars
<1>2. PlaceInv'
  BY Zenon DEF PlaceInv, Depth, InGate, Ind, vars
<1>3. FrameInv'
  BY Zenon, FramesSame DEF vars
<1>4. StepInv'
  BY Zenon DEF StepInv, InGate, Depth, Ind, vars
<1>5. \A d \in CPU, l \in Lock : (Inside(d, l)' <=> Inside(d, l)) /\ (Mine(d, l)' <=> Mine(d, l))
  BY Zenon DEF Inside, Mine, vars
<1>6. OwnerInv' /\ MutualExclusion'
  BY Zenon, <1>5, OwnerFrame DEF vars
<1>7. LocksMaskInterrupts' /\ InterruptsRestored'
  BY Zenon DEF LocksMaskInterrupts, InterruptsRestored, Ind, vars
<1> QED
  BY Zenon, <1>1, <1>2, <1>3, <1>4, <1>6, <1>7 DEF Ind

(* The invariant is inductive. *)
LEMMA NextInd == Ind /\ [Next]_vars => Ind'
<1>1. ASSUME Ind, NEW c \in CPU, NEW x \in Context,
             \/ \E l \in Lock : pushcli_read(c, x, l) \/ release(c, x, l)
             \/ pushcli(c, x) \/ xchg(c, x) \/ acquired(c, x) \/ popcli(c, x)
             \/ trapret(c, x) \/ sched(c, x)
      PROVE  Ind'
  BY Zenon, <1>1, PushcliReadInd, ReleaseInd, PushcliInd, XchgInd, AcquiredInd, PopcliInd,
     TrapretInd, SchedInd
<1>2. ASSUME Ind, NEW c \in CPU, interrupt(c) \/ sti(c) \/ \E t \in Thread : scheduler(c, t)
      PROVE  Ind'
  BY Zenon, <1>2, InterruptInd, StiInd, SchedulerInd
<1> QED
  BY Zenon, <1>1, <1>2, StutterInd DEF Next

(* On any number of CPUs and with any number of threads, holding tells the *)
(* truth, no panic of spinlock.c or sched is reached, and the parts of the *)
(* invariant that explain why hold.                                        *)
THEOREM LocksSound == Spec => []LockInv
<1>1. Ind => LockInv
  BY Zenon, Exact DEF Ind, LockInv
<1> QED
  BY InitInd, NextInd, <1>1, PTL DEF Spec

(* No two CPUs are inside the same lock, also while swtch passes           *)
(* ptable.lock from thread to thread.                                      *)
THEOREM Exclusion == Spec => []MutualExclusion
<1>1. LockInv => MutualExclusion
  BY Zenon DEF LockInv
<1> QED
  BY LocksSound, <1>1, PTL

(* A CPU takes no interrupts while it holds or waits for a lock. *)
THEOREM Masking == Spec => []LocksMaskInterrupts
<1>1. LockInv => LocksMaskInterrupts
  BY Zenon DEF LockInv
<1> QED
  BY LocksSound, <1>1, PTL

(* pushcli and popcli nest, wherever the thread is moved in between. *)
THEOREM Restoring == Spec => []InterruptsRestored
<1>1. LockInv => InterruptsRestored
  BY Zenon DEF LockInv
<1> QED
  BY LocksSound, <1>1, PTL
=============================================================================
