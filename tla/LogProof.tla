------------------------------ MODULE LogProof ------------------------------
(***************************************************************************)
(* Proofs about Log for any number of processes, blocks and block contents *)
(* and any log geometry in which BudgetFits holds.                         *)
(***************************************************************************)
EXTENDS Log, FiniteSetTheorems, TLAPS

(* The hypothesis of the theorems: mkfs gives the log at least LOGSIZE     *)
(* blocks, header included, and no call logs the last two blocks of its    *)
(* reservation.  (A call that uses all of MAXOPBLOCKS can make log_write,  *)
(* which tests the size before it takes log.lock, append one block too     *)
(* many.)                                                                  *)
BudgetFits == OpBlocks + 2 <= MAXOPBLOCKS /\ LOGSIZE <= nlog

USE DEF diskVars, logVars, opVars

(* Membership in a header, by index. *)
LEMMA RangeIff ==
  ASSUME NEW S, NEW s \in Seq(S), NEW b
  PROVE  b \in Range(s) <=> \E i \in 1 .. Len(s) : s[i] = b
BY DEF Range

(* Reservations are finite, and at most MAXOPBLOCKS per call. *)
LEMMA ReservationBound ==
  ASSUME NEW I \in SUBSET Proc, NEW R \in SUBSET (I \X (1 .. MAXOPBLOCKS))
  PROVE  /\ IsFiniteSet(I) /\ IsFiniteSet(R)
         /\ Cardinality(I) \in Nat /\ Cardinality(R) \in Nat
         /\ Cardinality(R) <= Cardinality(I) * MAXOPBLOCKS
<1>1. IsFiniteSet(I)
  BY ProcAssumption, FS_Subset
<1>2. /\ IsFiniteSet(1 .. MAXOPBLOCKS)
      /\ Cardinality(1 .. MAXOPBLOCKS) = MAXOPBLOCKS
  BY FS_Interval, SizeAssumption
<1>3. /\ IsFiniteSet(I \X (1 .. MAXOPBLOCKS))
      /\ Cardinality(I \X (1 .. MAXOPBLOCKS)) = Cardinality(I) * MAXOPBLOCKS
  BY ZenonT(30), <1>1, <1>2, FS_Product
<1>4. IsFiniteSet(R) /\ Cardinality(R) <= Cardinality(I) * MAXOPBLOCKS
  BY <1>3, FS_Subset
<1> QED
  BY <1>1, <1>4, FS_CardinalityType

(* The same for the reservations of a state. *)
LEMMA ReservedBound ==
  /\ IsFiniteSet(InOp) /\ IsFiniteSet(Reserved)
  /\ Cardinality(InOp) \in Nat /\ Cardinality(Reserved) \in Nat
  /\ Cardinality(Reserved) <= Cardinality(InOp) * MAXOPBLOCKS
<1>1. InOp \in SUBSET Proc /\ Reserved \in SUBSET (InOp \X (1 .. MAXOPBLOCKS))
  BY DEF InOp, Reserved
<1> QED
  BY <1>1, ReservationBound

(* A call in progress still has its last two blocks in reserve, so there   *)
(* is room in the log.                                                     *)
LEMMA RoomLeft ==
  ASSUME BudgetFits, TypeOK, LoggedInv, BudgetInv, NEW p \in InOp
  PROVE  Len(lh) + 2 <= LOGSIZE
<1> DEFINE a == <<p, MAXOPBLOCKS>>
           b == <<p, MAXOPBLOCKS - 1>>
<1>1. Cardinality(logged[p]) \in Nat /\ Cardinality(logged[p]) <= OpBlocks
  BY FS_CardinalityType DEF LoggedInv, InOp
<1>2. a \in Reserved /\ b \in Reserved /\ a # b
  BY <1>1, SizeAssumption DEF BudgetFits, Reserved
<1> HIDE DEF a, b
<1>3. IsFiniteSet({a}) /\ Cardinality({a}) = 1
  BY Zenon, FS_Singleton
<1>4. IsFiniteSet({a} \cup {b}) /\ Cardinality({a} \cup {b}) = 2
  BY SMTT(20), <1>2, <1>3, FS_AddElement
<1>5. {a} \cup {b} \in SUBSET Reserved
  BY <1>2
<1>6. 2 <= Cardinality(Reserved)
  BY <1>4, <1>5, ReservedBound, FS_Subset
<1> QED
  BY SMTT(20), <1>6, ReservedBound, SizeAssumption DEF BudgetInv, TypeOK

(* An empty set of blocks is within any budget. *)
LEMMA EmptyFits == IsFiniteSet({}) /\ Cardinality({}) = 0 /\ Cardinality({}) <= OpBlocks
<1>1. IsFiniteSet({}) /\ Cardinality({}) = 0
  BY Zenon, FS_EmptySet
<1> QED
  BY <1>1, SizeAssumption

(* An empty header is a header. *)
LEMMA EmptyHeader ==
  /\ NoDuplicates(<<>>) /\ Len(<<>>) <= nlog - 1 /\ Len(<<>>) <= LOGSIZE
  /\ Len(<<>>) \in Nat /\ <<>> \in Seq(Home)
BY SizeAssumption DEF NoDuplicates

(* When no call has a reservation, the header alone must fit the log. *)
LEMMA EmptyBudget ==
  ASSUME Reserved' = {}, Len(lh') \in Nat, Len(lh') <= LOGSIZE
  PROVE  BudgetInv'
<1>1. Cardinality(Reserved)' = 0
  BY Zenon, FS_EmptySet
<1>2. Len(lh') + 0 <= LOGSIZE
  BY SizeAssumption
<1> QED
  BY Zenon, <1>1, <1>2 DEF BudgetInv

(* The blocks of the log and the home blocks it lists are apart. *)
LEMMA HeaderBlocks ==
  ASSUME TypeOK, HeaderInv
  PROVE  /\ Len(lh) \in Nat /\ tail \in Nat /\ Len(lh) < nlog
         /\ \A i \in 1 .. Len(lh) : /\ i \in Blocks /\ i \notin Home /\ i < nlog
                                   /\ lh[i] \in Home /\ lh[i] \in Blocks
<1>1. lh \in Seq(Home) /\ tail \in Nat /\ Len(lh) <= nlog - 1
  BY Zenon DEF TypeOK, HeaderInv
<1>2. Len(lh) \in Nat /\ \A i \in 1 .. Len(lh) : lh[i] \in Home
  BY <1>1
<1>3. Len(lh) < nlog
  BY <1>1, <1>2, SizeAssumption
<1>4. \A i \in 1 .. Len(lh) : i \in Blocks /\ i \notin Home /\ i < nlog
  BY <1>2, <1>3, SizeAssumption DEF Blocks, Home
<1>5. \A b \in Home : b \in Blocks
  BY SizeAssumption DEF Blocks, Home
<1> QED
  BY Zenon, <1>1, <1>2, <1>3, <1>4, <1>5

(* A process that begins a call, or sleeps until it may, changes nothing   *)
(* but its own place.                                                      *)
LEMMA CallFrame ==
  ASSUME LogInv, NEW p \in Proc, pc[p] \in {"user", "begin"}, pc'[p] \in {"op", "sleep"}, boot = "up",
         \A q \in Proc : q # p => pc'[q] = pc[q],
         UNCHANGED <<disk, dhead, cache, pinned, lh, tail, held, boot, panicked>>
  PROVE  /\ HeldInv' /\ HeaderInv' /\ PhaseInv' /\ EmptyHeadInv' /\ PinInv' /\ BootInv'
         /\ CleanIsCoherent' /\ NoPanic'
<1>1. \A q \in Proc : (pc'[q] = "record" <=> pc[q] = "record") /\ (pc'[q] \in CommitPcs => pc'[q] = pc[q])
  <2>1. pc'[p] # "record" /\ pc[p] # "record" /\ pc'[p] \notin CommitPcs
    BY Zenon DEF CommitPcs
  <2> QED
    BY Zenon, <2>1
<1>2. HeldInv' /\ HeaderInv'
  BY ZenonT(30), <1>1 DEF LogInv, HeldInv, HeaderInv, NoDuplicates
<1>3. PinInv' /\ BootInv' /\ CleanIsCoherent' /\ NoPanic'
  BY Zenon DEF LogInv, PinInv, BootInv, CleanIsCoherent, NoPanic
<1>4. EmptyHeadInv'
  <2>1. \A q \in Proc : pc[q] \in {"install", "clear"} => pc'[q] = pc[q]
    <3>1. pc[p] \notin {"install", "clear"}
      BY Zenon
    <3> QED
      BY Zenon, <3>1
  <2> QED
    BY Zenon, <2>1 DEF LogInv, EmptyHeadInv
<1>5. PhaseInv'
  BY ZenonT(30), <1>1 DEF LogInv, PhaseInv, CommitPcs, LogCopied, Installed
<1> QED
  BY Zenon, <1>2, <1>3, <1>4, <1>5

(* Only the committer's place matters for what is on the disk. *)
LEMMA PhaseFrame ==
  ASSUME NEW p \in Proc, \A q \in Proc \ {p} : pc'[q] \notin CommitPcs,
         pc'[p] = "write_log"  => tail' < Len(lh') /\ LogCopied(tail)' /\ dhead' = <<>>,
         pc'[p] = "write_head" => LogCopied(Len(lh))' /\ lh' # <<>> /\ dhead' = <<>>,
         pc'[p] = "install"    => /\ tail' < Len(lh') /\ LogCopied(Len(lh))' /\ dhead' = lh'
                                  /\ Installed(tail)'
                                  /\ \A i \in 1 .. tail' : lh'[i] \notin pinned',
         pc'[p] = "clear"      => /\ LogCopied(Len(lh))' /\ dhead' = lh' /\ Installed(Len(lh))'
                                  /\ pinned' = {},
         pc'[p] = "finish"     => lh' = <<>> /\ dhead' = <<>>
  PROVE  PhaseInv'
<1>1. ASSUME NEW q \in Proc, q # p
      PROVE  pc'[q] \notin {"write_log", "write_head", "install", "clear", "finish"}
  BY Zenon, <1>1 DEF CommitPcs
<1> QED
  BY Zenon, <1>1 DEF PhaseInv

-----------------------------------------------------------------------------
(* A freshly made, never mounted file system satisfies the invariant. *)
LEMMA InitInv == Init => LogInv
<1> SUFFICES ASSUME Init PROVE LogInv
  OBVIOUS
<1> USE DEF Init
<1>1. TypeOK
  <2>1. disk \in [Blocks -> Val] /\ cache \in [Blocks -> Val]
    BY ValAssumption
  <2>2. pc \in [Proc -> Pcs] /\ held \in [Proc -> Home \cup {NoBlock}]
    BY DEF Pcs
  <2>3. logged \in [Proc -> SUBSET Home] /\ lh \in Seq(Home) /\ dhead \in Seq(Home)
    OBVIOUS
  <2> QED
    BY Zenon, <2>1, <2>2, <2>3 DEF TypeOK
<1>2. InOp = {} /\ Reserved = {}
  BY DEF InOp, Reserved
<1>3. CountInv /\ BudgetInv
  BY <1>2, FS_EmptySet, SizeAssumption DEF CountInv, BudgetInv
<1>4. LoggedInv
  BY FS_EmptySet, SizeAssumption DEF LoggedInv, InOp
<1>5. CommitInv /\ HeldInv /\ HeaderInv
  BY <1>2, SizeAssumption DEF CommitInv, HeldInv, HeaderInv, NoDuplicates, CommitPcs
<1>6. PhaseInv /\ EmptyHeadInv /\ PinInv /\ BootInv /\ CleanIsCoherent
  BY DEF PhaseInv, EmptyHeadInv, PinInv, BootInv, Installed, CleanIsCoherent
<1>7. NoMissedWakeup /\ NoPanic
  BY DEF NoMissedWakeup, NoPanic
<1> QED
  BY <1>1, <1>3, <1>4, <1>5, <1>6, <1>7 DEF LogInv

(* An admitted call reserves its whole budget. *)
LEMMA BeginOpInv ==
  ASSUME LogInv, NEW p \in Proc, begin_op(p)
  PROVE  LogInv'
<1> USE DEF LogInv
<1> USE DEF CountOp
<1>1. TypeOK'
  BY SMTT(20) DEF TypeOK, begin_op, Pcs
<1>2. pc[p] \in {"user", "begin"} /\ p \notin InOp /\ boot = "up"
  BY SMTT(20) DEF begin_op, InOp, Running
<1>3. CASE CanBegin /\ outstanding' = outstanding + 1 /\ pc' = [pc EXCEPT ![p] = "op"]
  <2>1. InOp' = InOp \cup {p}
    BY <1>2, <1>3 DEF InOp, TypeOK
  <2>2. Cardinality(InOp') = outstanding + 1
    BY Zenon, <2>1, <1>2, ReservedBound, FS_AddElement DEF CountInv
  <2>3. CountInv'
    BY <1>3, <2>2 DEF CountInv
  <2>4. Cardinality(Reserved)' <= (outstanding + 1) * MAXOPBLOCKS /\ Cardinality(Reserved)' \in Nat
    <3>1. InOp' \in SUBSET Proc /\ Reserved' \in SUBSET (InOp' \X (1 .. MAXOPBLOCKS))
      BY DEF InOp, Reserved
    <3> QED BY <3>1, <2>2, ReservationBound
  <2>5. BudgetInv'
    BY <1>3, <2>4, SizeAssumption DEF BudgetInv, CanBegin, begin_op, TypeOK
  <2>6. LoggedInv'
    BY <1>3, <2>1 DEF LoggedInv, TypeOK, begin_op
  <2>7. CommitInv' /\ NoMissedWakeup'
    BY SMTT(20), <1>2, <1>3, <2>1, SizeAssumption
    DEF CommitInv, NoMissedWakeup, CanBegin, TypeOK, begin_op, CommitPcs
  <2>8. /\ HeldInv' /\ HeaderInv' /\ PhaseInv' /\ EmptyHeadInv' /\ PinInv' /\ BootInv'
        /\ CleanIsCoherent' /\ NoPanic'
    <3>1. pc'[p] = "op" /\ \A q \in Proc : q # p => pc'[q] = pc[q]
      BY Zenon, <1>3 DEF TypeOK
    <3> QED
      BY Zenon, <1>2, <3>1, CallFrame DEF begin_op
  <2> QED
    BY Zenon, <1>1, <2>3, <2>5, <2>6, <2>7, <2>8
<1>4. CASE ~CanBegin /\ pc' = [pc EXCEPT ![p] = "sleep"] /\ UNCHANGED outstanding
  <2>1. InOp' = InOp /\ Reserved' = Reserved
    BY <1>2, <1>4 DEF InOp, Reserved, TypeOK, begin_op
  <2>2. CountInv' /\ BudgetInv' /\ LoggedInv'
    BY <1>4, <2>1 DEF CountInv, BudgetInv, LoggedInv, begin_op, TypeOK
  <2>3. CommitInv' /\ NoMissedWakeup'
    BY <1>2, <1>4, <2>1 DEF CommitInv, NoMissedWakeup, CanBegin, TypeOK, begin_op, CommitPcs
  <2>4. /\ HeldInv' /\ HeaderInv' /\ PhaseInv' /\ EmptyHeadInv' /\ PinInv' /\ BootInv'
        /\ CleanIsCoherent' /\ NoPanic'
    <3>1. pc'[p] = "sleep" /\ \A q \in Proc : q # p => pc'[q] = pc[q]
      BY Zenon, <1>4 DEF TypeOK
    <3> QED
      BY Zenon, <1>2, <3>1, CallFrame DEF begin_op
  <2> QED
    BY Zenon, <1>1, <2>2, <2>3, <2>4
<1> QED
  BY <1>3, <1>4 DEF begin_op

(* log_write's tests do not fail: the caller's reservation leaves room. *)
LEMMA LogWriteTestInv ==
  ASSUME BudgetFits, LogInv, NEW p \in Proc, NEW b \in Home, NEW v \in Val,
         log_write_test(p, b, v)
  PROVE  LogInv'
<1> USE DEF LogInv
<1>1. p \in InOp /\ pc[p] = "op" /\ boot = "up"
  BY DEF log_write_test, InOp, Running
<1>2. Len(lh) + 2 <= LOGSIZE
  BY <1>1, RoomLeft
<1>3. outstanding >= 1
  BY <1>1, ReservedBound, FS_EmptySet DEF CountInv
<1>4. /\ pc' = [pc EXCEPT ![p] = "record"] /\ held' = [held EXCEPT ![p] = b]
      /\ UNCHANGED panicked
  BY <1>2, <1>3, SizeAssumption DEF log_write_test, BudgetFits, TypeOK
<1>5. b # NoBlock /\ b \in Blocks
  BY NoBlockAssumption, SizeAssumption DEF Home, Blocks
<1>6. TypeOK'
  BY <1>4, <1>5 DEF TypeOK, log_write_test, Pcs
<1>7. InOp' = InOp /\ Reserved' = Reserved
  BY <1>1, <1>4 DEF InOp, Reserved, TypeOK, log_write_test
<1>8. CountInv' /\ BudgetInv' /\ CommitInv'
  BY <1>1, <1>4, <1>7 DEF CountInv, BudgetInv, CommitInv, CommitPcs, log_write_test, TypeOK
<1>9. LoggedInv' /\ HeldInv'
  BY ZenonT(30), <1>1, <1>4, <1>5, <1>7 DEF LoggedInv, HeldInv, log_write_test, TypeOK
<1>10. HeaderInv' /\ PinInv' /\ BootInv' /\ NoMissedWakeup' /\ NoPanic' /\ EmptyHeadInv'
  BY SMTT(20), <1>1, <1>4 DEF HeaderInv, NoDuplicates, PinInv, BootInv, NoMissedWakeup, CanBegin,
     NoPanic, EmptyHeadInv, log_write_test, TypeOK
<1>11. PhaseInv'
  <2>1. \A q \in Proc : pc'[q] \notin CommitPcs
    BY <1>1, <1>4 DEF CommitInv, CommitPcs, TypeOK
  <2> QED BY ZenonT(30), <2>1 DEF PhaseInv, CommitPcs
<1>12. CleanIsCoherent'
  <2> SUFFICES ASSUME NEW c \in Blocks, c \notin pinned', \A q \in Proc : held'[q] # c
               PROVE  cache'[c] = disk'[c]
    BY ZenonT(30) DEF CleanIsCoherent
  <2>1. held[p] = NoBlock /\ c # NoBlock
    BY <1>1, NoBlockAssumption DEF HeldInv, Blocks
  <2>2. c # b /\ \A q \in Proc : held[q] # c
    BY <1>4, <2>1 DEF TypeOK
  <2> QED
    BY SMTT(20), <2>2 DEF CleanIsCoherent, log_write_test, TypeOK
<1> QED
  BY <1>6, <1>8, <1>9, <1>10, <1>11, <1>12

(* Recording a block spends one reserved block, or absorbs it. *)
LEMMA LogWriteInv ==
  ASSUME BudgetFits, LogInv, NEW p \in Proc, log_write(p)
  PROVE  LogInv'
<1> USE DEF LogInv
<1> DEFINE b == held[p]
           n == Cardinality(logged[p])
<1>1. p \in InOp /\ pc[p] = "record" /\ boot = "up" /\ b \in Home /\ b # NoBlock
  BY DEF log_write, InOp, Running, HeldInv, TypeOK
<1>2. /\ lh' \in Seq(Home) /\ \A i \in 1 .. Len(lh) : lh'[i] = lh[i]
      /\ \/ b \in Range(lh) /\ lh' = lh
         \/ b \notin Range(lh) /\ Len(lh') = Len(lh) + 1 /\ lh'[Len(lh) + 1] = b
  BY <1>1 DEF log_write, Absorb, TypeOK
<1>3. Range(lh') = Range(lh) \cup {b}
  <2>1. \A x : x \in Range(lh') <=> \E i \in 1 .. Len(lh') : lh'[i] = x
    BY <1>2, RangeIff
  <2>2. \A x : x \in Range(lh) <=> \E i \in 1 .. Len(lh) : lh[i] = x
    BY RangeIff DEF TypeOK
  <2>3. Len(lh) \in Nat
    BY DEF TypeOK
  <2> QED BY SMTT(20), <1>2, <2>1, <2>2, <2>3
<1>4. NoDuplicates(lh')
  <2>1. \A x : x \in Range(lh) <=> \E i \in 1 .. Len(lh) : lh[i] = x
    BY RangeIff DEF TypeOK
  <2>2. Len(lh) \in Nat
    BY DEF TypeOK
  <2>3. \A i, j \in 1 .. Len(lh) : lh[i] = lh[j] => i = j
    BY Zenon DEF NoDuplicates, HeaderInv
  <2>4. CASE lh' = lh
    BY Zenon, <2>3, <2>4 DEF NoDuplicates
  <2>5. CASE b \notin Range(lh) /\ Len(lh') = Len(lh) + 1 /\ lh'[Len(lh) + 1] = b
    <3>1. \A i \in 1 .. Len(lh') : i \in 1 .. Len(lh) \/ i = Len(lh) + 1
      BY <2>2, <2>5
    <3>2. \A i \in 1 .. Len(lh) : lh'[i] = lh[i] /\ lh[i] # b
      BY Zenon, <1>2, <2>1, <2>5
    <3> QED
      BY Zenon, <2>3, <2>5, <3>1, <3>2 DEF NoDuplicates
  <2> QED
    BY Zenon, <1>2, <2>4, <2>5
<1>5. TypeOK'
  BY ZenonT(30), <1>1, <1>2 DEF TypeOK, log_write, Pin, Pcs
<1>6. InOp' = InOp
  BY <1>1 DEF InOp, log_write, TypeOK
<1>7. IsFiniteSet(logged[p]) /\ n \in Nat /\ n <= OpBlocks /\ (b \in logged[p] \/ n < OpBlocks)
  BY SMTT(30), <1>1, FS_CardinalityType DEF LoggedInv
<1>8. /\ logged' = [logged EXCEPT ![p] = @ \cup {b}]
      /\ IsFiniteSet(logged[p] \cup {b})
      /\ Cardinality(logged[p] \cup {b}) = IF b \in logged[p] THEN n ELSE n + 1
  BY ZenonT(30), <1>7, FS_AddElement DEF log_write
<1>9. LoggedInv'
  <2> HIDE DEF n
  <2> SUFFICES ASSUME NEW q \in Proc
               PROVE  /\ logged'[q] \subseteq Range(lh')
                      /\ q \notin InOp' => logged'[q] = {}
                      /\ IsFiniteSet(logged'[q]) /\ Cardinality(logged'[q]) <= OpBlocks
                      /\ pc'[q] = "record" =>
                           held'[q] \in logged'[q] \/ Cardinality(logged'[q]) < OpBlocks
    BY ZenonT(30) DEF LoggedInv
  <2>1. CASE q = p
    <3>1. logged'[p] = logged[p] \cup {b} /\ pc'[p] = "op"
      BY Zenon, <1>8 DEF log_write, TypeOK
    <3>2. logged[p] \subseteq Range(lh) /\ p \in InOp'
      BY Zenon, <1>1, <1>6 DEF LoggedInv
    <3>3. Cardinality(logged[p] \cup {b}) <= OpBlocks
      BY <1>7, <1>8, SizeAssumption
    <3> QED
      BY Zenon, <1>3, <1>8, <2>1, <3>1, <3>2, <3>3
  <2>2. CASE q # p
    <3>1. logged'[q] = logged[q] /\ pc'[q] = pc[q] /\ held'[q] = held[q]
      BY <2>2 DEF log_write, TypeOK
    <3> QED BY ZenonT(30), <1>3, <1>6, <3>1 DEF LoggedInv
  <2> QED BY Zenon, <2>1, <2>2
<1>10. BudgetInv'
  <2>1. CASE b \in logged[p]
    <3>1. Reserved' = Reserved
      BY <1>6, <1>8, <2>1 DEF Reserved, TypeOK
    <3>2. lh' = lh
      BY <1>1, <1>2, <2>1 DEF LoggedInv
    <3> QED BY <3>1, <3>2 DEF BudgetInv
  <2>2. CASE b \notin logged[p]
    <3> DEFINE x == <<p, n + 1>>
    <3>1. x \in Reserved
      BY <1>1, <1>7, <2>2, SizeAssumption DEF Reserved
    <3>2. Reserved' = Reserved \ {x}
      <4>1. \A q \in InOp, k \in 1 .. MAXOPBLOCKS :
              <<q, k>> \in Reserved' <=> <<q, k>> \in Reserved /\ <<q, k>> # x
        <5>1. \A q \in InOp, k \in 1 .. MAXOPBLOCKS :
                /\ <<q, k>> \in Reserved <=> k > Cardinality(logged[q])
                /\ <<q, k>> \in Reserved' <=> k > Cardinality(logged'[q])
          BY <1>6 DEF Reserved
        <5>2. \A q \in Proc : q # p => logged'[q] = logged[q]
          BY Zenon, <1>8 DEF TypeOK
        <5>3. Cardinality(logged'[p]) = n + 1
          BY Zenon, <1>8, <2>2 DEF TypeOK
        <5>4. ASSUME NEW q \in InOp, NEW k \in 1 .. MAXOPBLOCKS, q # p
              PROVE  <<q, k>> \in Reserved' <=> <<q, k>> \in Reserved /\ <<q, k>> # x
          <6>1. logged'[q] = logged[q] /\ <<q, k>> # x
            BY Zenon, <5>2, <5>4 DEF InOp
          <6> QED
            BY Zenon, <5>1, <6>1
        <5>5. ASSUME NEW k \in 1 .. MAXOPBLOCKS
              PROVE  <<p, k>> \in Reserved' <=> <<p, k>> \in Reserved /\ <<p, k>> # x
          <6>1. k > n + 1 <=> k > n /\ k # n + 1
            BY <1>7
          <6> QED
            BY Zenon, <1>1, <5>1, <5>3, <6>1
        <5> QED
          BY Zenon, <5>4, <5>5
      <4>2. Reserved' \subseteq InOp \X (1 .. MAXOPBLOCKS) /\ Reserved \subseteq InOp \X (1 .. MAXOPBLOCKS)
        BY <1>6 DEF Reserved
      <4> HIDE DEF x
      <4> QED BY <4>1, <4>2
    <3> HIDE DEF x
    <3>3. Cardinality(Reserved') = Cardinality(Reserved) - 1
      BY Zenon, <3>1, <3>2, ReservedBound, FS_RemoveElement
    <3>4. Len(lh') <= Len(lh) + 1 /\ Len(lh) \in Nat /\ Len(lh') \in Nat
      BY <1>2 DEF TypeOK
    <3>5. Cardinality(Reserved) \in Nat /\ Len(lh) + Cardinality(Reserved) <= LOGSIZE
      BY Zenon, ReservedBound DEF BudgetInv
    <3>6. Len(lh') + (Cardinality(Reserved) - 1) <= LOGSIZE
      BY <3>4, <3>5, SizeAssumption
    <3> QED BY Zenon, <3>3, <3>6 DEF BudgetInv
  <2> QED BY Zenon, <2>1, <2>2
<1>11. HeaderInv'
  <2>1. Len(lh) + 2 <= LOGSIZE
    BY Zenon, <1>1, RoomLeft
  <2>2. Len(lh') <= nlog - 1
    BY <1>2, <2>1, SizeAssumption DEF BudgetFits, TypeOK
  <2> QED BY <1>4, <2>2 DEF HeaderInv, NoDuplicates, log_write
<1>12. CountInv' /\ CommitInv' /\ HeldInv'
  BY <1>1, <1>6 DEF CountInv, CommitInv, CommitPcs, HeldInv, log_write, TypeOK
<1>13. PinInv' /\ BootInv' /\ NoPanic' /\ EmptyHeadInv' /\ CleanIsCoherent'
  <2>1. /\ pinned' = pinned \cup {b} /\ UNCHANGED <<disk, dhead, cache, boot, panicked>>
        /\ \A q \in Proc : held'[q] = IF q = p THEN NoBlock ELSE held[q]
        /\ \A q \in Proc : pc'[q] = IF q = p THEN "op" ELSE pc[q]
    BY Zenon DEF log_write, Pin, TypeOK
  <2>2. PinInv' /\ BootInv' /\ NoPanic'
    BY Zenon, <1>1, <1>3, <2>1 DEF PinInv, BootInv, NoPanic
  <2>3. EmptyHeadInv'
    <3>1. \A q \in Proc : pc[q] \in {"install", "clear"} => pc'[q] = pc[q]
      BY Zenon, <1>1, <2>1
    <3> QED
      BY Zenon, <2>1, <3>1 DEF EmptyHeadInv
  <2>4. CleanIsCoherent'
    <3> SUFFICES ASSUME NEW x \in Blocks, x \notin pinned', \A q \in Proc : held'[q] # x
                 PROVE  cache[x] = disk[x]
      BY Zenon, <2>1 DEF CleanIsCoherent
    <3>1. x # b /\ x \notin pinned
      BY Zenon, <2>1
    <3>2. \A q \in Proc : held[q] # x
      BY Zenon, <2>1, <3>1
    <3> QED
      BY Zenon, <3>1, <3>2 DEF CleanIsCoherent
  <2> QED
    BY Zenon, <2>2, <2>3, <2>4
<1>14. PhaseInv'
  <2>1. \A q \in Proc : pc'[q] \notin CommitPcs
    BY SMTT(30), <1>1 DEF CommitInv, CommitPcs, TypeOK, log_write
  <2> QED BY Zenon, <2>1 DEF PhaseInv, CommitPcs
<1>15. NoMissedWakeup'
  <2>1. Len(lh) <= Len(lh')
    BY <1>2 DEF TypeOK
  <2>2. Len(lh) \in Nat /\ Len(lh') \in Nat /\ outstanding \in Nat
    BY <1>2 DEF TypeOK
  <2>3. outstanding' = outstanding /\ committing' = committing
    BY Zenon DEF log_write
  <2>4. CanBegin' => CanBegin
    BY <2>1, <2>2, <2>3, SizeAssumption DEF CanBegin
  <2>5. \A q \in Proc : pc'[q] = "sleep" => pc[q] = "sleep"
    BY Zenon DEF log_write, TypeOK
  <2> QED
    BY Zenon, <2>4, <2>5 DEF NoMissedWakeup
<1> QED
  BY <1>5, <1>9, <1>10, <1>11, <1>12, <1>13, <1>14, <1>15

(* The end of a call gives its reservation back; the last one commits. *)
LEMMA EndOpInv ==
  ASSUME LogInv, NEW p \in Proc, end_op(p)
  PROVE  LogInv'
<1> USE DEF LogInv
<1>1. p \in InOp /\ pc[p] = "op" /\ boot = "up" /\ ~committing
  BY DEF end_op, InOp, Running, CommitInv
<1>2. \/ /\ outstanding = 1 /\ committing' = TRUE /\ tail' = 0
         /\ pc' = [pc EXCEPT ![p] = CommitStart]
      \/ /\ outstanding # 1 /\ UNCHANGED <<committing, tail>>
         /\ pc' = wakeup([pc EXCEPT ![p] = "user"])
  BY <1>1 DEF end_op
<1>3. CommitStart \in {"finish", "write_log"}
  BY DEF CommitStart
<1>4. InOp' = InOp \ {p}
  BY <1>1, <1>2, <1>3 DEF InOp, wakeup, TypeOK
<1>5. outstanding >= 1 /\ outstanding \in Nat /\ outstanding' = outstanding - 1
  BY <1>1, ReservedBound, FS_EmptySet DEF CountInv, end_op
<1>6. TypeOK'
  <2>1. pc' \in [Proc -> Pcs]
    BY SMTT(20), <1>2, <1>3 DEF TypeOK, Pcs, CommitPcs, wakeup
  <2>2. committing' \in BOOLEAN
    BY <1>2, Zenon DEF TypeOK
  <2>4. tail' \in Nat
    BY <1>2 DEF TypeOK
  <2>3. logged' \in [Proc -> SUBSET Home] /\ outstanding' \in Nat
    BY <1>5 DEF TypeOK, end_op
  <2> QED BY <1>1, <2>1, <2>2, <2>3, <2>4 DEF TypeOK, end_op
<1>7. CountInv'
  BY Zenon, <1>1, <1>4, <1>5, ReservedBound, FS_RemoveElement DEF CountInv
<1>16. /\ logged'[p] = {} /\ lh' = lh /\ held' = held
       /\ \A q \in Proc : q # p => logged'[q] = logged[q]
  BY Zenon DEF end_op, TypeOK
<1>8. LoggedInv' /\ HeldInv'
  <2>1. ASSUME NEW q \in Proc
        PROVE  pc'[q] = "record" <=> pc[q] = "record"
    <3>1. CASE pc' = [pc EXCEPT ![p] = CommitStart]
      BY Zenon, <1>1, <1>3, <3>1 DEF TypeOK
    <3>2. CASE pc' = wakeup([pc EXCEPT ![p] = "user"])
      BY Zenon, <1>1, <3>2 DEF TypeOK, wakeup
    <3> QED
      BY Zenon, <1>2, <3>1, <3>2
  <2>2. HeldInv'
    BY Zenon, <1>16, <2>1 DEF HeldInv
  <2>3. \A q \in Proc : q # p => (q \in InOp' <=> q \in InOp)
    BY Zenon, <1>4
  <2>4. pc'[p] # "record"
    BY Zenon, <1>1, <2>1
  <2>5. LoggedInv'
    BY Zenon, <1>16, <2>1, <2>3, <2>4, EmptyFits DEF LoggedInv
  <2> QED
    BY Zenon, <2>2, <2>5
<1>9. BudgetInv'
  <2>1. Reserved' \subseteq Reserved
    <3>1. InOp' \subseteq InOp /\ \A q \in InOp' : logged'[q] = logged[q]
      BY Zenon, <1>4, <1>16 DEF InOp
    <3> QED
      BY <3>1 DEF Reserved
  <2>2. Cardinality(Reserved') <= Cardinality(Reserved) /\ Cardinality(Reserved') \in Nat
    BY Zenon, <2>1, ReservedBound, FS_Subset, FS_CardinalityType
  <2>3. Cardinality(Reserved) \in Nat /\ Len(lh) + Cardinality(Reserved) <= LOGSIZE
    BY Zenon, ReservedBound DEF BudgetInv
  <2>4. Len(lh) \in Nat
    BY DEF TypeOK
  <2>5. Len(lh) + Cardinality(Reserved') <= LOGSIZE
    BY <2>2, <2>3, <2>4, SizeAssumption
  <2> QED
    BY Zenon, <1>16, <2>5 DEF BudgetInv
<1>10. \A q \in Proc : pc[q] \notin CommitPcs
  BY <1>1 DEF CommitInv
<1>11. CommitInv'
  <2>1. CASE outstanding = 1
    <3>1. InOp' = {}
      <4>1. IsFiniteSet(InOp \ {p}) /\ Cardinality(InOp \ {p}) = 0
        <5>1. Cardinality(InOp) = 1 /\ IsFiniteSet(InOp)
          BY <2>1, ReservedBound DEF CountInv
        <5>2. IsFiniteSet(InOp \ {p}) /\ Cardinality(InOp \ {p}) = 1 - 1
          BY Zenon, <1>1, <5>1, FS_RemoveElement
        <5> QED BY <5>2
      <4> QED BY <1>4, <4>1, FS_EmptySet
    <3> QED BY <1>1, <1>2, <1>3, <1>10, <2>1, <3>1 DEF CommitInv, CommitPcs, TypeOK
  <2>2. CASE outstanding # 1
    BY <1>1, <1>2, <1>10, <2>2 DEF CommitInv, CommitPcs, TypeOK, wakeup
  <2> QED BY <2>1, <2>2
<1>12. dhead = <<>>
  BY SMTT(30), <1>1, <1>10 DEF EmptyHeadInv, CommitPcs
<1>13. PhaseInv'
  <2>1. dhead' = <<>> /\ lh' = lh
    BY Zenon, <1>12, <1>16 DEF end_op
  <2>2. CASE pc' = [pc EXCEPT ![p] = CommitStart] /\ tail' = 0
    <3>1. \A q \in Proc \ {p} : pc'[q] \notin CommitPcs
      BY Zenon, <1>10, <2>2 DEF TypeOK
    <3>2. \/ lh = <<>> /\ pc'[p] = "finish"
          \/ lh # <<>> /\ pc'[p] = "write_log"
      BY Zenon, <2>2 DEF CommitStart, TypeOK
    <3>3. LogCopied(tail)'
      BY <2>2 DEF LogCopied
    <3>4. lh # <<>> => tail' < Len(lh')
      BY <2>1, <2>2 DEF TypeOK
    <3> QED
      BY Zenon, <2>1, <3>1, <3>2, <3>3, <3>4, PhaseFrame
  <2>3. CASE pc' = wakeup([pc EXCEPT ![p] = "user"])
    <3>1. \A q \in Proc : pc'[q] \notin CommitPcs
      BY Zenon, <1>10, <2>3 DEF TypeOK, wakeup, CommitPcs
    <3> QED
      BY Zenon, <3>1 DEF PhaseInv, CommitPcs
  <2> QED
    BY Zenon, <1>2, <2>2, <2>3
<1>14. HeaderInv' /\ PinInv' /\ BootInv' /\ NoPanic' /\ EmptyHeadInv' /\ CleanIsCoherent'
  <2>1. UNCHANGED <<disk, dhead, cache, pinned, lh, held, boot, panicked>>
    BY Zenon, <1>1 DEF end_op
  <2>2. HeaderInv' /\ PinInv' /\ NoPanic'
    BY ZenonT(30), <2>1 DEF HeaderInv, NoDuplicates, PinInv, NoPanic
  <2>3. BootInv' /\ EmptyHeadInv' /\ CleanIsCoherent'
    BY Zenon, <1>1, <1>12, <2>1 DEF BootInv, EmptyHeadInv, CleanIsCoherent
  <2> QED
    BY Zenon, <2>2, <2>3
<1>15. NoMissedWakeup'
  BY SMTT(20), <1>2, <1>3 DEF NoMissedWakeup, CanBegin, wakeup, TypeOK
<1> QED
  BY <1>6, <1>7, <1>8, <1>9, <1>11, <1>13, <1>14, <1>15

(* The steps of commit() happen while no call is in progress, and leave    *)
(* the bookkeeping of calls alone.                                         *)
LEMMA CommitFrame ==
  ASSUME LogInv, NEW p \in Proc, pc[p] \in CommitPcs, NEW next \in CommitPcs \cup {"user"},
         \/ pc' = pc \/ pc' = [pc EXCEPT ![p] = next] \/ pc' = wakeup([pc EXCEPT ![p] = next]),
         UNCHANGED <<held, logged, outstanding>>
  PROVE  /\ InOp = {} /\ InOp' = {} /\ Reserved = {} /\ Reserved' = {}
         /\ committing /\ CountInv' /\ HeldInv' /\ LoggedInv'
         /\ boot = "up"
         /\ \A q \in Proc : held[q] = NoBlock /\ logged[q] = {}
         /\ \A q \in Proc \ {p} : pc[q] \notin CommitPcs /\ pc'[q] \notin CommitPcs
<1> USE DEF LogInv
<1>1. InOp = {} /\ committing
  BY DEF CommitInv
<1>2. InOp' = {}
  BY <1>1 DEF InOp, wakeup, TypeOK, CommitPcs
<1>3. Reserved = {} /\ Reserved' = {}
  BY <1>1, <1>2 DEF Reserved
<1>4. CountInv'
  BY <1>1, <1>2 DEF CountInv
<1>5. HeldInv'
  BY DEF HeldInv, TypeOK, wakeup, CommitPcs
<1>6. boot = "up"
  BY DEF BootInv, CommitPcs
<1>7. \A q \in Proc : held[q] = NoBlock /\ logged[q] = {}
  BY <1>1 DEF HeldInv, LoggedInv, InOp
<1>8. \A q \in Proc \ {p} : pc[q] \notin CommitPcs /\ pc'[q] \notin CommitPcs
  BY SMTT(20) DEF CommitInv, TypeOK, wakeup, CommitPcs
<1>9. LoggedInv'
  BY ZenonT(30), <1>2, <1>7, FS_EmptySet, SizeAssumption DEF LoggedInv, InOp
<1> QED
  BY Zenon, <1>1, <1>2, <1>3, <1>4, <1>5, <1>6, <1>7, <1>8, <1>9

(* write_log fills the log one block further. *)
LEMMA WriteLogInv ==
  ASSUME LogInv, NEW p \in Proc, write_log(p)
  PROVE  LogInv'
<1> USE DEF LogInv
<1> DEFINE t == tail + 1
<1>1. pc[p] = "write_log" /\ tail < Len(lh) /\ LogCopied(tail) /\ dhead = <<>>
  BY DEF write_log, PhaseInv
<1>2. /\ t \in 1 .. Len(lh) /\ t \in Blocks /\ t < nlog /\ t \notin Home /\ t \notin pinned
      /\ \A i \in 1 .. Len(lh) : lh[i] \in Home /\ lh[i] \in Blocks /\ lh[i] # t
  <2>1. t \in 1 .. Len(lh)
    BY <1>1, HeaderBlocks
  <2>2. pinned \subseteq Home
    BY Zenon DEF TypeOK
  <2> HIDE DEF t
  <2> QED
    BY Zenon, <2>1, <2>2, HeaderBlocks
<1>3. /\ cache' = [cache EXCEPT ![t] = cache[lh[t]]]
      /\ disk' = [disk EXCEPT ![t] = cache[lh[t]]]
      /\ tail' = t
      /\ pc' = IF t = Len(lh) THEN [pc EXCEPT ![p] = "write_head"] ELSE pc
  BY DEF write_log
<1>4. UNCHANGED <<dhead, pinned, lh, outstanding, committing, held, logged, boot, panicked>>
  BY DEF write_log
<1>5. /\ InOp = {} /\ InOp' = {} /\ Reserved = {} /\ Reserved' = {}
      /\ committing /\ CountInv' /\ HeldInv' /\ LoggedInv' /\ boot = "up"
      /\ \A q \in Proc : held[q] = NoBlock /\ logged[q] = {}
      /\ \A q \in Proc \ {p} : pc[q] \notin CommitPcs /\ pc'[q] \notin CommitPcs
  BY Zenon, <1>1, <1>3, <1>4, CommitFrame DEF CommitPcs
<1> HIDE DEF t
<1>6. TypeOK'
  <2>1. cache' \in [Blocks -> Val] /\ disk' \in [Blocks -> Val]
    BY Zenon, <1>2, <1>3 DEF TypeOK
  <2>2. pc' \in [Proc -> Pcs]
    BY ZenonT(30), <1>3 DEF TypeOK, Pcs, CommitPcs
  <2>3. tail' \in Nat
    BY SMTT(30), <1>3 DEF TypeOK, t
  <2> QED BY <1>4, <2>1, <2>2, <2>3 DEF TypeOK
<1>7. CommitInv'
  <2>1. pc'[p] \in CommitPcs
    BY Zenon, <1>1, <1>3 DEF CommitPcs, TypeOK
  <2> QED
    BY Zenon, <1>4, <1>5, <2>1 DEF CommitInv
<1>8. BudgetInv' /\ HeaderInv' /\ PinInv' /\ NoPanic'
  BY ZenonT(30), <1>4, <1>5 DEF BudgetInv, HeaderInv, NoDuplicates, PinInv, NoPanic
<1>9. EmptyHeadInv' /\ BootInv'
  BY ZenonT(30), <1>1, <1>4, <1>5 DEF EmptyHeadInv, BootInv
<1>10. CleanIsCoherent'
  BY SMTT(20), <1>2, <1>3, <1>4 DEF CleanIsCoherent, TypeOK
<1>11. NoMissedWakeup'
  BY Zenon, <1>4, <1>5 DEF NoMissedWakeup, CanBegin
<1>12. (LogCopied(tail))'
  <2> SUFFICES ASSUME NEW i \in 1 .. t PROVE disk'[i] = cache'[lh[i]]
    BY <1>3, <1>4 DEF LogCopied
  <2>1. i = t \/ i \in 1 .. tail
    BY DEF t, TypeOK
  <2>2. i \in 1 .. Len(lh) /\ i \in Blocks
    BY SMTT(30), <1>2, SizeAssumption DEF Blocks, TypeOK, t
  <2> QED BY SMTT(20), <1>1, <1>2, <1>3, <2>1, <2>2 DEF LogCopied, TypeOK
<1>13. PhaseInv'
  <2>1. pc'[p] = IF t = Len(lh) THEN "write_head" ELSE "write_log"
    BY Zenon, <1>1, <1>3 DEF TypeOK
  <2>2. lh # <<>>
    BY <1>2
  <2>3. CASE t = Len(lh)
    <3>1. LogCopied(Len(lh))'
      BY Zenon, <1>3, <1>4, <1>12, <2>3 DEF LogCopied
    <3> QED
      BY Zenon, <1>1, <1>4, <1>5, <2>1, <2>2, <2>3, <3>1, PhaseFrame
  <2>4. CASE t # Len(lh)
    <3>1. tail' < Len(lh')
      <4>1. Len(lh) \in Nat
        BY DEF TypeOK
      <4> QED
        BY <1>2, <1>3, <1>4, <2>4, <4>1
    <3> QED
      BY Zenon, <1>1, <1>4, <1>5, <1>12, <2>1, <2>4, <3>1, PhaseFrame
  <2> QED
    BY Zenon, <2>3, <2>4
<1> QED
  BY Zenon, <1>5, <1>6, <1>7, <1>8, <1>9, <1>10, <1>11, <1>13

(* write_head puts the whole header on the disk. *)
LEMMA WriteHeadInv ==
  ASSUME LogInv, NEW p \in Proc, write_head(p)
  PROVE  LogInv'
<1> USE DEF LogInv
<1>1. /\ pc[p] = "write_head" /\ pc' = [pc EXCEPT ![p] = "install"] /\ dhead' = lh /\ tail' = 0
      /\ UNCHANGED <<disk, cache, pinned, lh, outstanding, committing, held, logged, boot, panicked>>
  BY DEF write_head
<1>2. /\ InOp = {} /\ InOp' = {} /\ Reserved = {} /\ Reserved' = {}
      /\ committing /\ CountInv' /\ HeldInv' /\ LoggedInv' /\ boot = "up"
      /\ \A q \in Proc : held[q] = NoBlock /\ logged[q] = {}
      /\ \A q \in Proc \ {p} : pc[q] \notin CommitPcs /\ pc'[q] \notin CommitPcs
  BY Zenon, <1>1, CommitFrame DEF CommitPcs
<1>3. TypeOK' /\ CommitInv'
  BY ZenonT(30), <1>1, <1>2 DEF TypeOK, CommitInv, Pcs, CommitPcs
<1>4. BudgetInv' /\ HeaderInv' /\ PinInv' /\ NoPanic' /\ BootInv'
  <2>1. Cardinality(Reserved) = 0
    BY Zenon, <1>2, FS_EmptySet
  <2>2. Len(lh) \in Nat
    BY DEF TypeOK
  <2>3. Len(lh) <= LOGSIZE
    BY <2>1, <2>2 DEF BudgetInv
  <2>4. HeaderInv'
    BY ZenonT(30), <1>1, <2>3 DEF HeaderInv, NoDuplicates
  <2>5. BudgetInv' /\ PinInv' /\ NoPanic' /\ BootInv'
    BY Zenon, <1>1, <1>2 DEF BudgetInv, PinInv, NoPanic, BootInv
  <2> QED
    BY Zenon, <2>4, <2>5
<1>5. EmptyHeadInv' /\ CleanIsCoherent' /\ NoMissedWakeup'
  BY ZenonT(30), <1>1, <1>2 DEF EmptyHeadInv, CleanIsCoherent, NoMissedWakeup, CanBegin, TypeOK
<1>6. PhaseInv'
  <2>1. LogCopied(Len(lh)) /\ lh # <<>>
    BY Zenon, <1>1 DEF PhaseInv
  <2>2. LogCopied(Len(lh))'
    BY Zenon, <1>1, <2>1 DEF LogCopied
  <2>3. Installed(tail)' /\ \A i \in 1 .. tail' : lh'[i] \notin pinned'
    BY <1>1 DEF Installed
  <2>4. tail' < Len(lh')
    BY <1>1, <2>1 DEF TypeOK
  <2>5. pc'[p] = "install"
    BY Zenon, <1>1 DEF TypeOK
  <2> QED
    BY Zenon, <1>1, <1>2, <2>2, <2>3, <2>4, <2>5, PhaseFrame
<1> QED
  BY Zenon, <1>2, <1>3, <1>4, <1>5, <1>6

(* Copying log block t to its home block: the log itself is untouched, one *)
(* more block is installed, and nothing else changes.                      *)
LEMMA InstallBlockFacts ==
  ASSUME TypeOK, HeaderInv, tail < Len(lh), Installed(tail), InstallBlock, UNCHANGED lh,
         \A b \in Blocks : b \notin Home => cache[b] = disk[b]
  PROVE  /\ tail + 1 \in 1 .. Len(lh) /\ tail + 1 \in Blocks /\ lh[tail + 1] \in Home
         /\ \A i \in 1 .. Len(lh) : i \in Blocks /\ i \notin Home /\ lh[i] \in Blocks
         /\ disk' = [disk EXCEPT ![lh[tail + 1]] = disk[tail + 1]]
         /\ cache' = [cache EXCEPT ![lh[tail + 1]] = disk[tail + 1]]
         /\ disk' \in [Blocks -> Val] /\ cache' \in [Blocks -> Val]
         /\ tail' = tail + 1 /\ tail' \in Nat
         /\ Installed(tail)'
<1> DEFINE t == tail + 1
           h == lh[t]
<1>1. /\ t \in 1 .. Len(lh) /\ t \in Nat /\ h \in Home
      /\ \A i \in 1 .. Len(lh) : i \in Blocks /\ i \notin Home /\ lh[i] \in Blocks /\ lh[i] \in Home
  <2>1. tail \in Nat /\ Len(lh) \in Nat
    BY Zenon, HeaderBlocks
  <2>2. t \in 1 .. Len(lh) /\ t \in Nat
    BY <2>1
  <2> HIDE DEF t
  <2> QED BY Zenon, <2>2, HeaderBlocks
<1>2. /\ disk' = [disk EXCEPT ![h] = disk[t]] /\ cache' = [cache EXCEPT ![h] = disk[t]]
      /\ tail' = t
  BY Zenon, <1>1 DEF InstallBlock
<1>3. disk' \in [Blocks -> Val] /\ cache' \in [Blocks -> Val]
  BY ZenonT(30), <1>1, <1>2 DEF TypeOK
<1>4. Installed(tail)'
  <2> SUFFICES ASSUME NEW i \in 1 .. t PROVE disk'[lh[i]] = disk'[i]
    BY <1>2 DEF Installed
  <2>1. i \in 1 .. Len(lh) /\ (i = t \/ (i \in 1 .. tail /\ i # t))
    BY <1>1 DEF TypeOK
  <2>2. i # h /\ t # h /\ (i # t => lh[i] # h)
    BY ZenonT(30), <1>1, <2>1 DEF HeaderInv, NoDuplicates
  <2> HIDE DEF t, h
  <2>3. disk'[i] = disk[i]
    BY ZenonT(30), <1>1, <1>2, <2>1, <2>2 DEF TypeOK
  <2>4. CASE i = t
    BY ZenonT(30), <1>1, <1>2, <2>1, <2>2, <2>3, <2>4 DEF TypeOK, h
  <2>5. CASE i \in 1 .. tail /\ i # t
    BY SMTT(30), <1>1, <1>2, <2>1, <2>2, <2>3, <2>5 DEF TypeOK, Installed
  <2> QED BY <2>1, <2>4, <2>5
<1> QED
  BY ZenonT(30), <1>1, <1>2, <1>3, <1>4

(* install_trans brings one more block home. *)
LEMMA InstallTransInv ==
  ASSUME LogInv, NEW p \in Proc, install_trans(p)
  PROVE  LogInv'
<1> USE DEF LogInv
<1>1. /\ pc[p] = "install" /\ InstallBlock
      /\ pc' = IF tail + 1 = Len(lh) THEN [pc EXCEPT ![p] = "clear"] ELSE pc
      /\ UNCHANGED <<dhead, lh, outstanding, committing, held, logged, boot, panicked>>
  BY DEF install_trans
<1>2. /\ tail < Len(lh) /\ LogCopied(Len(lh)) /\ dhead = lh /\ Installed(tail)
      /\ \A i \in 1 .. tail : lh[i] \notin pinned
  BY <1>1 DEF PhaseInv
<1>3. /\ InOp = {} /\ InOp' = {} /\ Reserved = {} /\ Reserved' = {}
      /\ committing /\ CountInv' /\ HeldInv' /\ LoggedInv' /\ boot = "up"
      /\ \A q \in Proc : held[q] = NoBlock /\ logged[q] = {}
      /\ \A q \in Proc \ {p} : pc[q] \notin CommitPcs /\ pc'[q] \notin CommitPcs
  BY Zenon, <1>1, CommitFrame DEF CommitPcs
<1>4. \A b \in Blocks : b \notin pinned => cache[b] = disk[b]
  <2>1. NoBlock \notin Blocks
    BY NoBlockAssumption, SizeAssumption DEF Blocks
  <2> QED
    BY ZenonT(30), <1>3, <2>1 DEF CleanIsCoherent
<1>5. \A b \in Blocks : b \notin Home => cache[b] = disk[b]
  BY SMTT(20), <1>4 DEF TypeOK
<1> DEFINE t == tail + 1
           h == lh[t]
<1>6. /\ t \in 1 .. Len(lh) /\ t \in Blocks /\ h \in Home
      /\ \A i \in 1 .. Len(lh) : i \in Blocks /\ i \notin Home /\ lh[i] \in Blocks
      /\ disk' = [disk EXCEPT ![h] = disk[t]] /\ cache' = [cache EXCEPT ![h] = disk[t]]
      /\ disk' \in [Blocks -> Val] /\ cache' \in [Blocks -> Val]
      /\ tail' = t /\ tail' \in Nat /\ Installed(tail)'
  BY ZenonT(30), <1>1, <1>2, <1>5, InstallBlockFacts
<1>7. pinned' = pinned \ {h}
  BY <1>1 DEF InstallBlock
<1>8. t = tail + 1
  OBVIOUS
<1> HIDE DEF t
<1>9. TypeOK'
  <2>1. pc' \in [Proc -> Pcs]
    BY SMTT(20), <1>1 DEF TypeOK, Pcs, CommitPcs
  <2> QED BY Zenon, <1>1, <1>6, <1>7, <2>1 DEF TypeOK
<1>10. CommitInv'
  BY ZenonT(30), <1>1, <1>3 DEF CommitInv, CommitPcs, TypeOK
<1>11. BudgetInv' /\ HeaderInv' /\ PinInv' /\ NoPanic'
  BY ZenonT(30), <1>1, <1>3, <1>7 DEF BudgetInv, HeaderInv, NoDuplicates, PinInv, NoPanic
<1>12. pc'[p] = IF t = Len(lh) THEN "clear" ELSE "install"
  BY ZenonT(30), <1>1, <1>8 DEF TypeOK
<1>13. EmptyHeadInv' /\ BootInv' /\ NoMissedWakeup'
  BY ZenonT(30), <1>1, <1>3, <1>12 DEF EmptyHeadInv, BootInv, NoMissedWakeup, CanBegin
<1>14. CleanIsCoherent'
  BY ZenonT(30), <1>1, <1>4, <1>3, <1>6, <1>7 DEF CleanIsCoherent, TypeOK
<1>15. LogCopied(Len(lh))'
  <2> SUFFICES ASSUME NEW i \in 1 .. Len(lh) PROVE disk'[i] = cache'[lh[i]]
    BY ZenonT(30), <1>1 DEF LogCopied
  <2>1. disk'[i] = disk[i]
    BY SMTT(20), <1>6 DEF TypeOK
  <2>2. cache'[lh[i]] = cache[lh[i]]
    <3>1. cache[h] = disk[t]
      BY <1>2, <1>6 DEF LogCopied
    <3> QED BY ZenonT(30), <1>6, <3>1 DEF TypeOK
  <2> QED BY ZenonT(30), <1>2, <2>1, <2>2 DEF LogCopied
<1>16. \A i \in 1 .. t : lh[i] \notin pinned'
  BY <1>2, <1>7, <1>8 DEF TypeOK
<1>17. t = Len(lh) => pinned' = {}
  <2>1. \A b : b \in Range(lh) <=> \E i \in 1 .. Len(lh) : lh[i] = b
    BY SMTT(30), RangeIff DEF TypeOK
  <2> QED BY <1>1, <1>11, <1>16, <2>1 DEF PinInv
<1>18. PhaseInv'
  <2>1. CASE t = Len(lh)
    <3>1. Installed(Len(lh))'
      BY Zenon, <1>1, <1>6, <2>1 DEF Installed
    <3>2. dhead' = lh' /\ pinned' = {} /\ pc'[p] = "clear"
      BY Zenon, <1>1, <1>2, <1>12, <1>17, <2>1
    <3> QED
      BY Zenon, <1>3, <1>15, <3>1, <3>2, PhaseFrame
  <2>2. CASE t # Len(lh)
    <3>1. tail' < Len(lh')
      <4>1. Len(lh) \in Nat
        BY DEF TypeOK
      <4> QED
        BY <1>1, <1>6, <2>2, <4>1
    <3>2. dhead' = lh' /\ \A i \in 1 .. tail' : lh'[i] \notin pinned'
      BY Zenon, <1>1, <1>2, <1>6, <1>16
    <3> QED
      BY Zenon, <1>3, <1>6, <1>12, <1>15, <2>2, <3>1, <3>2, PhaseFrame
  <2> QED
    BY Zenon, <2>1, <2>2
<1> QED
  BY ZenonT(30), <1>3, <1>9, <1>10, <1>11, <1>13, <1>14, <1>18

(* Once all blocks are home the transaction may be erased. *)
LEMMA ClearLogInv ==
  ASSUME LogInv, NEW p \in Proc, clear_log(p)
  PROVE  LogInv'
<1> USE DEF LogInv
<1>1. /\ pc[p] = "clear" /\ pc' = [pc EXCEPT ![p] = "finish"] /\ lh' = <<>> /\ dhead' = <<>>
      /\ UNCHANGED <<disk, cache, pinned, outstanding, committing, tail, held, logged, boot, panicked>>
  BY SMTT(30) DEF clear_log
<1>2. /\ InOp = {} /\ InOp' = {} /\ Reserved = {} /\ Reserved' = {}
      /\ committing /\ CountInv' /\ HeldInv' /\ LoggedInv' /\ boot = "up"
      /\ \A q \in Proc : held[q] = NoBlock /\ logged[q] = {}
      /\ \A q \in Proc \ {p} : pc[q] \notin CommitPcs /\ pc'[q] \notin CommitPcs
  BY Zenon, <1>1, CommitFrame DEF CommitPcs
<1>3. TypeOK' /\ CommitInv'
  <2>1. pc'[p] = "finish" /\ pc' \in [Proc -> Pcs]
    BY Zenon, <1>1 DEF TypeOK, Pcs, CommitPcs
  <2>2. TypeOK'
    BY Zenon, <1>1, <2>1, EmptyHeader DEF TypeOK
  <2>3. CommitInv'
    BY ZenonT(30), <1>1, <1>2, <2>1 DEF CommitInv, CommitPcs
  <2> QED
    BY Zenon, <2>2, <2>3
<1>4. pinned = {}
  BY ZenonT(30), <1>1 DEF PhaseInv
<1>5. BudgetInv'
  <2>1. Len(lh') = 0 /\ Cardinality(Reserved') = 0
    BY Zenon, <1>1, <1>2, FS_EmptySet
  <2> QED
    BY <2>1, SizeAssumption DEF BudgetInv
<1>6. HeaderInv' /\ PinInv' /\ NoPanic' /\ BootInv' /\ EmptyHeadInv'
  <2>1. HeaderInv'
    BY Zenon, <1>1, EmptyHeader DEF HeaderInv
  <2>2. PinInv' /\ NoPanic'
    BY <1>1, <1>4 DEF PinInv, NoPanic
  <2>3. BootInv' /\ EmptyHeadInv'
    BY Zenon, <1>1, <1>2 DEF BootInv, EmptyHeadInv
  <2> QED
    BY <2>1, <2>2, <2>3
<1>7. CleanIsCoherent' /\ NoMissedWakeup'
  BY ZenonT(30), <1>1, <1>2 DEF CleanIsCoherent, NoMissedWakeup, CanBegin, TypeOK
<1>8. PhaseInv'
  BY ZenonT(30), <1>1, <1>2 DEF PhaseInv, CommitPcs, TypeOK
<1> QED
  BY Zenon, <1>2, <1>3, <1>5, <1>6, <1>7, <1>8

(* The end of a commit lets new calls in, and wakes those that wait. *)
LEMMA EndCommitInv ==
  ASSUME LogInv, NEW p \in Proc, end_commit(p)
  PROVE  LogInv'
<1> USE DEF LogInv
<1>1. /\ pc[p] = "finish" /\ pc' = wakeup([pc EXCEPT ![p] = "user"]) /\ committing' = FALSE
      /\ UNCHANGED <<disk, dhead, cache, pinned, lh, outstanding, tail, held, logged, boot, panicked>>
  BY DEF end_commit
<1>2. /\ InOp = {} /\ InOp' = {} /\ Reserved = {} /\ Reserved' = {}
      /\ committing /\ CountInv' /\ HeldInv' /\ LoggedInv' /\ boot = "up"
      /\ \A q \in Proc : held[q] = NoBlock /\ logged[q] = {}
      /\ \A q \in Proc \ {p} : pc[q] \notin CommitPcs /\ pc'[q] \notin CommitPcs
  BY Zenon, <1>1, CommitFrame DEF CommitPcs
<1>3. pc'[p] = "user" /\ pc' \in [Proc -> Pcs]
  BY ZenonT(30), <1>1 DEF wakeup, TypeOK, Pcs
<1>4. TypeOK' /\ CommitInv'
  BY Zenon, <1>1, <1>2, <1>3 DEF TypeOK, CommitInv, CommitPcs
<1>5. BudgetInv' /\ HeaderInv' /\ PinInv' /\ NoPanic' /\ BootInv' /\ CleanIsCoherent'
  <2>1. BudgetInv' /\ HeaderInv' /\ PinInv' /\ NoPanic'
    BY ZenonT(30), <1>1, <1>2 DEF BudgetInv, HeaderInv, NoDuplicates, PinInv, NoPanic
  <2>2. BootInv' /\ CleanIsCoherent'
    BY Zenon, <1>1, <1>2 DEF BootInv, CleanIsCoherent
  <2> QED
    BY <2>1, <2>2
<1>6. EmptyHeadInv' /\ PhaseInv'
  BY Zenon, <1>1, <1>2, <1>3 DEF EmptyHeadInv, PhaseInv, CommitPcs
<1>7. NoMissedWakeup'
  BY ZenonT(30), <1>1 DEF NoMissedWakeup, wakeup, TypeOK
<1> QED
  BY ZenonT(30), <1>2, <1>4, <1>5, <1>6, <1>7

(* Nothing in the invariant depends on anything but the variables. *)
LEMMA StutterInv == LogInv /\ UNCHANGED vars => LogInv'
<1> SUFFICES ASSUME LogInv, UNCHANGED vars PROVE LogInv'
  OBVIOUS
<1>1. /\ disk' = disk /\ dhead' = dhead /\ cache' = cache /\ pinned' = pinned
      /\ lh' = lh /\ outstanding' = outstanding /\ committing' = committing /\ tail' = tail
      /\ pc' = pc /\ held' = held /\ logged' = logged /\ boot' = boot /\ panicked' = panicked
  BY DEF vars, diskVars, logVars, opVars
<1>2. InOp' = InOp /\ Reserved' = Reserved
  BY ZenonT(30), <1>1 DEF InOp, Reserved
<1>3. TypeOK' /\ NoPanic'
  BY ZenonT(30), <1>1 DEF LogInv, TypeOK, NoPanic
<1>4. CountInv' /\ CommitInv'
  BY ZenonT(30), <1>1, <1>2 DEF LogInv, CountInv, CommitInv
<1>5. HeldInv' /\ LoggedInv'
  BY ZenonT(30), <1>1, <1>2 DEF LogInv, HeldInv, LoggedInv
<1>6. BudgetInv'
  BY SMTT(30), <1>1, <1>2 DEF LogInv, BudgetInv
<1>7. HeaderInv' /\ EmptyHeadInv' /\ PinInv'
  BY SMTT(30), <1>1 DEF LogInv, HeaderInv, NoDuplicates, EmptyHeadInv, PinInv
<1>8. PhaseInv'
  BY ZenonT(30), <1>1 DEF LogInv, PhaseInv, LogCopied, Installed
<1>9. BootInv'
  BY ZenonT(30), <1>1 DEF LogInv, BootInv, Installed
<1>10. CleanIsCoherent' /\ NoMissedWakeup'
  BY Zenon, <1>1 DEF LogInv, CleanIsCoherent, NoMissedWakeup, CanBegin
<1> QED
  BY ZenonT(30), <1>3, <1>4, <1>5, <1>6, <1>7, <1>8, <1>9, <1>10 DEF LogInv

(* Recycling a clean buffer is invisible: it equals its disk block. *)
LEMMA RecycleInv ==
  ASSUME LogInv, NEW b \in Blocks, bget_recycle(b)
  PROVE  LogInv' /\ cache' = cache
<1>1. cache' = cache
  BY ZenonT(30) DEF LogInv, CleanIsCoherent, bget_recycle, TypeOK
<1>2. UNCHANGED vars
  BY ZenonT(30), <1>1 DEF bget_recycle, vars
<1> QED
  BY <1>1, <1>2, StutterInv

(* A crash leaves what recovery needs: the disk. *)
LEMMA CrashInv == LogInv /\ Crash => LogInv'
<1> SUFFICES ASSUME LogInv, Crash PROVE LogInv'
  OBVIOUS
<1> USE DEF LogInv, Crash
<1>1. TypeOK'
  <2>1. pc' \in [Proc -> Pcs] /\ held' \in [Proc -> Home \cup {NoBlock}]
    BY DEF Pcs
  <2>2. logged' \in [Proc -> SUBSET Home] /\ lh' \in Seq(Home)
    OBVIOUS
  <2> QED BY Zenon, <2>1, <2>2 DEF TypeOK
<1>2. InOp' = {} /\ Reserved' = {}
  BY ZenonT(30) DEF InOp, Reserved
<1>3. CountInv' /\ BudgetInv'
  <2>1. CountInv'
    BY Zenon, <1>2, FS_EmptySet DEF CountInv
  <2>2. BudgetInv'
    BY Zenon, <1>2, EmptyHeader, EmptyBudget
  <2> QED
    BY Zenon, <2>1, <2>2
<1>4. LoggedInv'
  <2>1. \A q \in Proc : logged'[q] = {} /\ pc'[q] = "user"
    BY Zenon
  <2> QED
    BY Zenon, <2>1, EmptyFits DEF LoggedInv
<1>5. CommitInv' /\ HeldInv' /\ HeaderInv'
  <2>1. CommitInv' /\ HeldInv'
    BY Zenon, <1>2 DEF CommitInv, HeldInv, CommitPcs
  <2>2. HeaderInv'
    BY Zenon, EmptyHeader DEF HeaderInv
  <2> QED
    BY Zenon, <2>1, <2>2
<1>6. PhaseInv' /\ EmptyHeadInv' /\ PinInv' /\ BootInv' /\ CleanIsCoherent'
  BY ZenonT(30) DEF PhaseInv, EmptyHeadInv, PinInv, BootInv, CleanIsCoherent
<1>7. NoMissedWakeup' /\ NoPanic'
  BY DEF NoMissedWakeup, NoPanic
<1> QED
  BY ZenonT(30), <1>1, <1>3, <1>4, <1>5, <1>6, <1>7

(* While the machine boots nobody runs calls, so only the header, the log  *)
(* index and the home blocks can matter.                                   *)
LEMMA BootFrame ==
  ASSUME LogInv, boot # "up",
         UNCHANGED <<outstanding, committing, pc, held, logged, panicked>>
  PROVE  /\ InOp' = {} /\ Reserved' = {} /\ pinned = {} /\ cache = disk
         /\ CountInv' /\ CommitInv' /\ HeldInv' /\ LoggedInv' /\ PhaseInv'
         /\ NoMissedWakeup' /\ NoPanic'
<1> USE DEF LogInv
<1>1. \A p \in Proc : pc[p] = "user" /\ pc'[p] = "user"
  BY DEF BootInv
<1>2. InOp = {} /\ InOp' = {} /\ Reserved' = {}
  BY ZenonT(30), <1>1 DEF InOp, Reserved
<1>3. CountInv' /\ CommitInv' /\ HeldInv' /\ NoPanic'
  BY ZenonT(30), <1>1, <1>2 DEF CountInv, CommitInv, CommitPcs, HeldInv, NoPanic
<1>4. LoggedInv'
  <2>1. \A p \in Proc : logged'[p] = {}
    BY ZenonT(30), <1>2 DEF LoggedInv
  <2> QED BY ZenonT(30), <1>1, <2>1, FS_EmptySet, SizeAssumption DEF LoggedInv
<1>5. PhaseInv' /\ NoMissedWakeup'
  BY ZenonT(30), <1>1 DEF PhaseInv, NoMissedWakeup
<1> QED
  BY ZenonT(30), <1>2, <1>3, <1>4, <1>5 DEF BootInv

(* Recovery starts from the header on the disk. *)
LEMMA ReadHeadInv == LogInv /\ read_head => LogInv'
<1> SUFFICES ASSUME LogInv, read_head PROVE LogInv'
  OBVIOUS
<1> USE DEF LogInv, read_head
<1>1. /\ InOp' = {} /\ Reserved' = {} /\ pinned = {} /\ cache = disk
      /\ CountInv' /\ CommitInv' /\ HeldInv' /\ LoggedInv' /\ PhaseInv'
      /\ NoMissedWakeup' /\ NoPanic'
  BY ZenonT(30), BootFrame
<1>2. TypeOK'
  BY ZenonT(30) DEF TypeOK
<1>3. BudgetInv' /\ HeaderInv'
  <2>1. HeaderInv'
    BY Zenon DEF HeaderInv
  <2>2. Len(dhead) \in Nat /\ Len(dhead) <= LOGSIZE
    BY DEF TypeOK, HeaderInv
  <2>3. BudgetInv'
    BY Zenon, <1>1, <2>2, EmptyBudget
  <2> QED
    BY Zenon, <2>1, <2>3
<1>4. EmptyHeadInv' /\ PinInv' /\ CleanIsCoherent'
  BY ZenonT(30), <1>1 DEF EmptyHeadInv, PinInv, CleanIsCoherent
<1>5. BootInv'
  <2>1. Installed(tail)'
    BY DEF Installed
  <2>2. 0 <= Len(dhead)
    BY DEF TypeOK
  <2> QED
    BY Zenon, <2>1, <2>2 DEF BootInv
<1> QED
  BY ZenonT(30), <1>1, <1>2, <1>3, <1>4, <1>5

(* Recovery installs as commit does. *)
LEMMA RecoverInstallInv == LogInv /\ recover_install => LogInv'
<1> SUFFICES ASSUME LogInv, recover_install PROVE LogInv'
  OBVIOUS
<1> USE DEF LogInv
<1>1. /\ boot = "install" /\ tail < Len(lh) /\ InstallBlock
      /\ UNCHANGED <<dhead, lh, outstanding, committing, pc, held, logged, boot, panicked>>
  BY DEF recover_install
<1>2. /\ InOp' = {} /\ Reserved' = {} /\ pinned = {} /\ cache = disk
      /\ CountInv' /\ CommitInv' /\ HeldInv' /\ LoggedInv' /\ PhaseInv'
      /\ NoMissedWakeup' /\ NoPanic'
  BY ZenonT(30), <1>1, BootFrame
<1>3. Installed(tail) /\ lh = dhead
  BY SMTT(30), <1>1 DEF BootInv
<1>4. /\ tail + 1 \in 1 .. Len(lh) /\ lh[tail + 1] \in Home
      /\ disk' = [disk EXCEPT ![lh[tail + 1]] = disk[tail + 1]]
      /\ cache' = [cache EXCEPT ![lh[tail + 1]] = disk[tail + 1]]
      /\ disk' \in [Blocks -> Val] /\ cache' \in [Blocks -> Val]
      /\ tail' = tail + 1 /\ tail' \in Nat
      /\ Installed(tail)'
  BY ZenonT(30), <1>1, <1>2, <1>3, InstallBlockFacts
<1>5. pinned' = {} /\ cache' = disk'
  BY ZenonT(30), <1>1, <1>2, <1>4 DEF InstallBlock
<1>6. TypeOK'
  BY ZenonT(30), <1>1, <1>4, <1>5 DEF TypeOK
<1>7. BudgetInv' /\ HeaderInv'
  <2>1. HeaderInv'
    BY Zenon, <1>1 DEF HeaderInv
  <2>2. Len(dhead) \in Nat /\ Len(dhead) <= LOGSIZE
    BY DEF TypeOK, HeaderInv
  <2>3. BudgetInv'
    BY Zenon, <1>1, <1>2, <1>3, <2>2, EmptyBudget
  <2> QED
    BY Zenon, <2>1, <2>3
<1>8. EmptyHeadInv' /\ PinInv' /\ CleanIsCoherent'
  BY ZenonT(30), <1>1, <1>5 DEF EmptyHeadInv, PinInv, CleanIsCoherent
<1>9. BootInv'
  <2>1. tail' <= Len(lh')
    BY <1>1, <1>4
  <2>2. \A q \in Proc : pc'[q] = "user"
    BY Zenon, <1>1 DEF BootInv
  <2> QED
    BY Zenon, <1>1, <1>2, <1>3, <1>4, <1>5, <2>1, <2>2 DEF BootInv, NoPanic
<1> QED
  BY ZenonT(30), <1>2, <1>6, <1>7, <1>8, <1>9

(* The end of recovery: a coherent cache and an empty log. *)
LEMMA RecoverClearInv == LogInv /\ recover_clear => LogInv'
<1> SUFFICES ASSUME LogInv, recover_clear PROVE LogInv'
  OBVIOUS
<1> USE DEF LogInv, recover_clear
<1>1. /\ InOp' = {} /\ Reserved' = {} /\ pinned = {} /\ cache = disk
      /\ CountInv' /\ CommitInv' /\ HeldInv' /\ LoggedInv' /\ PhaseInv'
      /\ NoMissedWakeup' /\ NoPanic'
  BY ZenonT(30), BootFrame
<1>2. TypeOK'
  BY Zenon, EmptyHeader DEF TypeOK
<1>3. BudgetInv' /\ HeaderInv'
  <2>1. BudgetInv'
    BY Zenon, <1>1, EmptyHeader, EmptyBudget
  <2>2. HeaderInv'
    BY Zenon, EmptyHeader DEF HeaderInv
  <2> QED
    BY Zenon, <2>1, <2>2
<1>4. EmptyHeadInv' /\ PinInv' /\ CleanIsCoherent' /\ BootInv'
  BY ZenonT(30), <1>1 DEF EmptyHeadInv, PinInv, CleanIsCoherent, BootInv
<1> QED
  BY ZenonT(30), <1>1, <1>2, <1>3, <1>4

(* Every step of log.c preserves the invariant. *)
LEMMA NextInv == BudgetFits /\ LogInv /\ [Next]_vars => LogInv'
<1> SUFFICES ASSUME BudgetFits, LogInv, [Next]_vars PROVE LogInv'
  OBVIOUS
<1>1. CASE \E p \in Proc : Step(p)
  BY ZenonT(30), <1>1, BeginOpInv, LogWriteInv, EndOpInv, WriteLogInv, WriteHeadInv, InstallTransInv,
     ClearLogInv, EndCommitInv DEF Step
<1>2. CASE \E p \in Proc, b \in Home, v \in Val : log_write_test(p, b, v)
  BY <1>2, LogWriteTestInv
<1>3. CASE \E b \in Blocks : bget_recycle(b)
  BY <1>3, RecycleInv
<1>4. CASE Crash
  BY <1>4, CrashInv
<1>5. CASE read_head \/ recover_install \/ recover_clear
  BY <1>5, ReadHeadInv, RecoverInstallInv, RecoverClearInv
<1>6. CASE UNCHANGED vars
  BY <1>6, StutterInv
<1> QED
  BY <1>1, <1>2, <1>3, <1>4, <1>5, <1>6 DEF Next

(* log.c keeps its invariant: with calls within their budget, in every     *)
(* interleaving of calls, commits, crashes and recoveries.                 *)
THEOREM LogInvariant ==
  ASSUME BudgetFits
  PROVE  Spec => []LogInv
<1>1. LogInv /\ [Next]_vars => LogInv'
  BY NextInv
<1> QED
  BY InitInv, <1>1, PTL DEF Spec

(* begin_op's reservation is sufficient: log_write never panics with "too  *)
(* big a transaction", and end_op never finds a commit in progress.        *)
THEOREM Reservation ==
  ASSUME BudgetFits
  PROVE  Spec => []NoPanic
<1>1. LogInv => NoPanic
  BY DEF LogInv
<1> QED
  BY <1>1, LogInvariant, PTL

(* A transaction never outgrows the log: write_log and install_trans stay  *)
(* within the log's blocks.                                                *)
THEOREM TransactionFits ==
  ASSUME BudgetFits
  PROVE  Spec => []LogFits
<1>1. LogInv => LogFits
  BY DEF LogInv, HeaderInv, LogFits
<1> QED
  BY <1>1, LogInvariant, PTL

(* The B_DIRTY pin lasts long enough: a recyclable buffer always equals    *)
(* its disk block.                                                         *)
THEOREM Coherence ==
  ASSUME BudgetFits
  PROVE  Spec => []CleanIsCoherent
<1>1. LogInv => CleanIsCoherent
  BY DEF LogInv
<1> QED
  BY <1>1, LogInvariant, PTL

(* No process sleeps in begin_op past the moment it could be admitted. *)
THEOREM WakeupsSuffice ==
  ASSUME BudgetFits
  PROVE  Spec => []NoMissedWakeup
<1>1. LogInv => NoMissedWakeup
  BY DEF LogInv
<1> QED
  BY <1>1, LogInvariant, PTL

-----------------------------------------------------------------------------
(* The refinement.  What recovery reads, by index of the header. *)
LEMMA RecoverAt ==
  ASSUME NEW h \in Seq(Home), NEW d \in [Blocks -> Val], NoDuplicates(h)
  PROVE  /\ \A i \in 1 .. Len(h) : RecoverFrom(h, d)[h[i]] = d[i]
         /\ \A b \in Home : (\A i \in 1 .. Len(h) : h[i] # b) => RecoverFrom(h, d)[b] = d[b]
<1>1. \A b : b \in Range(h) <=> \E i \in 1 .. Len(h) : h[i] = b
  BY RangeIff
<1>2. DOMAIN h = 1 .. Len(h)
  OBVIOUS
<1>3. ASSUME NEW i \in 1 .. Len(h)
      PROVE  RecoverFrom(h, d)[h[i]] = d[i]
  <2>1. h[i] \in Home /\ h[i] \in Range(h)
    BY <1>1
  <2>2. (CHOOSE j \in DOMAIN h : h[j] = h[i]) = i
    BY <1>2 DEF NoDuplicates
  <2> QED BY Zenon, <2>1, <2>2 DEF RecoverFrom
<1>4. ASSUME NEW b \in Home, \A i \in 1 .. Len(h) : h[i] # b
      PROVE  RecoverFrom(h, d)[b] = d[b]
  BY <1>1, <1>4 DEF RecoverFrom
<1> QED
  BY ZenonT(30), <1>3, <1>4

(* Two disks recover to the same contents when every header entry and      *)
(* every other home block agree.                                           *)
LEMMA RecoverSame ==
  ASSUME NEW h \in Seq(Home), NoDuplicates(h), NEW d \in [Blocks -> Val],
         NEW f \in [Home -> Val],
         \A i \in 1 .. Len(h) : f[h[i]] = d[i],
         \A b \in Home : (\A i \in 1 .. Len(h) : h[i] # b) => f[b] = d[b]
  PROVE  RecoverFrom(h, d) = f
<1>1. ASSUME NEW b \in Home PROVE RecoverFrom(h, d)[b] = f[b]
  <2>1. CASE \A i \in 1 .. Len(h) : h[i] # b
    BY Zenon, <2>1, RecoverAt
  <2>2. CASE \E i \in 1 .. Len(h) : h[i] = b
    <3>1. PICK i \in 1 .. Len(h) : h[i] = b
      BY Zenon, <2>2
    <3>2. RecoverFrom(h, d)[h[i]] = d[i]
      BY ZenonT(30), RecoverAt
    <3> QED
      BY Zenon, <3>1, <3>2
  <2> QED
    BY Zenon, <2>1, <2>2
<1>2. RecoverFrom(h, d) = [b \in Home |-> RecoverFrom(h, d)[b]]
  BY DEF RecoverFrom
<1> QED
  BY SMTT(20), <1>1, <1>2

(* A reboot finds contents for every home block. *)
LEMMA RecoverType ==
  ASSUME NEW h \in Seq(Home), NoDuplicates(h), Len(h) <= nlog - 1, NEW d \in [Blocks -> Val]
  PROVE  RecoverFrom(h, d) \in [Home -> Val]
<1>1. ASSUME NEW b \in Home PROVE RecoverFrom(h, d)[b] \in Val
  <2>1. \A i \in 1 .. Len(h) : i \in Blocks
    BY SizeAssumption DEF Blocks
  <2>2. b \in Blocks
    BY SizeAssumption DEF Blocks, Home
  <2> QED BY <2>1, <2>2, RecoverAt
<1>2. RecoverFrom(h, d) = [b \in Home |-> RecoverFrom(h, d)[b]]
  BY DEF RecoverFrom
<1> QED
  BY <1>1, <1>2

(* Home blocks are blocks of the disk. *)
LEMMA HomeInBlocks == Home \subseteq Blocks
BY SizeAssumption DEF Home, Blocks

(* An empty header: recovery finds the home blocks as they are. *)
LEMMA RecoverEmpty ==
  ASSUME NEW d \in [Blocks -> Val]
  PROVE  RecoverFrom(<<>>, d) = [b \in Home |-> d[b]]
<1>1. Range(<<>>) = {}
  BY SMTT(30) DEF Range
<1> QED
  BY <1>1 DEF RecoverFrom

(* write_log writes log blocks only, while the header on disk is empty. *)
LEMMA WriteLogKeeps ==
  ASSUME LogInv, NEW p \in Proc, write_log(p)
  PROVE  Recovered' = Recovered /\ Current' = Current
<1> USE DEF LogInv
<1>1. /\ pc[p] = "write_log" /\ tail < Len(lh) /\ dhead = <<>> /\ dhead' = <<>> /\ boot = "up" /\ boot' = "up"
  BY ZenonT(30) DEF write_log, PhaseInv, Running
<1>2. tail + 1 \notin Home /\ tail + 1 \in Blocks /\ lh[tail + 1] \in Blocks
  <2>1. tail + 1 \in 1 .. Len(lh)
    BY <1>1, HeaderBlocks
  <2> QED
    BY Zenon, <2>1, HeaderBlocks
<1>3. \A b \in Home : disk'[b] = disk[b] /\ cache'[b] = cache[b]
  BY ZenonT(30), <1>2, HomeInBlocks DEF write_log, TypeOK
<1>4. disk \in [Blocks -> Val] /\ disk' \in [Blocks -> Val]
  BY ZenonT(30), <1>2 DEF write_log, TypeOK
<1>5. Recovered = [b \in Home |-> disk[b]] /\ Recovered' = [b \in Home |-> disk'[b]]
  BY ZenonT(30), <1>1, <1>4, RecoverEmpty DEF Recovered
<1> QED
  BY ZenonT(30), <1>1, <1>3, <1>5 DEF Current

(* write_head is the commit point: all cached contents become durable. *)
LEMMA WriteHeadCommits ==
  ASSUME LogInv, NEW p \in Proc, write_head(p)
  PROVE  Recovered' = Current /\ Current' = Current /\ InOp = {} /\ InOp' = {}
<1> USE DEF LogInv
<1>1. /\ pc[p] = "write_head" /\ LogCopied(Len(lh)) /\ dhead' = lh /\ committing
      /\ boot = "up" /\ boot' = "up" /\ disk' = disk /\ cache' = cache
  BY ZenonT(30) DEF write_head, PhaseInv, Running, CommitInv, CommitPcs
<1>2. InOp = {} /\ InOp' = {}
  BY ZenonT(30), <1>1 DEF CommitInv, InOp, write_head, TypeOK
<1>3. \A b \in Home : (\A i \in 1 .. Len(lh) : lh[i] # b) => cache[b] = disk[b]
  <2>1. \A b : b \in Range(lh) <=> \E i \in 1 .. Len(lh) : lh[i] = b
    BY ZenonT(30), RangeIff DEF TypeOK
  <2>2. \A q \in Proc : held[q] = NoBlock
    BY ZenonT(30), <1>2 DEF HeldInv, InOp
  <2>3. NoBlock \notin Home
    BY NoBlockAssumption DEF Home
  <2> QED BY ZenonT(30), <2>1, <2>2, <2>3, HomeInBlocks DEF CleanIsCoherent, PinInv
<1>4. Current = [b \in Home |-> cache[b]] /\ Current' = [b \in Home |-> cache[b]]
  BY <1>1 DEF Current
<1>5. Current \in [Home -> Val]
  BY ZenonT(30), <1>4, HomeInBlocks DEF TypeOK
<1>6. \A i \in 1 .. Len(lh) : lh[i] \in Home /\ Current[lh[i]] = disk[i]
  <2>1. \A i \in 1 .. Len(lh) : lh[i] \in Home
    BY Zenon, HeaderBlocks
  <2> QED
    BY Zenon, <1>1, <1>4, <2>1 DEF LogCopied
<1>7. RecoverFrom(lh, disk) = Current
  <2>1. \A b \in Home : (\A i \in 1 .. Len(lh) : lh[i] # b) => Current[b] = disk[b]
    BY Zenon, <1>3, <1>4
  <2>2. lh \in Seq(Home) /\ NoDuplicates(lh) /\ disk \in [Blocks -> Val]
    BY ZenonT(30) DEF TypeOK, HeaderInv
  <2>3. \A i \in 1 .. Len(lh) : Current[lh[i]] = disk[i]
    BY Zenon, <1>6
  <2> QED BY ZenonT(30), <1>5, <2>1, <2>2, <2>3, RecoverSame
<1> QED
  BY ZenonT(30), <1>1, <1>2, <1>4, <1>7 DEF Recovered

(* Installing a block of a committed transaction changes nothing that a    *)
(* reboot would find.                                                      *)
LEMMA InstallKeeps ==
  ASSUME LogInv, tail < Len(lh), dhead = lh, Installed(tail), InstallBlock, UNCHANGED <<lh, dhead>>,
         \A b \in Blocks : b \notin Home => cache[b] = disk[b]
  PROVE  Recovered' = Recovered
<1> USE DEF LogInv
<1> DEFINE t == tail + 1
           h == lh[t]
<1>1. /\ t \in 1 .. Len(lh) /\ t \in Blocks /\ h \in Home
      /\ \A i \in 1 .. Len(lh) : i \in Blocks /\ i \notin Home /\ lh[i] \in Blocks
      /\ disk' = [disk EXCEPT ![h] = disk[t]]
      /\ disk' \in [Blocks -> Val]
  BY ZenonT(30), InstallBlockFacts
<1> HIDE DEF t
<1>2. lh \in Seq(Home) /\ NoDuplicates(lh) /\ disk \in [Blocks -> Val] /\ Len(lh) <= nlog - 1
  BY ZenonT(30) DEF TypeOK, HeaderInv
<1> DEFINE f == RecoverFrom(lh, disk)
<1>3. f \in [Home -> Val]
  BY SMTT(30), <1>2, RecoverType
<1>4. \A i \in 1 .. Len(lh) : f[lh[i]] = disk'[i]
  <2>1. \A i \in 1 .. Len(lh) : f[lh[i]] = disk[i]
    BY Zenon, <1>2, RecoverAt
  <2> QED BY ZenonT(30), <1>1, <1>2, <2>1
<1>5. \A b \in Home : (\A i \in 1 .. Len(lh) : lh[i] # b) => f[b] = disk'[b]
  <2>1. \A b \in Home : (\A i \in 1 .. Len(lh) : lh[i] # b) => f[b] = disk[b]
    BY Zenon, <1>2, RecoverAt
  <2> QED BY Zenon, <1>1, <1>2, <2>1, HomeInBlocks
<1>6. RecoverFrom(lh, disk') = f
  <2>1. disk' \in [Blocks -> Val] /\ lh \in Seq(Home) /\ NoDuplicates(lh)
    BY ZenonT(30), <1>1, <1>2
  <2> HIDE DEF f
  <2> QED BY ZenonT(30), <1>3, <1>4, <1>5, <2>1, RecoverSame
<1> QED
  BY Zenon, <1>6 DEF Recovered

(* Erasing the header of an installed transaction changes nothing either. *)
LEMMA ClearKeeps ==
  ASSUME LogInv, dhead = lh, Installed(Len(lh)), dhead' = <<>>, disk' = disk
  PROVE  Recovered' = Recovered /\ Recovered = [b \in Home |-> disk[b]]
<1> USE DEF LogInv
<1> DEFINE f == [b \in Home |-> disk[b]]
<1>1. lh \in Seq(Home) /\ NoDuplicates(lh) /\ disk \in [Blocks -> Val] /\ f \in [Home -> Val]
  BY ZenonT(30), HomeInBlocks DEF TypeOK, HeaderInv
<1>2. \A i \in 1 .. Len(lh) : f[lh[i]] = disk[i]
  BY <1>1 DEF Installed
<1>3. \A b \in Home : f[b] = disk[b]
  OBVIOUS
<1>4. RecoverFrom(lh, disk) = f
  <2>1. \A b \in Home : (\A i \in 1 .. Len(lh) : lh[i] # b) => f[b] = disk[b]
    BY Zenon, <1>3
  <2> HIDE DEF f
  <2> QED BY ZenonT(30), <1>1, <1>2, <2>1, RecoverSame
<1>5. RecoverFrom(<<>>, disk) = f
  BY <1>1, RecoverEmpty
<1> QED
  BY <1>4, <1>5 DEF Recovered

(* Installing, by commit or by recovery, leaves what a reboot would find. *)
LEMMA InstallTransKeeps ==
  ASSUME LogInv, NEW p \in Proc, install_trans(p)
  PROVE  Recovered' = Recovered /\ Current' = Current
<1> USE DEF LogInv
<1>1. /\ pc[p] = "install" /\ InstallBlock /\ UNCHANGED <<dhead, lh, boot, held, logged, outstanding>>
      /\ tail < Len(lh) /\ LogCopied(Len(lh)) /\ dhead = lh /\ Installed(tail)
      /\ boot = "up"
  BY ZenonT(30) DEF install_trans, PhaseInv, Running
<1>2. \A q \in Proc : held[q] = NoBlock
  BY ZenonT(30), <1>1 DEF CommitInv, CommitPcs, HeldInv, InOp
<1>3. \A b \in Blocks : b \notin Home => cache[b] = disk[b]
  <2>1. NoBlock \notin Blocks
    BY NoBlockAssumption, SizeAssumption DEF Blocks
  <2> QED
    BY ZenonT(30), <1>2, <2>1 DEF CleanIsCoherent, TypeOK
<1>4. Recovered' = Recovered
  BY Zenon, <1>1, <1>3, InstallKeeps
<1>5. /\ tail + 1 \in 1 .. Len(lh) /\ lh[tail + 1] \in Home
      /\ cache' = [cache EXCEPT ![lh[tail + 1]] = disk[tail + 1]]
  BY ZenonT(30), <1>1, <1>3, InstallBlockFacts
<1>6. cache[lh[tail + 1]] = disk[tail + 1]
  BY ZenonT(30), <1>1, <1>5 DEF LogCopied
<1>7. cache' = cache
  BY ZenonT(30), <1>5, <1>6 DEF TypeOK
<1> QED
  BY SMTT(20), <1>1, <1>4, <1>7 DEF Current

-----------------------------------------------------------------------------
(* The initial states map to initial states of the atomic disk. *)
LEMMA AbstractInit == Init => AD!Init
<1> SUFFICES ASSUME Init PROVE AD!Init
  OBVIOUS
<1>1. LogInv
  BY InitInv
<1>2. Recovered \in [Home -> Val]
  BY ZenonT(30), <1>1, RecoverType DEF LogInv, TypeOK, HeaderInv, Recovered
<1>3. Current = Recovered /\ InOp = {}
  BY SMTT(30) DEF Init, Current, InOp
<1> QED
  BY <1>2, <1>3 DEF AD!Init

(* Every step of log.c is a step of the atomic disk, or invisible there. *)
LEMMA AbstractStep == BudgetFits /\ LogInv /\ [Next]_vars => [AD!Next]_AD!vars
<1> SUFFICES ASSUME BudgetFits, LogInv, [Next]_vars PROVE [AD!Next]_AD!vars
  OBVIOUS
<1> USE DEF LogInv
<1>a. ASSUME UNCHANGED <<disk, dhead>>
      PROVE  Recovered' = Recovered
  BY <1>a DEF Recovered
<1>b. ASSUME UNCHANGED <<disk, dhead, cache, boot>>
      PROVE  Recovered' = Recovered /\ Current' = Current
  BY <1>b DEF Recovered, Current
<1>1. ASSUME NEW p \in Proc, begin_op(p)
      PROVE  [AD!Next]_AD!vars
  <2>1. Recovered' = Recovered /\ Current' = Current
    BY ZenonT(30), <1>1, <1>b DEF begin_op
  <2>2. \/ InOp' = InOp
        \/ p \notin InOp /\ InOp' = InOp \cup {p}
    BY ZenonT(30), <1>1 DEF begin_op, InOp, TypeOK
  <2> QED BY <2>1, <2>2 DEF AD!Next, AD!Begin, AD!vars
<1>2. ASSUME NEW p \in Proc, NEW b \in Home, NEW v \in Val, log_write_test(p, b, v)
      PROVE  [AD!Next]_AD!vars
  <2>1. Recovered' = Recovered
    BY ZenonT(30), <1>2, <1>a DEF log_write_test
  <2>2. p \in InOp /\ InOp' = InOp
    BY ZenonT(30), <1>2 DEF log_write_test, InOp, TypeOK
  <2>3. Current' = [Current EXCEPT ![b] = v]
    BY Zenon, <1>2, HomeInBlocks DEF log_write_test, Current, Running, TypeOK
  <2> QED BY Zenon, <2>1, <2>2, <2>3 DEF AD!Next, AD!Write
<1>3. ASSUME NEW p \in Proc, log_write(p)
      PROVE  UNCHANGED AD!vars
  <2>1. Recovered' = Recovered /\ Current' = Current
    BY ZenonT(30), <1>3, <1>b DEF log_write
  <2>2. InOp' = InOp
    BY ZenonT(30), <1>3 DEF log_write, InOp, TypeOK
  <2> QED BY <2>1, <2>2 DEF AD!vars
<1>4. ASSUME NEW p \in Proc, end_op(p)
      PROVE  [AD!Next]_AD!vars
  <2>1. Recovered' = Recovered /\ Current' = Current
    BY ZenonT(30), <1>4, <1>b DEF end_op
  <2>2. p \in InOp /\ InOp' = InOp \ {p}
    <3>1. ~committing
      BY ZenonT(30), <1>4 DEF CommitInv, InOp, end_op
    <3>2. pc' = [pc EXCEPT ![p] = CommitStart] \/ pc' = wakeup([pc EXCEPT ![p] = "user"])
      BY ZenonT(30), <1>4, <3>1 DEF end_op
    <3> QED BY ZenonT(30), <1>4, <3>2 DEF end_op, InOp, TypeOK, CommitStart, wakeup
  <2> QED BY <2>1, <2>2 DEF AD!Next, AD!End
<1>5. ASSUME NEW p \in Proc, write_log(p) \/ install_trans(p)
      PROVE  UNCHANGED AD!vars
  <2>1. Recovered' = Recovered /\ Current' = Current
    BY SMTT(30), <1>5, WriteLogKeeps, InstallTransKeeps
  <2>2. InOp' = InOp
    BY ZenonT(30), <1>5 DEF write_log, install_trans, InOp, TypeOK
  <2> QED BY <2>1, <2>2 DEF AD!vars
<1>6. ASSUME NEW p \in Proc, write_head(p)
      PROVE  AD!Commit
  BY <1>6, WriteHeadCommits DEF AD!Commit
<1>7. ASSUME NEW p \in Proc, clear_log(p)
      PROVE  UNCHANGED AD!vars
  <2>1. dhead = lh /\ Installed(Len(lh)) /\ boot = "up"
    BY ZenonT(30), <1>7 DEF clear_log, PhaseInv, Running
  <2>2. Recovered' = Recovered
    BY ZenonT(30), <1>7, <2>1, ClearKeeps DEF clear_log
  <2>3. InOp' = InOp /\ Current' = Current
    BY ZenonT(30), <1>7, <2>1 DEF clear_log, InOp, Current, TypeOK
  <2> QED BY SMTT(30), <2>2, <2>3 DEF AD!vars
<1>8. ASSUME NEW p \in Proc, end_commit(p)
      PROVE  UNCHANGED AD!vars
  <2>1. Recovered' = Recovered /\ Current' = Current
    BY SMTT(20), <1>8, <1>b DEF end_commit
  <2>2. InOp' = InOp
    BY ZenonT(30), <1>8 DEF end_commit, wakeup, InOp, TypeOK
  <2> QED BY <2>1, <2>2 DEF AD!vars
<1>9. ASSUME NEW b \in Blocks, bget_recycle(b)
      PROVE  UNCHANGED AD!vars
  <2>1. cache' = cache
    BY <1>9, RecycleInv
  <2> QED BY Zenon, <1>9, <1>b, <2>1 DEF bget_recycle, InOp, AD!vars
<1>10. ASSUME Crash
       PROVE  AD!Crash
  <2>1. Recovered' = Recovered /\ Current' = Recovered'
    BY ZenonT(30), <1>10, <1>a DEF Crash, Current
  <2>2. InOp' = {}
    BY SMTT(20), <1>10 DEF Crash, InOp
  <2> QED BY <2>1, <2>2 DEF AD!Crash
<1>11. ASSUME read_head
       PROVE  UNCHANGED AD!vars
  BY ZenonT(30), <1>11, <1>a DEF read_head, Current, InOp, AD!vars
<1>12. ASSUME recover_install
       PROVE  UNCHANGED AD!vars
  <2>1. Recovered' = Recovered
    BY ZenonT(30), <1>12, InstallKeeps DEF recover_install, BootInv
  <2> QED BY ZenonT(30), <1>12, <2>1 DEF recover_install, Current, InOp, AD!vars
<1>13. ASSUME recover_clear
       PROVE  UNCHANGED AD!vars
  <2>1. dhead = lh /\ Installed(Len(lh)) /\ cache = disk
    BY ZenonT(30), <1>13 DEF recover_clear, BootInv
  <2>2. Recovered' = Recovered /\ Recovered = [b \in Home |-> disk[b]]
    BY ZenonT(30), <1>13, <2>1, ClearKeeps DEF recover_clear
  <2>3. Current' = Current
    BY ZenonT(30), <1>13, <2>1, <2>2 DEF recover_clear, Current
  <2> QED BY ZenonT(30), <1>13, <2>2, <2>3 DEF recover_clear, InOp, AD!vars
<1>14. ASSUME UNCHANGED vars
       PROVE  UNCHANGED AD!vars
  BY ZenonT(30), <1>14 DEF vars, AD!vars, Recovered, Current, InOp
<1> QED
  BY ZenonT(30), <1>1, <1>2, <1>3, <1>4, <1>5, <1>6, <1>7, <1>8, <1>9, <1>10, <1>11, <1>12, <1>13, <1>14
  DEF Next, Step, AD!Next

(* Crash atomicity for every instance: the log implements the atomic disk, *)
(* so after any crash the file system is in the state some commit left, in *)
(* which every call is entirely present or entirely absent.                *)
THEOREM CrashAtomicity ==
  ASSUME BudgetFits
  PROVE  Spec => Atomicity
<1>1. LogInv /\ [Next]_vars => [AD!Next]_AD!vars
  BY AbstractStep
<1>2. Spec => []LogInv
  BY LogInvariant
<1> QED
  BY AbstractInit, <1>1, <1>2, PTL DEF Spec, Atomicity, AD!Spec
=============================================================================
