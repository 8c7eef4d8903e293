---------------------------- MODULE BufCacheProof ----------------------------
(***************************************************************************)
(* CacheInv is an invariant of bio.c over ide.c, and the cache implements  *)
(* BlockStore, for any number of processes, buffers and blocks, on a disk  *)
(* whose reads do not fail.                                                *)
(*                                                                         *)
(* First, what one step does: it keeps Core, and it is a step of           *)
(* BlockStore or changes nothing there.  Nothing is counted in that part;  *)
(* what the reference counts are needed for is ZeroMeansUnused.  The       *)
(* second part counts: references, pinned buffers, and the buffers that    *)
(* are left for bget.                                                      *)
(***************************************************************************)
EXTENDS BufCache, FiniteSetTheorems, TLAPS

USE DEF bufs, io

(* The disk never fails a read. *)
DiskWorks == DiskOk = {TRUE}

(* A reference count of 0 means that nobody uses the buffer. *)
ZeroMeansUnused == \A b \in Buf : refcnt[b] = 0 <=> \A q \in Proc : cur[q] # b

(* The null buffer is none of the buffers. *)
LEMMA Names == NoBuf \notin Buf /\ Buf \subseteq Nat
BY DEF Buf, NoBuf

(* After binit the invariant holds. *)
LEMMA InitInd == Init => Core
<1> SUFFICES ASSUME Init PROVE Core
  BY Zenon
<1>1. TypeOK
  <2>1. lru \in [Buf -> Buf]
    BY BufAssumption DEF Buf, Init
  <2>2. blockno \in [Buf -> Block \cup {NoBlock}] /\ data \in [Buf -> Val] /\ disk \in [Block -> Val]
    BY Zenon, BufAssumption DEF Init
  <2>3. refcnt \in [Buf -> Nat] /\ cur \in [Proc -> Buf \cup {NoBuf}] /\ idequeue \in Seq(Buf) /\ active \in Buf \cup {NoBuf}
    BY DEF Init
  <2>4. valid \in [Buf -> BOOLEAN] /\ dirty \in [Buf -> BOOLEAN] /\ locked \in [Buf -> BOOLEAN] /\ panicked \in BOOLEAN
    BY Zenon DEF Init
  <2>5. pc \in [Proc -> Pcs]
    BY Zenon DEF Pcs, Init
  <2> QED
    BY Zenon, <2>1, <2>2, <2>3, <2>4, <2>5 DEF TypeOK, FlagsOK, BlockOK, DataOK, ListOK, ProcOK
<1>2. OneCopy /\ FlagInv /\ WaitInv /\ UsersSeeValid /\ CleanMeansStored
  BY Zenon DEF OneCopy, FlagInv, WaitInv, UsersSeeValid, CleanMeansStored, Init
<1>3. LruInv
  <2> SUFFICES ASSUME NEW b \in Buf PROVE lru[NBUF + 1 - b] = b /\ NBUF + 1 - b \in Buf
    BY Zenon DEF LruInv
  <2> QED
    BY BufAssumption DEF Buf, Init
<1>4. UseInv
  BY Zenon DEF UseInv, Owns, Init
<1>5. QueueInv
  BY DEF QueueInv, Queued, Init
<1> QED
  BY Zenon, <1>1, <1>2, <1>3, <1>4, <1>5 DEF Core

-----------------------------------------------------------------------------
(* The parts of the invariant that a step leaves alone with their variables. *)
LEMMA Frames ==
  ASSUME Core
  PROVE  /\ UNCHANGED blockno => OneCopy'
         /\ UNCHANGED lru => LruInv'
         /\ UNCHANGED <<blockno, valid, dirty>> => FlagInv'
BY ZenonT(30) DEF Core, OneCopy, LruInv, FlagInv

(* Who uses and who owns, when nobody comes or goes. *)
LEMMA UseFrame ==
  ASSUME Core, UNCHANGED <<blockno, cur>>,
         \A q \in Proc : pc'[q] = "idle" <=> pc[q] = "idle",
         \A q, r \in Proc : Owns(q)' /\ Owns(r)' /\ cur[q] = cur[r] => q = r,
         \A b \in Buf : locked'[b] <=> \E q \in Proc : Owns(q)' /\ cur[q] = b
  PROVE  UseInv'
<1>1. \A q \in Proc : IF pc'[q] = "idle" THEN cur'[q] = NoBuf ELSE cur'[q] \in Buf /\ blockno'[cur'[q]] \in Block
  BY Zenon DEF Core, UseInv
<1>3. \A q, r \in Proc : Owns(q)' /\ Owns(r)' /\ cur'[q] = cur'[r] => q = r
  BY Zenon
<1>4. \A b \in Buf : locked'[b] <=> \E q \in Proc : Owns(q)' /\ cur'[q] = b
  BY Zenon
<1> QED
  BY Zenon, <1>1 DEF UseInv

(* Nothing becomes clean, and who has changed a buffer passes it on dirty. *)
LEMMA CleanFrame ==
  ASSUME Core, UNCHANGED <<blockno, data, disk, cur>>,
         \A b \in Buf : valid'[b] /\ ~dirty'[b] => valid[b] /\ ~dirty[b],
         \A q \in Proc : pc[q] = "changed" => pc'[q] = "changed" \/ dirty'[cur[q]]
  PROVE  CleanMeansStored'
<1> SUFFICES ASSUME NEW b \in Buf, valid'[b], ~dirty'[b], \A q \in Proc : cur[q] = b => pc'[q] # "changed"
             PROVE  data[b] = disk[blockno[b]]
  BY Zenon DEF CleanMeansStored
<1>1. \A q \in Proc : cur[q] = b => pc[q] # "changed"
  BY Zenon
<1> QED
  BY Zenon, <1>1 DEF Core, CleanMeansStored

(* The disk queue and those who wait for it, when neither changes. *)
LEMMA QueueFrame ==
  ASSUME Core, UNCHANGED <<idequeue, active, cur>>,
         \A q \in Proc : pc'[q] \in {"iowait", "iowake"} <=> pc[q] \in {"iowait", "iowake"},
         \A q \in Proc : pc'[q] = "iowait" => pc[q] = "iowait",
         \A q \in Proc : pc'[q] = "iderw" => ~IoFinished(cur[q])',
         \A q \in Proc : pc[q] \in {"iowait", "iowake"} => (IoFinished(cur[q])' <=> IoFinished(cur[q]))
  PROVE  QueueInv'
<1>1. \A a : Queued(a)' <=> Queued(a)
  BY Zenon DEF Queued
<1>2. \A q \in Proc : pc'[q] = "iowait" => Queued(cur[q])'
  BY Zenon, <1>1 DEF Core, QueueInv
<1>3. \A q \in Proc : pc'[q] \in {"iowait", "iowake"} => (Queued(cur[q])' <=> ~IoFinished(cur[q])')
  BY DEF Core, QueueInv, Queued
<1>4. \A b \in Buf : Queued(b)' => \E q \in Proc : pc'[q] \in {"iowait", "iowake"} /\ cur'[q] = b
  BY Zenon, <1>1 DEF Core, QueueInv
<1>5. \A i, j \in 1 .. Len(idequeue') : idequeue'[i] = idequeue'[j] => i = j
  BY DEF Core, QueueInv
<1>6. active' = IF idequeue' = <<>> THEN NoBuf ELSE Head(idequeue')
  BY Zenon DEF Core, QueueInv
<1> QED
  BY Zenon, <1>2, <1>3, <1>4, <1>5, <1>6 DEF QueueInv

(* The process itself is at a buffer with a block. *)
LEMMA Mine ==
  ASSUME Core, NEW p \in Proc, pc[p] # "idle"
  PROVE  cur[p] \in Buf /\ blockno[cur[p]] \in Block /\ cur[p] # NoBuf
BY Names DEF Core, UseInv

(* acquiresleep: a new owner, or one more who waits for the owner. *)
LEMMA AcquiresleepInd ==
  ASSUME Core, NEW p \in Proc, acquiresleep(p)
  PROVE  Core' /\ Pinned' \subseteq Pinned
<1> DEFINE b == cur[p]
<1>1. b \in Buf /\ pc[p] = "lock" /\ pc \in [Proc -> Pcs]
  BY Zenon, Mine DEF acquiresleep, At, Core, TypeOK, ProcOK
<1>2. UNCHANGED <<blockno, valid, dirty, refcnt, data, lru, idequeue, active, disk, cur, panicked>>
  BY Zenon DEF acquiresleep
<1>3. PICK l \in Pcs : l \in {"lockwait", "use", "iderw"} /\ pc' = [pc EXCEPT ![p] = l]
  BY Zenon DEF acquiresleep, Goto, Pcs
<1>4. \A q \in Proc : pc'[q] = IF q = p THEN l ELSE pc[q]
  BY Zenon, <1>1, <1>3
<1>5. l = "lockwait" => locked[b] /\ UNCHANGED locked
  BY Zenon, <1>1, <1>4 DEF acquiresleep, Goto
<1>6. l # "lockwait" => ~locked[b] /\ locked' = [locked EXCEPT ![b] = TRUE]
  BY Zenon, <1>1, <1>4 DEF acquiresleep, Goto
<1>7. (l = "use" => valid[b]) /\ (l = "iderw" => ~valid[b])
  BY Zenon, <1>1, <1>4 DEF acquiresleep, Goto
<1>8. \A a \in Buf : locked'[a] <=> (locked[a] \/ (a = b /\ l # "lockwait"))
  BY Zenon, <1>5, <1>6 DEF Core, TypeOK, FlagsOK
<1> HIDE DEF b
<1>9. b = cur[p]
  BY Zenon DEF b
<1>10. TypeOK'
  <2>1. pc' \in [Proc -> Pcs]
    BY Zenon, <1>1, <1>3
  <2>2. locked' \in [Buf -> BOOLEAN]
    BY Zenon, <1>5, <1>6 DEF Core, TypeOK, FlagsOK
  <2> QED
    BY Zenon, <1>2, <2>1, <2>2 DEF Core, TypeOK, FlagsOK, BlockOK, DataOK, ListOK, ProcOK
<1>11. UseInv'
  <2>1. \A q \in Proc : Owns(q)' <=> (Owns(q) \/ (q = p /\ l # "lockwait"))
    BY Zenon, <1>1, <1>3 DEF Owns
  <2>2. l # "lockwait" => \A q \in Proc : Owns(q) => cur[q] # b
    BY Zenon, <1>1, <1>6 DEF Core, UseInv
  <2>3. \A q, r \in Proc : Owns(q)' /\ Owns(r)' /\ cur[q] = cur[r] => q = r
    BY ZenonT(30), <1>9, <2>1, <2>2 DEF Core, UseInv
  <2>4. \A a \in Buf : locked'[a] <=> \E q \in Proc : Owns(q)' /\ cur[q] = a
    BY Zenon, <1>8, <1>9, <2>1 DEF Core, UseInv
  <2>5. \A q \in Proc : pc'[q] = "idle" <=> pc[q] = "idle"
    BY Zenon, <1>1, <1>3
  <2> QED
    BY Zenon, <1>2, <2>3, <2>4, <2>5, UseFrame
<1>12. QueueInv'
  <2>1. \A q \in Proc : pc'[q] \in {"iowait", "iowake"} <=> pc[q] \in {"iowait", "iowake"}
    BY Zenon, <1>1, <1>3
  <2>2. \A q \in Proc : pc'[q] = "iowait" => pc[q] = "iowait"
    BY Zenon, <1>1, <1>3
  <2>3. \A q \in Proc : pc'[q] = "iderw" => ~IoFinished(cur[q])'
    BY Zenon, <1>2, <1>4, <1>7, <1>9 DEF Core, QueueInv, IoFinished
  <2>4. \A q \in Proc : IoFinished(cur[q])' <=> IoFinished(cur[q])
    BY Zenon, <1>2 DEF IoFinished
  <2> QED
    BY Zenon, <1>2, <2>1, <2>2, <2>3, <2>4, QueueFrame
<1>13. Pinned' \subseteq Pinned
  BY Zenon, <1>1, <1>2, <1>4 DEF Pinned
<1>14. WaitInv'
  BY Zenon, <1>2, <1>4, <1>5, <1>8, <1>9, Mine DEF Core, WaitInv
<1>15. UsersSeeValid'
  BY Zenon, <1>1, <1>2, <1>3, <1>7, <1>9 DEF Core, UsersSeeValid
<1>16. CleanMeansStored'
  <2>1. \A q \in Proc : pc[q] = "changed" => pc'[q] = "changed"
    BY Zenon, <1>1, <1>4
  <2> QED
    BY Zenon, <1>2, <2>1, CleanFrame
<1> QED
  BY Zenon, <1>2, <1>10, <1>11, <1>12, <1>13, <1>14, <1>15, <1>16, Frames DEF Core

(* kill: a sleeper goes back to its loop. *)
LEMMA KillInd ==
  ASSUME Core, NEW p \in Proc, kill(p)
  PROVE  Core' /\ Pinned' \subseteq Pinned
<1>1. UNCHANGED <<blockno, valid, dirty, refcnt, data, locked, lru, idequeue, active, disk, cur, panicked>>
  BY Zenon DEF kill
<1>2. pc \in [Proc -> Pcs] /\ pc[p] \in {"lockwait", "iowait"} /\ cur[p] \in Buf
  BY Zenon, Mine DEF kill, Core, TypeOK, ProcOK
<1>3. PICK l \in Pcs : l = (IF pc[p] = "lockwait" THEN "lock" ELSE "iowake") /\ pc' = [pc EXCEPT ![p] = l]
  BY Zenon DEF kill, Goto, Pcs
<1>4. \A q \in Proc : pc'[q] = IF q = p THEN l ELSE pc[q]
  BY Zenon, <1>2, <1>3
<1>5. TypeOK'
  <2>1. pc' \in [Proc -> Pcs]
    BY Zenon, <1>2, <1>3
  <2> QED
    BY Zenon, <1>1, <2>1 DEF Core, TypeOK, FlagsOK, BlockOK, DataOK, ListOK, ProcOK
<1>6. UseInv'
  <2>1. \A q \in Proc : Owns(q)' <=> Owns(q)
    BY Zenon, <1>2, <1>3 DEF Owns
  <2>2. \A q, r \in Proc : Owns(q)' /\ Owns(r)' /\ cur[q] = cur[r] => q = r
    BY Zenon, <2>1 DEF Core, UseInv
  <2>3. \A a \in Buf : locked'[a] <=> \E q \in Proc : Owns(q)' /\ cur[q] = a
    BY Zenon, <1>1, <2>1 DEF Core, UseInv
  <2>4. \A q \in Proc : pc'[q] = "idle" <=> pc[q] = "idle"
    BY Zenon, <1>2, <1>3
  <2> QED
    BY Zenon, <1>1, <2>2, <2>3, <2>4, UseFrame
<1>7. QueueInv'
  <2>1. \A q \in Proc : pc'[q] \in {"iowait", "iowake"} <=> pc[q] \in {"iowait", "iowake"}
    BY Zenon, <1>2, <1>3
  <2>2. \A q \in Proc : (pc'[q] = "iowait" => pc[q] = "iowait") /\ (pc'[q] = "iderw" => pc[q] = "iderw")
    BY Zenon, <1>2, <1>3
  <2>3. \A q \in Proc : IoFinished(cur[q])' <=> IoFinished(cur[q])
    BY Zenon, <1>1 DEF IoFinished
  <2>4. \A q \in Proc : pc'[q] = "iderw" => ~IoFinished(cur[q])'
    BY Zenon, <2>2, <2>3 DEF Core, QueueInv
  <2> QED
    BY Zenon, <1>1, <2>1, <2>2, <2>3, <2>4, QueueFrame
<1>8. Pinned' \subseteq Pinned
  BY Zenon, <1>1, <1>2, <1>3 DEF Pinned
<1>9. WaitInv' /\ UsersSeeValid'
  BY <1>1, <1>3 DEF Core, WaitInv, UsersSeeValid
<1>10. CleanMeansStored'
  <2>1. \A q \in Proc : pc[q] = "changed" => pc'[q] = "changed"
    BY Zenon, <1>2, <1>4
  <2> QED
    BY Zenon, <1>1, <2>1, CleanFrame
<1> QED
  BY Zenon, <1>1, <1>5, <1>6, <1>7, <1>8, <1>9, <1>10, Frames DEF Core

(* iderw after a wakeup: on with the finished request, or back to sleep *)
(* beside one that is still queued.                                     *)
LEMMA IderwTestInd ==
  ASSUME Core, NEW p \in Proc, iderw_test(p)
  PROVE  Core' /\ Pinned' \subseteq Pinned
<1>1. UNCHANGED <<blockno, valid, dirty, refcnt, data, locked, lru, idequeue, active, disk, cur, panicked>>
  BY Zenon DEF iderw_test
<1>2. pc \in [Proc -> Pcs] /\ pc[p] = "iowake" /\ cur[p] \in Buf
  BY Zenon, Mine DEF iderw_test, At, Core, TypeOK, ProcOK
<1>3. PICK l \in Pcs : l = (IF IoFinished(cur[p]) THEN "use" ELSE "iowait") /\ pc' = [pc EXCEPT ![p] = l]
  BY Zenon DEF iderw_test, Goto, Pcs
<1>4. \A q \in Proc : pc'[q] = IF q = p THEN l ELSE pc[q]
  BY Zenon, <1>2, <1>3
<1>5. TypeOK'
  <2>1. pc' \in [Proc -> Pcs]
    BY Zenon, <1>2, <1>3
  <2> QED
    BY Zenon, <1>1, <2>1 DEF Core, TypeOK, FlagsOK, BlockOK, DataOK, ListOK, ProcOK
<1>6. UseInv'
  <2>1. \A q \in Proc : Owns(q)' <=> Owns(q)
    BY Zenon, <1>2, <1>3 DEF Owns
  <2>2. \A q, r \in Proc : Owns(q)' /\ Owns(r)' /\ cur[q] = cur[r] => q = r
    BY Zenon, <2>1 DEF Core, UseInv
  <2>3. \A a \in Buf : locked'[a] <=> \E q \in Proc : Owns(q)' /\ cur[q] = a
    BY Zenon, <1>1, <2>1 DEF Core, UseInv
  <2>4. \A q \in Proc : pc'[q] = "idle" <=> pc[q] = "idle"
    BY Zenon, <1>2, <1>3
  <2> QED
    BY Zenon, <1>1, <2>2, <2>3, <2>4, UseFrame
<1>7. QueueInv'
  <2>1. \A q \in Proc : IoFinished(cur[q])' <=> IoFinished(cur[q])
    BY Zenon, <1>1 DEF IoFinished
  <2>2. \A q \in Proc : Queued(cur[q])' <=> Queued(cur[q])
    BY Zenon, <1>1 DEF Queued
  <2>3. Queued(cur[p]) <=> ~IoFinished(cur[p])
    BY Zenon, <1>2 DEF Core, QueueInv
  <2>4. \A q \in Proc : pc'[q] \in {"iowait", "iowake"} => pc[q] \in {"iowait", "iowake"}
    BY Zenon, <1>2, <1>3
  <2>5. \A q \in Proc : pc'[q] \in {"iowait", "iowake"} => (Queued(cur[q])' <=> ~IoFinished(cur[q])')
    BY Zenon, <2>1, <2>2, <2>4 DEF Core, QueueInv
  <2>6. \A q \in Proc : pc'[q] = "iowait" => Queued(cur[q])'
    BY <1>3, <2>2, <2>3 DEF Core, QueueInv
  <2>7. \A q \in Proc : pc'[q] = "iderw" => ~IoFinished(cur[q])'
    BY <1>3, <2>1 DEF Core, QueueInv
  <2>8. ASSUME NEW b \in Buf, Queued(b)' PROVE \E q \in Proc : pc'[q] \in {"iowait", "iowake"} /\ cur'[q] = b
    <3>1. Queued(b)
      BY Zenon, <1>1, <2>8 DEF Queued
    <3>2. PICK q \in Proc : pc[q] \in {"iowait", "iowake"} /\ cur[q] = b
      BY Zenon, <3>1 DEF Core, QueueInv
    <3>3. pc'[q] \in {"iowait", "iowake"}
      BY Zenon, <1>3, <1>4, <2>3, <3>1, <3>2
    <3> QED
      BY Zenon, <1>1, <3>2, <3>3
  <2>9. \A i, j \in 1 .. Len(idequeue') : idequeue'[i] = idequeue'[j] => i = j
    BY ZenonT(30), <1>1 DEF Core, QueueInv
  <2>10. active' = IF idequeue' = <<>> THEN NoBuf ELSE Head(idequeue')
    BY Zenon, <1>1 DEF Core, QueueInv
  <2> QED
    BY Zenon, <2>5, <2>6, <2>7, <2>8, <2>9, <2>10 DEF QueueInv
<1>8. Pinned' \subseteq Pinned
  <2>1. \A q \in Proc : pc[q] \in {"iderw", "iowait", "iowake"} =>
          pc'[q] \in {"iderw", "iowait", "iowake"} \/ ~dirty[cur[q]]
    BY Zenon, <1>2, <1>3 DEF IoFinished
  <2> QED
    BY Zenon, <1>1, <2>1 DEF Pinned
<1>9. WaitInv' /\ UsersSeeValid'
  BY <1>1, <1>3 DEF Core, WaitInv, UsersSeeValid, IoFinished
<1>10. CleanMeansStored'
  <2>1. \A q \in Proc : pc[q] = "changed" => pc'[q] = "changed"
    BY Zenon, <1>2, <1>4
  <2> QED
    BY Zenon, <1>1, <2>1, CleanFrame
<1> QED
  BY Zenon, <1>1, <1>5, <1>6, <1>7, <1>8, <1>9, <1>10, Frames DEF Core

(* bwrite: the owner asks for its own buffer to be written. *)
LEMMA BwriteInd ==
  ASSUME Core, NEW p \in Proc, bwrite(p)
  PROVE  Core' /\ Pinned' \subseteq Pinned
<1>1. UNCHANGED <<blockno, valid, refcnt, data, locked, lru, idequeue, active, disk, cur, panicked>>
  BY Zenon DEF bwrite
<1>2. pc \in [Proc -> Pcs] /\ pc[p] \in {"use", "changed"} /\ cur[p] \in Buf /\ dirty \in [Buf -> BOOLEAN]
  BY Zenon, Mine DEF bwrite, Core, TypeOK, FlagsOK, ProcOK
<1>3. pc' \in [Proc -> Pcs] /\ \A q \in Proc : pc'[q] = IF q = p THEN "iderw" ELSE pc[q]
  BY Zenon, <1>2 DEF bwrite, Goto, Pcs
<1>4. dirty' \in [Buf -> BOOLEAN] /\ \A b \in Buf : dirty'[b] <=> (dirty[b] \/ b = cur[p])
  BY Zenon, <1>2 DEF bwrite
<1>5. valid[cur[p]]
  BY Zenon, <1>2 DEF Core, UsersSeeValid
<1>6. \A q \in Proc : Owns(q)' <=> Owns(q)
  BY Zenon, <1>2, <1>3 DEF Owns
<1>7. \A q \in Proc : Owns(q) /\ cur[q] = cur[p] => q = p
  BY Zenon, <1>2 DEF Core, UseInv, Owns
<1>8. TypeOK'
  BY Zenon, <1>1, <1>3, <1>4 DEF Core, TypeOK, FlagsOK, BlockOK, DataOK, ListOK, ProcOK
<1>9. UseInv'
  <2>1. \A q, r \in Proc : Owns(q)' /\ Owns(r)' /\ cur[q] = cur[r] => q = r
    BY Zenon, <1>6 DEF Core, UseInv
  <2>2. \A a \in Buf : locked'[a] <=> \E q \in Proc : Owns(q)' /\ cur[q] = a
    BY Zenon, <1>1, <1>6 DEF Core, UseInv
  <2>3. \A q \in Proc : pc'[q] = "idle" <=> pc[q] = "idle"
    BY Zenon, <1>2, <1>3
  <2> QED
    BY Zenon, <1>1, <2>1, <2>2, <2>3, UseFrame
<1>10. FlagInv'
  BY Zenon, <1>1, <1>4, <1>5 DEF Core, FlagInv
<1>11. QueueInv'
  <2>1. \A q \in Proc : pc'[q] \in {"iowait", "iowake"} <=> pc[q] \in {"iowait", "iowake"}
    BY Zenon, <1>2, <1>3
  <2>2. \A q \in Proc : pc'[q] = "iowait" => pc[q] = "iowait"
    BY Zenon, <1>3
  <2>3. ASSUME NEW q \in Proc, pc'[q] = "iderw" PROVE ~IoFinished(cur[q])'
    <3>1. q = p \/ pc[q] = "iderw"
      BY Zenon, <1>3, <2>3
    <3>2. cur[q] \in Buf /\ (dirty'[cur[q]] <=> (dirty[cur[q]] \/ cur[q] = cur[p]))
      BY Zenon, <1>2, <1>4, <3>1, Mine
    <3>3. dirty'[cur[q]] \/ ~valid[cur[q]]
      BY Zenon, <3>1, <3>2 DEF Core, QueueInv, IoFinished
    <3> QED
      BY Zenon, <1>1, <3>3 DEF IoFinished
  <2>4. ASSUME NEW q \in Proc, pc[q] \in {"iowait", "iowake"} PROVE IoFinished(cur[q])' <=> IoFinished(cur[q])
    <3>1. cur[q] # cur[p]
      BY Zenon, <1>2, <1>7, <2>4 DEF Owns
    <3>2. cur[q] \in Buf
      BY Zenon, <2>4, Mine
    <3>3. dirty'[cur[q]] <=> dirty[cur[q]]
      BY Zenon, <1>4, <3>1, <3>2
    <3> QED
      BY Zenon, <1>1, <3>3 DEF IoFinished
  <2> QED
    BY Zenon, <1>1, <2>1, <2>2, <2>3, <2>4, QueueFrame
<1>12. Pinned' \subseteq Pinned
  <2>1. cur[p] \notin Pinned'
    BY Zenon, <1>1, <1>3 DEF Pinned
  <2>2. \A q \in Proc : pc[q] \in {"iderw", "iowait", "iowake"} => pc'[q] \in {"iderw", "iowait", "iowake"}
    BY Zenon, <1>3
  <2> QED
    BY Zenon, <1>1, <1>4, <2>1, <2>2 DEF Pinned
<1>13. WaitInv' /\ UsersSeeValid'
  BY Zenon, <1>1, <1>3 DEF Core, WaitInv, UsersSeeValid
<1>14. CleanMeansStored'
  <2>1. \A q \in Proc : pc[q] = "changed" => pc'[q] = "changed" \/ dirty'[cur[q]]
    BY Zenon, <1>2, <1>3, <1>4
  <2>2. \A b \in Buf : valid'[b] /\ ~dirty'[b] => valid[b] /\ ~dirty[b]
    BY Zenon, <1>1, <1>4
  <2> QED
    BY Zenon, <1>1, <2>1, <2>2, CleanFrame
<1> QED
  BY Zenon, <1>1, <1>8, <1>9, <1>10, <1>11, <1>12, <1>13, <1>14, Frames DEF Core

(* log_write: one more pinned buffer, unless it is pinned already. *)
LEMMA LogWriteInd ==
  ASSUME Core, NEW p \in Proc, log_write(p)
  PROVE  Core' /\ Pinned' \subseteq Pinned \cup {cur[p]} /\ (dirty[cur[p]] => cur[p] \in Pinned)
<1>1. UNCHANGED <<blockno, valid, refcnt, data, locked, lru, idequeue, active, disk, cur, panicked>>
  BY Zenon DEF log_write
<1>2. pc \in [Proc -> Pcs] /\ pc[p] \in {"changed"} /\ cur[p] \in Buf /\ dirty \in [Buf -> BOOLEAN]
  BY Zenon, Mine DEF log_write, At, Core, TypeOK, FlagsOK, ProcOK
<1>3. pc' \in [Proc -> Pcs] /\ \A q \in Proc : pc'[q] = IF q = p THEN "use" ELSE pc[q]
  BY Zenon, <1>2 DEF log_write, Goto, Pcs
<1>4. dirty' \in [Buf -> BOOLEAN] /\ \A b \in Buf : dirty'[b] <=> (dirty[b] \/ b = cur[p])
  BY Zenon, <1>2 DEF log_write
<1>5. valid[cur[p]]
  BY Zenon, <1>2 DEF Core, UsersSeeValid
<1>6. \A q \in Proc : Owns(q)' <=> Owns(q)
  BY Zenon, <1>2, <1>3 DEF Owns
<1>7. \A q \in Proc : Owns(q) /\ cur[q] = cur[p] => q = p
  BY Zenon, <1>2 DEF Core, UseInv, Owns
<1>8. TypeOK'
  BY Zenon, <1>1, <1>3, <1>4 DEF Core, TypeOK, FlagsOK, BlockOK, DataOK, ListOK, ProcOK
<1>9. UseInv'
  <2>1. \A q, r \in Proc : Owns(q)' /\ Owns(r)' /\ cur[q] = cur[r] => q = r
    BY Zenon, <1>6 DEF Core, UseInv
  <2>2. \A a \in Buf : locked'[a] <=> \E q \in Proc : Owns(q)' /\ cur[q] = a
    BY Zenon, <1>1, <1>6 DEF Core, UseInv
  <2>3. \A q \in Proc : pc'[q] = "idle" <=> pc[q] = "idle"
    BY Zenon, <1>2, <1>3
  <2> QED
    BY Zenon, <1>1, <2>1, <2>2, <2>3, UseFrame
<1>10. FlagInv'
  BY Zenon, <1>1, <1>4, <1>5 DEF Core, FlagInv
<1>11. QueueInv'
  <2>1. \A q \in Proc : pc'[q] \in {"iowait", "iowake"} <=> pc[q] \in {"iowait", "iowake"}
    BY Zenon, <1>2, <1>3
  <2>2. \A q \in Proc : pc'[q] = "iowait" => pc[q] = "iowait"
    BY Zenon, <1>3
  <2>3. ASSUME NEW q \in Proc, pc'[q] = "iderw" PROVE ~IoFinished(cur[q])'
    <3>1. q = p \/ pc[q] = "iderw"
      BY Zenon, <1>3, <2>3
    <3>2. cur[q] \in Buf /\ (dirty'[cur[q]] <=> (dirty[cur[q]] \/ cur[q] = cur[p]))
      BY Zenon, <1>2, <1>4, <3>1, Mine
    <3>3. dirty'[cur[q]] \/ ~valid[cur[q]]
      BY Zenon, <3>1, <3>2 DEF Core, QueueInv, IoFinished
    <3> QED
      BY Zenon, <1>1, <3>3 DEF IoFinished
  <2>4. ASSUME NEW q \in Proc, pc[q] \in {"iowait", "iowake"} PROVE IoFinished(cur[q])' <=> IoFinished(cur[q])
    <3>1. cur[q] # cur[p]
      BY Zenon, <1>2, <1>7, <2>4 DEF Owns
    <3>2. cur[q] \in Buf
      BY Zenon, <2>4, Mine
    <3>3. dirty'[cur[q]] <=> dirty[cur[q]]
      BY Zenon, <1>4, <3>1, <3>2
    <3> QED
      BY Zenon, <1>1, <3>3 DEF IoFinished
  <2> QED
    BY Zenon, <1>1, <2>1, <2>2, <2>3, <2>4, QueueFrame
<1>12. Pinned' \subseteq Pinned \cup {cur[p]} /\ (dirty[cur[p]] => cur[p] \in Pinned)
  <2>1. \A q \in Proc : pc[q] \in {"iderw", "iowait", "iowake"} => pc'[q] \in {"iderw", "iowait", "iowake"}
    BY Zenon, <1>2, <1>3
  <2>2. Pinned' \subseteq Pinned \cup {cur[p]}
    BY Zenon, <1>1, <1>4, <2>1 DEF Pinned
  <2>3. \A q \in Proc : cur[q] = cur[p] => pc[q] \notin {"iderw", "iowait", "iowake"}
    BY Zenon, <1>2, <1>7 DEF Owns
  <2> QED
    BY Zenon, <1>2, <2>2, <2>3 DEF Pinned
<1>13. WaitInv' /\ UsersSeeValid'
  BY Zenon, <1>1, <1>2, <1>3 DEF Core, WaitInv, UsersSeeValid
<1>14. CleanMeansStored'
  <2>1. \A q \in Proc : pc[q] = "changed" => pc'[q] = "changed" \/ dirty'[cur[q]]
    BY Zenon, <1>2, <1>3, <1>4
  <2>2. \A b \in Buf : valid'[b] /\ ~dirty'[b] => valid[b] /\ ~dirty[b]
    BY Zenon, <1>1, <1>4
  <2> QED
    BY Zenon, <1>1, <2>1, <2>2, CleanFrame
<1> QED
  BY Zenon, <1>1, <1>8, <1>9, <1>10, <1>11, <1>12, <1>13, <1>14, Frames DEF Core

(* The owner changes the contents. *)
LEMMA ChangeInd ==
  ASSUME Core, NEW p \in Proc, NEW v \in Val, change(p, v)
  PROVE  Core' /\ Pinned' \subseteq Pinned
<1>1. UNCHANGED <<blockno, valid, dirty, refcnt, locked, lru, idequeue, active, disk, cur, panicked>>
  BY Zenon DEF change
<1>2. pc \in [Proc -> Pcs] /\ pc[p] \in {"use", "changed"} /\ cur[p] \in Buf /\ data \in [Buf -> Val]
  BY Zenon, Mine DEF change, Core, TypeOK, DataOK, ProcOK
<1>3. pc' \in [Proc -> Pcs] /\ \A q \in Proc : pc'[q] = IF q = p THEN "changed" ELSE pc[q]
  BY Zenon, <1>2 DEF change, Goto, Pcs
<1>4. data' \in [Buf -> Val] /\ \A b \in Buf : b # cur[p] => data'[b] = data[b]
  BY Zenon, <1>2 DEF change
<1>5. \A q \in Proc : Owns(q)' <=> Owns(q)
  BY Zenon, <1>2, <1>3 DEF Owns
<1>6. TypeOK'
  BY Zenon, <1>1, <1>3, <1>4 DEF Core, TypeOK, FlagsOK, BlockOK, DataOK, ListOK, ProcOK
<1>7. UseInv'
  <2>1. \A q, r \in Proc : Owns(q)' /\ Owns(r)' /\ cur[q] = cur[r] => q = r
    BY Zenon, <1>5 DEF Core, UseInv
  <2>2. \A a \in Buf : locked'[a] <=> \E q \in Proc : Owns(q)' /\ cur[q] = a
    BY Zenon, <1>1, <1>5 DEF Core, UseInv
  <2>3. \A q \in Proc : pc'[q] = "idle" <=> pc[q] = "idle"
    BY Zenon, <1>2, <1>3
  <2> QED
    BY Zenon, <1>1, <2>1, <2>2, <2>3, UseFrame
<1>8. QueueInv'
  <2>1. \A q \in Proc : pc'[q] \in {"iowait", "iowake"} <=> pc[q] \in {"iowait", "iowake"}
    BY Zenon, <1>2, <1>3
  <2>2. \A q \in Proc : (pc'[q] = "iowait" => pc[q] = "iowait") /\ (pc'[q] = "iderw" => pc[q] = "iderw")
    BY Zenon, <1>3
  <2>3. \A q \in Proc : IoFinished(cur[q])' <=> IoFinished(cur[q])
    BY Zenon, <1>1 DEF IoFinished
  <2>4. \A q \in Proc : pc'[q] = "iderw" => ~IoFinished(cur[q])'
    BY Zenon, <2>2, <2>3 DEF Core, QueueInv
  <2> QED
    BY Zenon, <1>1, <2>1, <2>2, <2>3, <2>4, QueueFrame
<1>9. Pinned' \subseteq Pinned
  <2>1. \A q \in Proc : pc[q] \in {"iderw", "iowait", "iowake"} => pc'[q] \in {"iderw", "iowait", "iowake"}
    BY Zenon, <1>2, <1>3
  <2> QED
    BY Zenon, <1>1, <2>1 DEF Pinned
<1>10. WaitInv' /\ UsersSeeValid'
  BY Zenon, <1>1, <1>2, <1>3 DEF Core, WaitInv, UsersSeeValid
<1>11. CleanMeansStored'
  <2> SUFFICES ASSUME NEW b \in Buf, valid[b], ~dirty[b], \A q \in Proc : cur[q] = b => pc'[q] # "changed"
               PROVE  data'[b] = disk[blockno[b]]
    BY Zenon, <1>1 DEF CleanMeansStored
  <2>1. b # cur[p]
    BY Zenon, <1>3
  <2>2. \A q \in Proc : cur[q] = b => pc[q] # "changed"
    BY Zenon, <1>3
  <2>3. data[b] = disk[blockno[b]]
    BY Zenon, <2>2 DEF Core, CleanMeansStored
  <2> QED
    BY Zenon, <1>4, <2>1, <2>3
<1> QED
  BY Zenon, <1>1, <1>6, <1>7, <1>8, <1>9, <1>10, <1>11, Frames DEF Core

(* releasesleep: no owner, and all who waited for the lock try again. *)
LEMMA ReleasesleepInd ==
  ASSUME Core, NEW p \in Proc, releasesleep(p)
  PROVE  Core' /\ Pinned' \subseteq Pinned
<1>1. UNCHANGED <<blockno, valid, dirty, refcnt, data, lru, idequeue, active, disk, cur, panicked>>
  BY Zenon DEF releasesleep
<1>2. pc \in [Proc -> Pcs] /\ pc[p] = "use" /\ cur[p] \in Buf /\ locked \in [Buf -> BOOLEAN]
  BY Zenon, Mine DEF releasesleep, At, Core, TypeOK, FlagsOK, ProcOK
<1>3. pc' \in [Proc -> Pcs]
  BY Zenon, <1>2 DEF releasesleep, Wake, Pcs
<1>4. \A q \in Proc : pc'[q] = IF q = p THEN "deref"
                               ELSE IF pc[q] = "lockwait" /\ cur[q] = cur[p] THEN "lock" ELSE pc[q]
  BY Zenon, <1>2 DEF releasesleep, Wake
<1>5. locked' \in [Buf -> BOOLEAN] /\ \A b \in Buf : locked'[b] <=> (locked[b] /\ b # cur[p])
  BY Zenon, <1>2 DEF releasesleep
<1>6. \A q \in Proc : Owns(q)' <=> (Owns(q) /\ q # p)
  BY Zenon, <1>4 DEF Owns
<1>7. \A q \in Proc : Owns(q) /\ cur[q] = cur[p] => q = p
  BY Zenon, <1>2 DEF Core, UseInv, Owns
<1>8. TypeOK'
  BY Zenon, <1>1, <1>3, <1>5 DEF Core, TypeOK, FlagsOK, BlockOK, DataOK, ListOK, ProcOK
<1>9. UseInv'
  <2>1. \A q, r \in Proc : Owns(q)' /\ Owns(r)' /\ cur[q] = cur[r] => q = r
    BY Zenon, <1>6 DEF Core, UseInv
  <2>2. \A a \in Buf : locked[a] <=> \E q \in Proc : Owns(q) /\ cur[q] = a
    BY Zenon DEF Core, UseInv
  <2>3. \A a \in Buf : locked'[a] <=> \E q \in Proc : Owns(q)' /\ cur[q] = a
    BY ZenonT(30), <1>5, <1>6, <1>7, <2>2
  <2>4. \A q \in Proc : pc'[q] = "idle" <=> pc[q] = "idle"
    BY Zenon, <1>2, <1>4
  <2> QED
    BY Zenon, <1>1, <2>1, <2>3, <2>4, UseFrame
<1>10. QueueInv'
  <2>1. \A q \in Proc : pc'[q] \in {"iowait", "iowake"} <=> pc[q] \in {"iowait", "iowake"}
    BY Zenon, <1>2, <1>4
  <2>2. \A q \in Proc : (pc'[q] = "iowait" => pc[q] = "iowait") /\ (pc'[q] = "iderw" => pc[q] = "iderw")
    BY Zenon, <1>4
  <2>3. \A q \in Proc : IoFinished(cur[q])' <=> IoFinished(cur[q])
    BY Zenon, <1>1 DEF IoFinished
  <2>4. \A q \in Proc : pc'[q] = "iderw" => ~IoFinished(cur[q])'
    BY Zenon, <2>2, <2>3 DEF Core, QueueInv
  <2> QED
    BY Zenon, <1>1, <2>1, <2>2, <2>3, <2>4, QueueFrame
<1>11. Pinned' \subseteq Pinned
  <2>1. \A q \in Proc : pc[q] \in {"iderw", "iowait", "iowake"} => pc'[q] \in {"iderw", "iowait", "iowake"}
    BY Zenon, <1>2, <1>4
  <2> QED
    BY Zenon, <1>1, <2>1 DEF Pinned
<1>12. WaitInv'
  <2> SUFFICES ASSUME NEW q \in Proc, pc'[q] = "lockwait" PROVE locked'[cur[q]]
    BY Zenon, <1>1 DEF WaitInv
  <2>1. pc[q] = "lockwait" /\ cur[q] # cur[p]
    BY Zenon, <1>4
  <2>2. cur[q] \in Buf
    BY Zenon, <2>1, Mine
  <2> QED
    BY Zenon, <1>5, <2>1, <2>2 DEF Core, WaitInv
<1>13. UsersSeeValid'
  BY Zenon, <1>1, <1>4 DEF Core, UsersSeeValid
<1>14. CleanMeansStored'
  <2>1. \A q \in Proc : pc[q] = "changed" => pc'[q] = "changed"
    BY Zenon, <1>2, <1>4
  <2> QED
    BY Zenon, <1>1, <2>1, CleanFrame
<1> QED
  BY Zenon, <1>1, <1>8, <1>9, <1>10, <1>11, <1>12, <1>13, <1>14, Frames DEF Core

(* iderw: the buffer, which is not in the queue yet, goes to its end. *)
LEMMA IderwInd ==
  ASSUME Core, NEW p \in Proc, iderw(p)
  PROVE  Core' /\ Pinned' \subseteq Pinned
<1>1. UNCHANGED <<blockno, valid, dirty, refcnt, data, locked, lru, disk, cur, panicked>>
  BY Zenon DEF iderw
<1>2. pc \in [Proc -> Pcs] /\ pc[p] = "iderw" /\ cur[p] \in Buf /\ idequeue \in Seq(Buf) /\ active \in Buf \cup {NoBuf}
  BY Zenon, Mine DEF iderw, At, Core, TypeOK, ListOK, ProcOK
<1>3. pc' \in [Proc -> Pcs] /\ \A q \in Proc : pc'[q] = IF q = p THEN "iowait" ELSE pc[q]
  BY Zenon, <1>2 DEF iderw, Goto, Pcs
<1>4. /\ idequeue' \in Seq(Buf) /\ Len(idequeue') = Len(idequeue) + 1
      /\ idequeue'[Len(idequeue) + 1] = cur[p] /\ \A i \in 1 .. Len(idequeue) : idequeue'[i] = idequeue[i]
  BY <1>2 DEF iderw
<1>5. active' \in Buf \cup {NoBuf} /\ active' = IF idequeue = <<>> THEN cur[p] ELSE active
  BY Zenon, <1>2 DEF iderw
<1>6. \A q \in Proc : Owns(q)' <=> Owns(q)
  BY Zenon, <1>2, <1>3 DEF Owns
<1>7. \A q \in Proc : Owns(q) /\ cur[q] = cur[p] => q = p
  BY Zenon, <1>2 DEF Core, UseInv, Owns
<1>8. ~Queued(cur[p])
  <2> SUFFICES ASSUME Queued(cur[p]) PROVE FALSE
    BY Zenon
  <2>1. PICK q \in Proc : pc[q] \in {"iowait", "iowake"} /\ cur[q] = cur[p]
    BY Zenon, <1>2 DEF Core, QueueInv
  <2> QED
    BY Zenon, <1>2, <1>7, <2>1 DEF Owns
<1>9. \A a : Queued(a)' <=> (Queued(a) \/ a = cur[p])
  <2> SUFFICES ASSUME NEW a PROVE Queued(a)' <=> (Queued(a) \/ a = cur[p])
    BY Zenon
  <2>1. Len(idequeue) \in Nat
    OBVIOUS
  <2>2. ASSUME Queued(a)' PROVE Queued(a) \/ a = cur[p]
    <3>1. PICK i \in 1 .. Len(idequeue) + 1 : idequeue'[i] = a
      BY Zenon, <1>4, <2>2 DEF Queued
    <3>2. i = Len(idequeue) + 1 \/ i \in 1 .. Len(idequeue)
      OBVIOUS
    <3> QED
      BY Zenon, <1>4, <3>1, <3>2 DEF Queued
  <2>3. ASSUME Queued(a) PROVE Queued(a)'
    <3>1. PICK i \in 1 .. Len(idequeue) : idequeue[i] = a
      BY Zenon, <2>3 DEF Queued
    <3>2. i \in 1 .. Len(idequeue') /\ idequeue'[i] = a
      BY <1>4, <3>1
    <3> QED
      BY Zenon, <3>2 DEF Queued
  <2>4. ASSUME a = cur[p] PROVE Queued(a)'
    <3>1. Len(idequeue) + 1 \in 1 .. Len(idequeue') /\ idequeue'[Len(idequeue) + 1] = a
      BY <1>4, <2>4
    <3> QED
      BY Zenon, <3>1 DEF Queued
  <2> QED
    BY Zenon, <2>2, <2>3, <2>4
<1>10. TypeOK'
  BY Zenon, <1>1, <1>3, <1>4, <1>5 DEF Core, TypeOK, FlagsOK, BlockOK, DataOK, ListOK, ProcOK
<1>11. UseInv'
  <2>1. \A q, r \in Proc : Owns(q)' /\ Owns(r)' /\ cur[q] = cur[r] => q = r
    BY Zenon, <1>6 DEF Core, UseInv
  <2>2. \A a \in Buf : locked'[a] <=> \E q \in Proc : Owns(q)' /\ cur[q] = a
    BY Zenon, <1>1, <1>6 DEF Core, UseInv
  <2>3. \A q \in Proc : pc'[q] = "idle" <=> pc[q] = "idle"
    BY Zenon, <1>2, <1>3
  <2> QED
    BY Zenon, <1>1, <2>1, <2>2, <2>3, UseFrame
<1>12. QueueInv'
  <2>1. \A q \in Proc : IoFinished(cur[q])' <=> IoFinished(cur[q])
    BY Zenon, <1>1 DEF IoFinished
  <2>2. ASSUME NEW i \in 1 .. Len(idequeue'), NEW j \in 1 .. Len(idequeue'), idequeue'[i] = idequeue'[j] PROVE i = j
    <3>1. Len(idequeue) \in Nat
      OBVIOUS
    <3>2. \A k \in 1 .. Len(idequeue') : k = Len(idequeue) + 1 \/ k \in 1 .. Len(idequeue)
      BY <1>4
    <3>3. \A k \in 1 .. Len(idequeue) : idequeue[k] # cur[p]
      BY Zenon, <1>8 DEF Queued
    <3>4. \A k, m \in 1 .. Len(idequeue) : idequeue[k] = idequeue[m] => k = m
      BY Zenon DEF Core, QueueInv
    <3> QED
      BY Zenon, <1>4, <2>2, <3>2, <3>3, <3>4
  <2>3. ASSUME NEW b \in Buf, Queued(b)' PROVE \E q \in Proc : pc'[q] \in {"iowait", "iowake"} /\ cur[q] = b
    <3>1. CASE b = cur[p]
      BY Zenon, <1>3, <3>1
    <3>2. CASE Queued(b)
      <4>1. PICK q \in Proc : pc[q] \in {"iowait", "iowake"} /\ cur[q] = b
        BY Zenon, <3>2 DEF Core, QueueInv
      <4> QED
        BY Zenon, <1>3, <4>1
    <3> QED
      BY Zenon, <1>9, <2>3, <3>1, <3>2
  <2>4. \A q \in Proc : pc'[q] = "iderw" => ~IoFinished(cur[q])
    BY Zenon, <1>3 DEF Core, QueueInv
  <2>5. ASSUME NEW q \in Proc, pc'[q] \in {"iowait", "iowake"}
        PROVE  (Queued(cur[q])' <=> ~IoFinished(cur[q])) /\ (pc'[q] = "iowait" => Queued(cur[q])')
    <3>1. CASE q = p
      BY Zenon, <1>1, <1>2, <1>9, <3>1 DEF Core, QueueInv
    <3>2. CASE q # p
      <4>1. pc[q] = pc'[q] /\ cur[q] # cur[p]
        BY Zenon, <1>3, <1>7, <2>5, <3>2 DEF Owns
      <4>2. Queued(cur[q])' <=> Queued(cur[q])
        BY Zenon, <1>1, <1>9, <4>1
      <4> QED
        BY Zenon, <2>5, <4>1, <4>2 DEF Core, QueueInv
    <3> QED
      BY Zenon, <3>1, <3>2
  <2>6. active' = IF idequeue' = <<>> THEN NoBuf ELSE Head(idequeue')
    <3>1. idequeue' # <<>> /\ Head(idequeue') = IF idequeue = <<>> THEN cur[p] ELSE Head(idequeue)
      BY DEF iderw
    <3> QED
      BY Zenon, <1>5, <3>1 DEF Core, QueueInv
  <2> QED
    BY Zenon, <1>1, <2>1, <2>2, <2>3, <2>4, <2>5, <2>6 DEF QueueInv
<1>13. Pinned' \subseteq Pinned
  <2>1. \A q \in Proc : pc[q] \in {"iderw", "iowait", "iowake"} => pc'[q] \in {"iderw", "iowait", "iowake"}
    BY Zenon, <1>3
  <2> QED
    BY Zenon, <1>1, <2>1 DEF Pinned
<1>14. WaitInv' /\ UsersSeeValid'
  BY Zenon, <1>1, <1>3 DEF Core, WaitInv, UsersSeeValid
<1>15. CleanMeansStored'
  <2>1. \A q \in Proc : pc[q] = "changed" => pc'[q] = "changed"
    BY Zenon, <1>2, <1>3
  <2> QED
    BY Zenon, <1>1, <2>1, CleanFrame
<1> QED
  BY Zenon, <1>1, <1>10, <1>11, <1>12, <1>13, <1>14, <1>15, Frames DEF Core

(* What ideintr finds: the disk was working on the head of the queue, for  *)
(* a process that waits in iderw.                                          *)
LEMMA Interrupted ==
  ASSUME Core, ideintr(TRUE)
  PROVE  /\ active \in Buf /\ active = Head(idequeue) /\ idequeue # <<>> /\ blockno[active] \in Block
         /\ dirty[active] \/ ~valid[active]
         /\ \E p \in Proc : pc[p] \in {"iowait", "iowake"} /\ cur[p] = active
         /\ \A a : Queued(a)' <=> (Queued(a) /\ a # active)
<1>1. idequeue \in Seq(Buf) /\ idequeue # <<>> /\ active = Head(idequeue) /\ idequeue' = Tail(idequeue)
  BY Zenon DEF ideintr, Core, TypeOK, ListOK, QueueInv
<1>2. Len(idequeue) \in Nat \ {0} /\ active = idequeue[1] /\ active \in Buf
  BY <1>1
<1>3. Len(idequeue') = Len(idequeue) - 1 /\ \A i \in 1 .. Len(idequeue) - 1 : idequeue'[i] = idequeue[i + 1]
  BY <1>1
<1>4. Queued(active)
  BY <1>2 DEF Queued
<1>5. PICK p \in Proc : pc[p] \in {"iowait", "iowake"} /\ cur[p] = active
  BY Zenon, <1>2, <1>4 DEF Core, QueueInv
<1>6. ~IoFinished(active)
  BY ZenonT(30), <1>4, <1>5 DEF Core, QueueInv
<1>7. blockno[active] \in Block
  BY Zenon, <1>5, Mine
<1>8. ASSUME NEW a PROVE Queued(a)' <=> (Queued(a) /\ a # active)
  <2>1. ASSUME Queued(a)' PROVE Queued(a) /\ a # active
    <3>1. PICK i \in 1 .. Len(idequeue) - 1 : idequeue[i + 1] = a
      BY Zenon, <1>3, <2>1 DEF Queued
    <3>2. i + 1 \in 1 .. Len(idequeue) /\ 1 \in 1 .. Len(idequeue) /\ i + 1 # 1
      OBVIOUS
    <3>3. idequeue[i + 1] # idequeue[1]
      BY Zenon, <3>2 DEF Core, QueueInv
    <3> QED
      BY Zenon, <1>2, <3>1, <3>2, <3>3 DEF Queued
  <2>2. ASSUME Queued(a), a # active PROVE Queued(a)'
    <3>1. PICK i \in 1 .. Len(idequeue) : idequeue[i] = a
      BY Zenon, <2>2 DEF Queued
    <3>2. i # 1
      BY Zenon, <1>2, <2>2, <3>1
    <3>3. i - 1 \in 1 .. Len(idequeue) - 1 /\ (i - 1) + 1 = i
      BY <3>2
    <3>4. i - 1 \in 1 .. Len(idequeue') /\ idequeue'[i - 1] = a
      BY Zenon, <1>3, <3>1, <3>3
    <3> QED
      BY Zenon, <3>4 DEF Queued
  <2> QED
    BY Zenon, <2>1, <2>2
<1> QED
  BY Zenon, <1>1, <1>2, <1>5, <1>6, <1>7, <1>8 DEF IoFinished

(* ideintr: the head of the queue is done, and its flags say so. *)
LEMMA IdeintrInd ==
  ASSUME Core, ideintr(TRUE)
  PROVE  Core' /\ Pinned' \subseteq Pinned
<1> DEFINE b == active
<1>1. UNCHANGED <<blockno, refcnt, locked, lru, cur, panicked>> /\ idequeue' = Tail(idequeue)
  BY Zenon DEF ideintr
<1>2. /\ b \in Buf /\ b = Head(idequeue) /\ idequeue # <<>> /\ blockno[b] \in Block /\ (dirty[b] \/ ~valid[b])
      /\ \A a : Queued(a)' <=> (Queued(a) /\ a # b)
  BY Zenon, Interrupted
<1>3. pc \in [Proc -> Pcs] /\ idequeue \in Seq(Buf) /\ disk \in [Block -> Val] /\ data \in [Buf -> Val]
  BY Zenon DEF Core, TypeOK, DataOK, ListOK, ProcOK
<1>4. valid' \in [Buf -> BOOLEAN] /\ \A a \in Buf : valid'[a] <=> (valid[a] \/ a = b)
  BY Zenon, <1>2 DEF ideintr, Core, TypeOK, FlagsOK
<1>5. dirty' \in [Buf -> BOOLEAN] /\ \A a \in Buf : dirty'[a] <=> (dirty[a] /\ a # b)
  BY Zenon, <1>2 DEF ideintr, Core, TypeOK, FlagsOK
<1>6. pc' \in [Proc -> Pcs] /\ \A q \in Proc : pc'[q] = IF pc[q] = "iowait" /\ cur[q] = b THEN "iowake" ELSE pc[q]
  BY Zenon, <1>2, <1>3 DEF ideintr, Wake, Pcs
<1>7. IF dirty[b] THEN disk' = [disk EXCEPT ![blockno[b]] = data[b]] /\ data' = data
                  ELSE data' = [data EXCEPT ![b] = disk[blockno[b]]] /\ disk' = disk
  BY Zenon, <1>2 DEF ideintr
<1>8. disk' \in [Block -> Val] /\ data' \in [Buf -> Val]
  BY Zenon, <1>2, <1>3, <1>7
<1>9. \A a \in Buf \ {b} : data'[a] = data[a]
  BY Zenon, <1>3, <1>7
<1>10. \A k \in Block \ {blockno[b]} : disk'[k] = disk[k]
  BY Zenon, <1>3, <1>7
<1>11. data'[b] = disk'[blockno[b]]
  BY Zenon, <1>2, <1>3, <1>7
<1>12. idequeue' \in Seq(Buf) /\ active' = IF idequeue' = <<>> THEN NoBuf ELSE Head(idequeue')
  BY <1>3 DEF ideintr, StartNext
<1>13. active' \in Buf \cup {NoBuf}
  BY <1>12
<1> HIDE DEF b
<1>14. TypeOK'
  BY Zenon, <1>1, <1>4, <1>5, <1>6, <1>8, <1>12, <1>13 DEF Core, TypeOK, FlagsOK, BlockOK,
     DataOK, ListOK, ProcOK
<1>15. UseInv'
  <2>1. \A q \in Proc : Owns(q)' <=> Owns(q)
    BY Zenon, <1>6 DEF Owns
  <2>2. \A q, r \in Proc : Owns(q)' /\ Owns(r)' /\ cur[q] = cur[r] => q = r
    BY Zenon, <2>1 DEF Core, UseInv
  <2>3. \A a \in Buf : locked'[a] <=> \E q \in Proc : Owns(q)' /\ cur[q] = a
    BY Zenon, <1>1, <2>1 DEF Core, UseInv
  <2>4. \A q \in Proc : pc'[q] = "idle" <=> pc[q] = "idle"
    BY Zenon, <1>6
  <2> QED
    BY Zenon, <1>1, <2>2, <2>3, <2>4, UseFrame
<1>16. FlagInv'
  BY Zenon, <1>1, <1>2, <1>4, <1>5 DEF Core, FlagInv
<1>17. QueueInv'
  <2>1. ASSUME NEW i \in 1 .. Len(idequeue'), NEW j \in 1 .. Len(idequeue'), idequeue'[i] = idequeue'[j] PROVE i = j
    <3>1. Len(idequeue) \in Nat /\ Len(idequeue') = Len(idequeue) - 1 /\ \A k \in 1 .. Len(idequeue') : idequeue'[k] = idequeue[k + 1]
      BY <1>1
    <3>2. i + 1 \in 1 .. Len(idequeue) /\ j + 1 \in 1 .. Len(idequeue)
      BY <3>1
    <3>3. idequeue[i + 1] = idequeue[j + 1]
      BY Zenon, <2>1, <3>1
    <3>4. i + 1 = j + 1
      BY Zenon, <3>2, <3>3 DEF Core, QueueInv
    <3> QED
      BY <3>4
  <2>2. \A q \in Proc : pc'[q] \in {"iowait", "iowake"} <=> pc[q] \in {"iowait", "iowake"}
    BY Zenon, <1>6
  <2>3. \A a \in Buf : Queued(a)' => \E q \in Proc : pc'[q] \in {"iowait", "iowake"} /\ cur'[q] = a
    BY Zenon, <1>1, <1>2, <2>2 DEF Core, QueueInv
  <2>4. ASSUME NEW q \in Proc, pc'[q] = "iderw" PROVE ~IoFinished(cur[q])'
    <3>1. pc[q] = "iderw"
      BY Zenon, <1>6, <2>4
    <3>2. PICK r \in Proc : pc[r] \in {"iowait", "iowake"} /\ cur[r] = b
      BY Zenon, Interrupted DEF b
    <3>3. cur[q] # b
      BY Zenon, <3>1, <3>2 DEF Core, UseInv, Owns
    <3>4. cur[q] \in Buf /\ ~IoFinished(cur[q])
      BY Zenon, <3>1, Mine DEF Core, QueueInv
    <3> QED
      BY Zenon, <1>1, <1>4, <1>5, <3>3, <3>4 DEF IoFinished
  <2>5. ASSUME NEW q \in Proc, pc'[q] \in {"iowait", "iowake"}
        PROVE  (Queued(cur[q])' <=> ~IoFinished(cur[q])') /\ (pc'[q] = "iowait" => Queued(cur[q])')
    <3>1. cur[q] \in Buf /\ pc[q] \in {"iowait", "iowake"}
      BY Zenon, <2>2, <2>5, Mine
    <3>2. Queued(cur[q])' <=> (Queued(cur[q]) /\ cur[q] # b)
      BY Zenon, <1>1, <1>2
    <3>3. IoFinished(cur[q])' <=> (IoFinished(cur[q]) \/ cur[q] = b)
      BY Zenon, <1>1, <1>4, <1>5, <3>1 DEF IoFinished
    <3>4. pc'[q] = "iowait" => pc[q] = "iowait" /\ cur[q] # b
      BY Zenon, <1>6
    <3> QED
      BY Zenon, <3>1, <3>2, <3>3, <3>4 DEF Core, QueueInv
  <2> QED
    BY Zenon, <1>12, <2>1, <2>3, <2>4, <2>5 DEF QueueInv
<1>18. Pinned' \subseteq Pinned
  <2>1. \A q \in Proc : pc[q] \in {"iderw", "iowait", "iowake"} => pc'[q] \in {"iderw", "iowait", "iowake"}
    BY Zenon, <1>6
  <2> QED
    BY Zenon, <1>1, <1>5, <2>1 DEF Pinned
<1>19. WaitInv'
  BY Zenon, <1>1, <1>6 DEF Core, WaitInv
<1>20. UsersSeeValid'
  <2> SUFFICES ASSUME NEW q \in Proc, pc'[q] \in {"use", "changed"} PROVE valid'[cur[q]]
    BY Zenon, <1>1 DEF UsersSeeValid
  <2>1. pc[q] \in {"use", "changed"}
    BY Zenon, <1>6
  <2>2. cur[q] \in Buf
    BY Zenon, <2>1, Mine
  <2> QED
    BY Zenon, <1>4, <2>1, <2>2 DEF Core, UsersSeeValid
<1>21. CleanMeansStored'
  <2> SUFFICES ASSUME NEW a \in Buf, valid'[a], ~dirty'[a], \A q \in Proc : cur[q] = a => pc'[q] # "changed"
               PROVE  data'[a] = disk'[blockno[a]]
    BY Zenon, <1>1 DEF CleanMeansStored
  <2>1. CASE a = b
    BY Zenon, <1>11, <2>1
  <2>2. CASE a # b
    <3>1. valid[a] /\ ~dirty[a]
      BY Zenon, <1>4, <1>5, <2>2
    <3>2. \A q \in Proc : cur[q] = a => pc[q] # "changed"
      BY Zenon, <1>6
    <3>3. data[a] = disk[blockno[a]]
      BY Zenon, <3>1, <3>2 DEF Core, CleanMeansStored
    <3>4. blockno[a] \in Block /\ blockno[a] # blockno[b]
      BY Zenon, <1>2, <3>1, BufAssumption DEF Core, FlagInv, OneCopy
    <3> QED
      BY Zenon, <1>9, <1>10, <3>3, <3>4
  <2> QED
    BY Zenon, <2>1, <2>2
<1> QED
  BY Zenon, <1>1, <1>14, <1>15, <1>16, <1>17, <1>18, <1>19, <1>20, <1>21, Frames DEF Core

(* What bget does with a buffer it finds, with one it recycles, and with none. *)
Enters(p, b) ==
  /\ refcnt' = [refcnt EXCEPT ![b] = @ + 1] /\ cur' = [cur EXCEPT ![p] = b]
  /\ pc' = [pc EXCEPT ![p] = "lock"] /\ UNCHANGED panicked

Finds(p, b, k) == blockno[b] = k /\ Enters(p, b) /\ UNCHANGED <<blockno, valid, dirty>>

Recycles(p, b, k) ==
  /\ \A a \in Buf : blockno[a] # k
  /\ refcnt[b] = 0 /\ ~dirty[b] /\ Enters(p, b)
  /\ blockno' = [blockno EXCEPT ![b] = k] /\ valid' = [valid EXCEPT ![b] = FALSE]
  /\ dirty' = [dirty EXCEPT ![b] = FALSE]

FindsNone ==
  /\ \A b \in Buf : refcnt[b] # 0 \/ dirty[b]
  /\ panicked' = TRUE /\ UNCHANGED <<blockno, valid, dirty, refcnt, cur, pc>>

(* The two loops of bget have one of these results. *)
LEMMA BgetCases ==
  ASSUME Core, NEW p \in Proc, NEW k \in Block, bget(p, k)
  PROVE  /\ pc[p] = "idle" /\ UNCHANGED <<data, locked, lru, idequeue, active, disk>>
         /\ (\E b \in Buf : Finds(p, b, k) \/ Recycles(p, b, k)) \/ FindsNone
<1> DEFINE cached == {i \in Buf : Holds(lru[i], k)}
           unused == {i \in Buf : Unused(lru[i])}
<1>1. lru \in [Buf -> Buf] /\ \A b \in Buf : \E i \in Buf : lru[i] = b
  BY Zenon DEF Core, TypeOK, ListOK, LruInv
<1>2. \A i \in First(cached) : lru[i] \in Buf /\ blockno[lru[i]] = k
  BY Zenon, <1>1 DEF First, Holds
<1>3. \A i \in Last(unused) : lru[i] \in Buf /\ refcnt[lru[i]] = 0 /\ ~dirty[lru[i]]
  BY Zenon, <1>1 DEF Last, Unused
<1>4. cached = {} => \A b \in Buf : blockno[b] # k
  BY Zenon, <1>1 DEF Holds
<1>5. unused = {} => \A b \in Buf : refcnt[b] # 0 \/ dirty[b]
  BY ZenonT(30), <1>1 DEF Unused
<1>6. pc[p] = "idle" /\ UNCHANGED <<data, locked, lru, idequeue, active, disk>>
  BY Zenon DEF bget, At
<1>7. \/ \E i \in First(cached) : /\ refcnt' = [refcnt EXCEPT ![lru[i]] = @ + 1]
                                  /\ cur' = [cur EXCEPT ![p] = lru[i]] /\ pc' = [pc EXCEPT ![p] = "lock"]
                                  /\ UNCHANGED <<blockno, valid, dirty, panicked>>
      \/ /\ cached = {}
         /\ \E i \in Last(unused) : /\ blockno' = [blockno EXCEPT ![lru[i]] = k]
                                    /\ valid' = [valid EXCEPT ![lru[i]] = FALSE]
                                    /\ dirty' = [dirty EXCEPT ![lru[i]] = FALSE]
                                    /\ refcnt' = [refcnt EXCEPT ![lru[i]] = 1]
                                    /\ cur' = [cur EXCEPT ![p] = lru[i]] /\ pc' = [pc EXCEPT ![p] = "lock"]
                                    /\ UNCHANGED panicked
      \/ /\ unused = {} /\ panicked' = TRUE /\ UNCHANGED <<blockno, valid, dirty, refcnt, cur, pc>>
  BY Zenon DEF bget, Goto
<1> HIDE DEF cached, unused
<1>8. \A b \in Buf : refcnt[b] = 0 => [refcnt EXCEPT ![b] = 1] = [refcnt EXCEPT ![b] = @ + 1]
  OBVIOUS
<1> QED
  BY Zenon, <1>2, <1>3, <1>4, <1>5, <1>6, <1>7, <1>8 DEF Enters, Finds, Recycles, FindsNone

(* bget with a buffer: one more process uses b, which had the block before *)
(* or was used by nobody.                                                  *)
LEMMA EnterInd ==
  ASSUME Core, NEW p \in Proc, pc[p] = "idle", NEW b \in Buf,
         cur' = [cur EXCEPT ![p] = b], pc' = [pc EXCEPT ![p] = "lock"],
         refcnt' = [refcnt EXCEPT ![b] = @ + 1],
         blockno' \in [Buf -> Block \cup {NoBlock}], valid' \in [Buf -> BOOLEAN], dirty' \in [Buf -> BOOLEAN],
         blockno'[b] \in Block,
         \A a \in Buf \ {b} : /\ blockno'[a] = blockno[a] /\ blockno[a] # blockno'[b]
                              /\ (valid'[a] <=> valid[a]) /\ (dirty'[a] <=> dirty[a]),
         \/ blockno'[b] = blockno[b] /\ (valid'[b] <=> valid[b]) /\ (dirty'[b] <=> dirty[b])
         \/ ~valid'[b] /\ ~dirty'[b] /\ \A q \in Proc : cur[q] # b,
         UNCHANGED <<data, locked, lru, io, panicked>>
  PROVE  Core' /\ Pinned' \subseteq Pinned
<1>1. pc \in [Proc -> Pcs] /\ cur \in [Proc -> Buf \cup {NoBuf}] /\ refcnt \in [Buf -> Nat] /\ cur[p] = NoBuf
  BY Zenon DEF Core, TypeOK, BlockOK, ProcOK, UseInv
<1>2. pc' \in [Proc -> Pcs] /\ cur' \in [Proc -> Buf \cup {NoBuf}] /\ refcnt' \in [Buf -> Nat]
  BY <1>1 DEF Pcs
<1>3. \A q \in Proc : pc'[q] = (IF q = p THEN "lock" ELSE pc[q]) /\ cur'[q] = (IF q = p THEN b ELSE cur[q])
  BY Zenon, <1>1
<1>4. \A q \in Proc : cur[q] \in Buf => q # p
  BY Zenon, <1>1, Names
<1>5. \A q \in Proc \ {p} : cur[q] = b =>
        blockno'[b] = blockno[b] /\ (valid'[b] <=> valid[b]) /\ (dirty'[b] <=> dirty[b])
  BY Zenon
<1>6. \A q \in Proc \ {p} : cur[q] \in Buf =>
        /\ blockno'[cur[q]] = blockno[cur[q]]
        /\ (valid'[cur[q]] <=> valid[cur[q]]) /\ (dirty'[cur[q]] <=> dirty[cur[q]])
  OBVIOUS
<1>7. TypeOK'
  BY Zenon, <1>2 DEF Core, TypeOK, FlagsOK, BlockOK, DataOK, ListOK, ProcOK
<1>8. OneCopy'
  BY DEF Core, OneCopy
<1>9. UseInv'
  <2>1. \A q \in Proc : Owns(q)' <=> Owns(q)
    BY DEF Owns
  <2>2. \A q \in Proc : Owns(q) => q # p
    BY Zenon DEF Owns
  <2>3. \A q \in Proc : IF pc'[q] = "idle" THEN cur'[q] = NoBuf ELSE cur'[q] \in Buf /\ blockno'[cur'[q]] \in Block
    BY <1>3 DEF Core, UseInv
  <2>4. \A q, r \in Proc : Owns(q)' /\ Owns(r)' /\ cur'[q] = cur'[r] => q = r
    BY <2>1, <2>2 DEF Core, UseInv
  <2>5. \A a \in Buf : locked'[a] <=> \E q \in Proc : Owns(q)' /\ cur'[q] = a
    BY <2>1, <2>2 DEF Core, UseInv
  <2> QED
    BY Zenon, <2>3, <2>4, <2>5 DEF UseInv
<1>10. LruInv'
  BY Zenon DEF Core, LruInv
<1>11. FlagInv'
  BY Zenon DEF Core, FlagInv
<1>12. QueueInv'
  <2>1. \A a : Queued(a)' <=> Queued(a)
    BY Zenon DEF Queued
  <2>2. ASSUME NEW q \in Proc, pc'[q] \in {"iderw", "iowait", "iowake"}
        PROVE  q # p /\ pc'[q] = pc[q] /\ cur'[q] = cur[q] /\ cur[q] \in Buf
    BY <2>2, Mine
  <2>3. \A q \in Proc : pc'[q] \in {"iderw", "iowait", "iowake"} => (IoFinished(cur[q])' <=> IoFinished(cur[q]))
    BY Zenon, <1>6, <2>2 DEF IoFinished
  <2>4. \A q \in Proc : pc'[q] \in {"iderw", "iowait", "iowake"} => (Queued(cur[q])' <=> Queued(cur[q]))
    BY DEF Queued
  <2>5. \A a \in Buf : Queued(a)' => \E q \in Proc : pc'[q] \in {"iowait", "iowake"} /\ cur'[q] = a
    <3> SUFFICES ASSUME NEW a \in Buf, Queued(a)' PROVE \E q \in Proc : pc'[q] \in {"iowait", "iowake"} /\ cur'[q] = a
      BY Zenon
    <3>1. PICK q \in Proc : pc[q] \in {"iowait", "iowake"} /\ cur[q] = a
      BY Zenon, <2>1 DEF Core, QueueInv
    <3> QED
      BY ZenonT(30), <1>3, <3>1
  <2>6. \A q \in Proc : pc'[q] = "iderw" => ~IoFinished(cur[q])'
    BY <2>3 DEF Core, QueueInv
  <2>7. \A q \in Proc : pc'[q] \in {"iowait", "iowake"} => (Queued(cur[q])' <=> ~IoFinished(cur[q])')
    BY ZenonT(30), <2>2, <2>3, <2>4 DEF Core, QueueInv
  <2>8. \A q \in Proc : pc'[q] = "iowait" => Queued(cur[q])'
    BY <2>4 DEF Core, QueueInv
  <2>9. \A i, j \in 1 .. Len(idequeue') : idequeue'[i] = idequeue'[j] => i = j
    BY ZenonT(30) DEF Core, QueueInv
  <2>10. active' = IF idequeue' = <<>> THEN NoBuf ELSE Head(idequeue')
    BY Zenon DEF Core, QueueInv
  <2> QED
    BY Zenon, <2>5, <2>6, <2>7, <2>8, <2>9, <2>10 DEF QueueInv
<1>13. Pinned' \subseteq Pinned
  <2>1. \A a \in Buf : dirty'[a] => dirty[a]
    BY Zenon
  <2>2. \A a \in Buf : \A q \in Proc : cur[q] = a => cur'[q] = a /\ pc'[q] = pc[q]
    BY <1>4
  <2> QED
    BY DEF Pinned
<1>14. WaitInv'
  BY DEF Core, WaitInv
<1>15. UsersSeeValid'
  <2> SUFFICES ASSUME NEW q \in Proc, pc'[q] \in {"use", "changed"} PROVE valid'[cur'[q]]
    BY Zenon DEF UsersSeeValid
  <2>1. q # p /\ pc[q] \in {"use", "changed"} /\ cur'[q] = cur[q]
    OBVIOUS
  <2>2. cur[q] \in Buf /\ valid[cur[q]]
    BY Zenon, <2>1, Mine DEF Core, UsersSeeValid
  <2> QED
    BY Zenon, <2>1, <2>2
<1>16. CleanMeansStored'
  <2> SUFFICES ASSUME NEW a \in Buf, valid'[a], ~dirty'[a], \A q \in Proc : cur'[q] = a => pc'[q] # "changed"
               PROVE  data[a] = disk[blockno'[a]]
    BY Zenon DEF CleanMeansStored
  <2>1. blockno'[a] = blockno[a] /\ valid[a] /\ ~dirty[a]
    BY Zenon
  <2>2. \A q \in Proc : cur[q] = a => pc[q] # "changed"
    BY ZenonT(30), <1>3
  <2> QED
    BY ZenonT(30), <2>1, <2>2 DEF Core, CleanMeansStored
<1> QED
  BY Zenon, <1>7, <1>8, <1>9, <1>10, <1>11, <1>12, <1>13, <1>14, <1>15, <1>16 DEF Core

(* bget: the cached buffer, a recycled one, or the panic. *)
LEMMA BgetInd ==
  ASSUME Core, ZeroMeansUnused, NEW p \in Proc, NEW k \in Block, bget(p, k)
  PROVE  Core' /\ Pinned' \subseteq Pinned
<1>1. pc[p] = "idle" /\ UNCHANGED <<data, locked, lru, idequeue, active, disk>>
  BY Zenon, BgetCases
<1>2. /\ blockno \in [Buf -> Block \cup {NoBlock}] /\ valid \in [Buf -> BOOLEAN]
      /\ dirty \in [Buf -> BOOLEAN] /\ refcnt \in [Buf -> Nat]
  BY Zenon DEF Core, TypeOK, BlockOK, FlagsOK
<1>3. ASSUME NEW b \in Buf, Finds(p, b, k) PROVE Core' /\ Pinned' \subseteq Pinned
  <2>1. \A a \in Buf \ {b} : blockno[a] # blockno[b]
    BY Zenon, <1>3, BufAssumption DEF Core, OneCopy, Finds
  <2> QED
    BY Zenon, <1>1, <1>2, <1>3, <2>1, EnterInd DEF Finds, Enters
<1>4. ASSUME NEW b \in Buf, Recycles(p, b, k) PROVE Core' /\ Pinned' \subseteq Pinned
  <2>1. \A q \in Proc : cur[q] # b
    BY Zenon, <1>4 DEF ZeroMeansUnused, Recycles
  <2>2. /\ blockno' \in [Buf -> Block \cup {NoBlock}] /\ valid' \in [Buf -> BOOLEAN] /\ dirty' \in [Buf -> BOOLEAN]
        /\ blockno'[b] = k /\ ~valid'[b] /\ ~dirty'[b]
    BY Zenon, <1>2, <1>4 DEF Recycles
  <2>3. \A a \in Buf \ {b} : /\ blockno'[a] = blockno[a] /\ blockno[a] # blockno'[b]
                             /\ (valid'[a] <=> valid[a]) /\ (dirty'[a] <=> dirty[a])
    BY Zenon, <1>2, <1>4 DEF Recycles
  <2> QED
    BY Zenon, <1>1, <1>4, <2>1, <2>2, EnterInd DEF Recycles, Enters
<1>5. CASE FindsNone
  <2>1. TypeOK'
    BY Zenon, <1>1, <1>5 DEF Core, TypeOK, FlagsOK, BlockOK, DataOK, ListOK, ProcOK, FindsNone
  <2>2. OneCopy' /\ LruInv' /\ FlagInv'
    BY Zenon, <1>1, <1>5, Frames DEF FindsNone
  <2>3. UseInv' /\ WaitInv' /\ UsersSeeValid' /\ CleanMeansStored'
    BY ZenonT(30), <1>1, <1>5 DEF Core, UseInv, Owns, WaitInv, UsersSeeValid, CleanMeansStored, FindsNone
  <2>4. QueueInv' /\ Pinned' = Pinned
    BY ZenonT(30), <1>1, <1>5 DEF Core, QueueInv, Queued, IoFinished, Pinned, FindsNone
  <2> QED
    BY Zenon, <2>1, <2>2, <2>3, <2>4 DEF Core
<1> QED
  BY Zenon, <1>3, <1>4, <1>5, BgetCases

(* Moving a buffer to the head of the list keeps every buffer on it. *)
LEMMA MoveKeeps ==
  ASSUME lru \in [Buf -> Buf], LruInv, NEW b \in Buf
  PROVE  /\ MoveToFront(b) \in [Buf -> Buf]
         /\ \A a \in Buf : \E i \in Buf : MoveToFront(b)[i] = a
<1> DEFINE j == CHOOSE i \in Buf : lru[i] = b
           m == [i \in Buf |-> IF i = 1 THEN b ELSE IF i <= j THEN lru[i - 1] ELSE lru[i]]
<1>1. j \in Buf /\ lru[j] = b
  BY Zenon DEF LruInv
<1>2. MoveToFront(b) = m
  BY Zenon DEF MoveToFront
<1>3. \A i \in Buf : i \in Nat /\ 1 <= i /\ i <= NBUF /\ (i # 1 => i - 1 \in Buf)
  BY BufAssumption DEF Buf
<1> HIDE DEF j
<1>4. m \in [Buf -> Buf]
  BY Zenon, <1>3
<1>5. ASSUME NEW a \in Buf PROVE \E i \in Buf : m[i] = a
  <2>1. PICK n \in Buf : lru[n] = a
    BY Zenon DEF LruInv
  <2>2. n \in Nat /\ j \in Nat /\ 1 <= n /\ 1 <= j
    BY Zenon, <1>1, <1>3
  <2>3. CASE n = j
    <3>1. 1 \in Buf
      BY BufAssumption DEF Buf
    <3> QED
      BY Zenon, <1>1, <2>1, <2>3, <3>1
  <2>4. CASE n < j
    <3>1. n + 1 \in Buf /\ n + 1 # 1 /\ n + 1 <= j /\ (n + 1) - 1 = n
      BY <1>1, <2>4, BufAssumption DEF Buf
    <3>2. m[n + 1] = lru[(n + 1) - 1]
      BY Zenon, <3>1
    <3> QED
      BY Zenon, <2>1, <3>1
  <2>5. CASE n > j
    <3>1. n # 1 /\ ~(n <= j)
      BY <2>2, <2>5
    <3> QED
      BY Zenon, <2>1, <3>1
  <2> QED
    BY <2>2, <2>3, <2>4, <2>5
<1> QED
  BY Zenon, <1>2, <1>4, <1>5

(* brelse: one user less. *)
LEMMA BrelseInd ==
  ASSUME Core, ZeroMeansUnused, NEW p \in Proc, brelse(p)
  PROVE  Core' /\ Pinned' \subseteq Pinned
<1> DEFINE b == cur[p]
<1>1. UNCHANGED <<blockno, valid, dirty, data, locked, idequeue, active, disk, panicked>>
  BY Zenon DEF brelse
<1>2. /\ pc \in [Proc -> Pcs] /\ cur \in [Proc -> Buf \cup {NoBuf}] /\ refcnt \in [Buf -> Nat]
      /\ pc[p] = "deref" /\ b \in Buf
  BY Zenon, Mine DEF brelse, At, Core, TypeOK, BlockOK, ProcOK
<1>3. refcnt[b] # 0
  BY Zenon, <1>2 DEF ZeroMeansUnused
<1>4. refcnt' = [refcnt EXCEPT ![b] = @ - 1] /\ (lru' = lru \/ lru' = MoveToFront(b))
  BY Zenon DEF brelse, Drop
<1>5. pc' = [pc EXCEPT ![p] = "idle"] /\ cur' = [cur EXCEPT ![p] = NoBuf]
  BY Zenon DEF brelse, Goto
<1> HIDE DEF b
<1>6. pc' \in [Proc -> Pcs] /\ cur' \in [Proc -> Buf \cup {NoBuf}] /\ refcnt' \in [Buf -> Nat]
  BY <1>2, <1>3, <1>4, <1>5 DEF Pcs
<1>7. \A q \in Proc : pc'[q] = (IF q = p THEN "idle" ELSE pc[q]) /\ cur'[q] = (IF q = p THEN NoBuf ELSE cur[q])
  BY Zenon, <1>2, <1>5
<1>8. lru' \in [Buf -> Buf] /\ LruInv'
  <2>1. lru \in [Buf -> Buf] /\ LruInv
    BY Zenon DEF Core, TypeOK, ListOK
  <2>2. CASE lru' = lru
    BY Zenon, <2>1, <2>2 DEF LruInv
  <2>3. CASE lru' = MoveToFront(b)
    <3>1. MoveToFront(b) \in [Buf -> Buf] /\ \A a \in Buf : \E i \in Buf : MoveToFront(b)[i] = a
      BY Zenon, <1>2, <2>1, MoveKeeps
    <3> QED
      BY Zenon, <2>3, <3>1 DEF LruInv
  <2> QED
    BY Zenon, <1>4, <2>2, <2>3
<1>9. TypeOK'
  BY Zenon, <1>1, <1>6, <1>8 DEF Core, TypeOK, FlagsOK, BlockOK, DataOK, ListOK, ProcOK
<1>10. UseInv'
  <2>1. \A q \in Proc : (Owns(q)' <=> Owns(q)) /\ (Owns(q) => q # p)
    BY Zenon, <1>2, <1>7 DEF Owns
  <2>2. \A q \in Proc : IF pc'[q] = "idle" THEN cur'[q] = NoBuf ELSE cur'[q] \in Buf /\ blockno'[cur'[q]] \in Block
    BY ZenonT(30), <1>1, <1>7 DEF Core, UseInv
  <2>3. \A q, r \in Proc : Owns(q)' /\ Owns(r)' /\ cur'[q] = cur'[r] => q = r
    BY <1>7, <2>1 DEF Core, UseInv
  <2>4. \A a \in Buf : locked'[a] <=> \E q \in Proc : Owns(q)' /\ cur'[q] = a
    BY <1>1, <1>7, <2>1 DEF Core, UseInv
  <2> QED
    BY Zenon, <2>2, <2>3, <2>4 DEF UseInv
<1>11. QueueInv'
  <2>1. \A a : Queued(a)' <=> Queued(a)
    BY Zenon, <1>1 DEF Queued
  <2>2. \A q \in Proc : pc'[q] \in {"iderw", "iowait", "iowake"} => pc'[q] = pc[q] /\ cur'[q] = cur[q]
    BY Zenon, <1>7
  <2>3. \A q \in Proc : pc'[q] \in {"iderw", "iowait", "iowake"} =>
          (IoFinished(cur[q])' <=> IoFinished(cur[q])) /\ (Queued(cur[q])' <=> Queued(cur[q]))
    BY ZenonT(30), <1>1, <2>2 DEF IoFinished, Queued
  <2>4. \A a \in Buf : Queued(a)' => \E q \in Proc : pc'[q] \in {"iowait", "iowake"} /\ cur'[q] = a
    <3> SUFFICES ASSUME NEW a \in Buf, Queued(a)' PROVE \E q \in Proc : pc'[q] \in {"iowait", "iowake"} /\ cur'[q] = a
      BY Zenon
    <3>1. PICK q \in Proc : pc[q] \in {"iowait", "iowake"} /\ cur[q] = a
      BY Zenon, <2>1 DEF Core, QueueInv
    <3> QED
      BY Zenon, <1>2, <1>7, <3>1
  <2>5. \A q \in Proc : pc'[q] = "iderw" => ~IoFinished(cur[q])'
    BY <2>2, <2>3 DEF Core, QueueInv
  <2>6. \A q \in Proc : pc'[q] \in {"iowait", "iowake"} => (Queued(cur[q])' <=> ~IoFinished(cur[q])')
    BY Zenon, <2>2, <2>3 DEF Core, QueueInv
  <2>7. \A q \in Proc : pc'[q] = "iowait" => Queued(cur[q])'
    BY ZenonT(30), <2>2, <2>3 DEF Core, QueueInv
  <2>8. \A i, j \in 1 .. Len(idequeue') : idequeue'[i] = idequeue'[j] => i = j
    BY ZenonT(30), <1>1 DEF Core, QueueInv
  <2>9. active' = IF idequeue' = <<>> THEN NoBuf ELSE Head(idequeue')
    BY Zenon, <1>1 DEF Core, QueueInv
  <2> QED
    BY Zenon, <2>4, <2>5, <2>6, <2>7, <2>8, <2>9 DEF QueueInv
<1>12. Pinned' \subseteq Pinned
  <2>1. \A a \in Buf : \A q \in Proc : cur[q] = a /\ pc[q] \in {"iderw", "iowait", "iowake"} => cur'[q] = a /\ pc'[q] = pc[q]
    BY Zenon, <1>2, <1>7
  <2> QED
    BY ZenonT(30), <1>1, <2>1 DEF Pinned
<1>13. WaitInv' /\ UsersSeeValid'
  BY Zenon, <1>1, <1>7 DEF Core, WaitInv, UsersSeeValid
<1>14. CleanMeansStored'
  <2> SUFFICES ASSUME NEW a \in Buf, valid[a], ~dirty[a], \A q \in Proc : cur'[q] = a => pc'[q] # "changed"
               PROVE  data[a] = disk[blockno[a]]
    BY Zenon, <1>1 DEF CleanMeansStored
  <2>1. \A q \in Proc : cur[q] = a => pc[q] # "changed"
    BY Zenon, <1>2, <1>7
  <2> QED
    BY Zenon, <2>1 DEF Core, CleanMeansStored
<1> QED
  BY Zenon, <1>1, <1>8, <1>9, <1>10, <1>11, <1>12, <1>13, <1>14, Frames DEF Core

(* Every step keeps Core, and only log_write pins a buffer. *)
LEMMA NextCore ==
  ASSUME DiskWorks, Core, ZeroMeansUnused, [Next]_vars
  PROVE  Core' /\ (Pinned' \subseteq Pinned \/ \E p \in Proc : log_write(p))
<1>1. CASE UNCHANGED vars
  <2>1. TypeOK'
    BY Zenon, <1>1 DEF Core, vars, TypeOK, FlagsOK, BlockOK, DataOK, ListOK, ProcOK
  <2>2. OneCopy' /\ LruInv' /\ FlagInv' /\ WaitInv' /\ UsersSeeValid'
    BY Zenon, <1>1 DEF Core, vars, OneCopy, LruInv, FlagInv, WaitInv, UsersSeeValid
  <2>3. UseInv' /\ CleanMeansStored'
    BY ZenonT(30), <1>1 DEF Core, vars, UseInv, Owns, CleanMeansStored
  <2>4. QueueInv' /\ Pinned' = Pinned
    BY ZenonT(30), <1>1 DEF Core, vars, QueueInv, Queued, IoFinished, Pinned
  <2> QED
    BY Zenon, <2>1, <2>2, <2>3, <2>4 DEF Core
<1>2. ASSUME NEW ok \in DiskOk, ideintr(ok) PROVE Core' /\ Pinned' \subseteq Pinned
  BY Zenon, <1>2, IdeintrInd DEF DiskWorks
<1>3. ASSUME NEW p \in Proc, Step(p) PROVE Core' /\ (Pinned' \subseteq Pinned \/ log_write(p))
  BY Zenon, <1>3, BgetInd, AcquiresleepInd, IderwInd, IderwTestInd, KillInd, ChangeInd,
     LogWriteInd, BwriteInd, ReleasesleepInd, BrelseInd DEF Step
<1> QED
  BY Zenon, <1>1, <1>2, <1>3 DEF Next

-----------------------------------------------------------------------------
(* What the CHOOSEs of the refinement mapping choose: the one valid copy, and *)
(* the one owner.                                                             *)
LEMMA Mapped ==
  ASSUME Core, NEW k \in Block
  PROVE  /\ \A b \in Buf : blockno[b] = k /\ valid[b] => Latest(k) = data[b]
         /\ (\A b \in Buf : ~(blockno[b] = k /\ valid[b])) => Latest(k) = disk[k]
         /\ \A p \in Proc : Owns(p) /\ blockno[cur[p]] = k => HolderOf(k) = p
         /\ (\A p \in Proc : ~(Owns(p) /\ blockno[cur[p]] = k)) => HolderOf(k) = NoProc
<1>1. ASSUME NEW b \in Buf, blockno[b] = k, valid[b] PROVE Latest(k) = data[b]
  <2>1. \A a \in Buf : blockno[a] = k => a = b
    BY Zenon, <1>1, BufAssumption DEF Core, OneCopy
  <2> DEFINE copies == {a \in Buf : blockno[a] = k /\ valid[a]}
  <2>2. copies = {b}
    BY Zenon, <1>1, <2>1
  <2>3. Latest(k) = IF copies = {} THEN disk[k] ELSE data[CHOOSE a \in copies : TRUE]
    BY Zenon DEF Latest
  <2> HIDE DEF copies
  <2> QED
    BY Zenon, <2>2, <2>3
<1>2. ASSUME \A b \in Buf : ~(blockno[b] = k /\ valid[b]) PROVE Latest(k) = disk[k]
  BY Zenon, <1>2 DEF Latest
<1>3. ASSUME NEW p \in Proc, Owns(p), blockno[cur[p]] = k PROVE HolderOf(k) = p
  <2> DEFINE owners == {q \in Proc : Owns(q) /\ blockno[cur[q]] = k}
  <2>1. ASSUME NEW q \in Proc, Owns(q), blockno[cur[q]] = k PROVE q = p
    <3>1. cur[q] \in Buf /\ cur[p] \in Buf
      BY Zenon, <1>3, <2>1, Mine DEF Owns
    <3>2. cur[q] = cur[p]
      BY Zenon, <1>3, <2>1, <3>1, BufAssumption DEF Core, OneCopy
    <3> QED
      BY Zenon, <1>3, <2>1, <3>2 DEF Core, UseInv
  <2>2. owners = {p}
    BY Zenon, <1>3, <2>1
  <2>3. HolderOf(k) = IF owners = {} THEN NoProc ELSE CHOOSE q \in owners : TRUE
    BY Zenon DEF HolderOf
  <2> HIDE DEF owners
  <2> QED
    BY Zenon, <2>2, <2>3
<1>4. ASSUME \A p \in Proc : ~(Owns(p) /\ blockno[cur[p]] = k) PROVE HolderOf(k) = NoProc
  BY Zenon, <1>4 DEF HolderOf
<1> QED
  BY Zenon, <1>1, <1>2, <1>3, <1>4

(* The mapping after a step, from the invariant after it. *)
LEMMA MappedNext ==
  ASSUME Core', NEW k \in Block
  PROVE  /\ \A b \in Buf : blockno'[b] = k /\ valid'[b] => Latest(k)' = data'[b]
         /\ (\A b \in Buf : ~(blockno'[b] = k /\ valid'[b])) => Latest(k)' = disk'[k]
         /\ \A p \in Proc : Owns(p)' /\ blockno'[cur'[p]] = k => HolderOf(k)' = p
         /\ (\A p \in Proc : ~(Owns(p)' /\ blockno'[cur'[p]] = k)) => HolderOf(k)' = NoProc
<1>1. ASSUME NEW b \in Buf, blockno'[b] = k, valid'[b] PROVE Latest(k)' = data'[b]
  <2>1. \A a \in Buf : blockno'[a] = k => a = b
    BY Zenon, <1>1, BufAssumption DEF Core, OneCopy
  <2> DEFINE copies == {a \in Buf : blockno'[a] = k /\ valid'[a]}
  <2>2. copies = {b}
    BY Zenon, <1>1, <2>1
  <2>3. Latest(k)' = IF copies = {} THEN disk'[k] ELSE data'[CHOOSE a \in copies : TRUE]
    BY Zenon DEF Latest
  <2> HIDE DEF copies
  <2> QED
    BY Zenon, <2>2, <2>3
<1>2. ASSUME \A b \in Buf : ~(blockno'[b] = k /\ valid'[b]) PROVE Latest(k)' = disk'[k]
  BY Zenon, <1>2 DEF Latest
<1>3. ASSUME NEW p \in Proc, Owns(p)', blockno'[cur'[p]] = k PROVE HolderOf(k)' = p
  <2> DEFINE owners == {q \in Proc : Owns(q)' /\ blockno'[cur'[q]] = k}
  <2>1. ASSUME NEW q \in Proc, Owns(q)', blockno'[cur'[q]] = k PROVE q = p
    <3>1. cur'[q] \in Buf /\ cur'[p] \in Buf
      BY Zenon, <1>3, <2>1 DEF Owns, Core, UseInv
    <3>2. cur'[q] = cur'[p]
      BY Zenon, <1>3, <2>1, <3>1, BufAssumption DEF Core, OneCopy
    <3> QED
      BY Zenon, <1>3, <2>1, <3>2 DEF Core, UseInv
  <2>2. owners = {p}
    BY Zenon, <1>3, <2>1
  <2>3. HolderOf(k)' = IF owners = {} THEN NoProc ELSE CHOOSE q \in owners : TRUE
    BY Zenon DEF HolderOf
  <2> HIDE DEF owners
  <2> QED
    BY Zenon, <2>2, <2>3
<1>4. ASSUME \A p \in Proc : ~(Owns(p)' /\ blockno'[cur'[p]] = k) PROVE HolderOf(k)' = NoProc
  BY Zenon, <1>4 DEF HolderOf
<1> QED
  BY Zenon, <1>1, <1>2, <1>3, <1>4

(* A step that changes neither contents nor holders is a stutter of BlockStore. *)
LEMMA Stutters ==
  ASSUME \A k \in Block : Latest(k)' = Latest(k), \A k \in Block : HolderOf(k)' = HolderOf(k)
  PROVE  UNCHANGED B!vars
BY Zenon DEF B!vars

(* A step after which block k has a holder is its Acquire. *)
LEMMA Acquires ==
  ASSUME NEW k \in Block, HolderOf(k) = NoProc, HolderOf(k)' \in Proc,
         \A j \in Block : j # k => HolderOf(j)' = HolderOf(j), \A j \in Block : Latest(j)' = Latest(j)
  PROVE  B!Next
<1>1. B!Acquire(k)
  BY Zenon DEF B!Acquire
<1> QED
  BY Zenon, <1>1 DEF B!Next

(* One in which a held block changes is its Update. *)
LEMMA Updates ==
  ASSUME NEW k \in Block, HolderOf(k) # NoProc, Latest(k)' \in Val,
         \A j \in Block : j # k => Latest(j)' = Latest(j), \A j \in Block : HolderOf(j)' = HolderOf(j)
  PROVE  B!Next
<1>1. B!Update(k)
  BY Zenon DEF B!Update
<1> QED
  BY Zenon, <1>1 DEF B!Next

(* And one after which nobody holds k any more is its Release. *)
LEMMA Releases ==
  ASSUME NEW k \in Block, HolderOf(k) # NoProc, HolderOf(k)' = NoProc,
         \A j \in Block : j # k => HolderOf(j)' = HolderOf(j), \A j \in Block : Latest(j)' = Latest(j)
  PROVE  B!Next
<1>1. B!Release(k)
  BY Zenon DEF B!Release
<1> QED
  BY Zenon, <1>1 DEF B!Next

(* The contents depend on the buffers and the disk alone. *)
LEMMA LatestFrame ==
  ASSUME UNCHANGED <<blockno, valid, data, disk>>
  PROVE  \A k \in Block : Latest(k)' = Latest(k)
BY DEF Latest

(* The owners of a block are the same, and so is its holder. *)
LEMMA HolderFrame ==
  ASSUME NEW k \in Block,
         \A q \in Proc : (Owns(q)' /\ blockno'[cur'[q]] = k) <=> (Owns(q) /\ blockno[cur[q]] = k)
  PROVE  HolderOf(k)' = HolderOf(k)
<1> DEFINE before == {q \in Proc : Owns(q) /\ blockno[cur[q]] = k}
           after  == {q \in Proc : Owns(q)' /\ blockno'[cur'[q]] = k}
<1>1. after = before
  BY Zenon
<1>2. HolderOf(k) = IF before = {} THEN NoProc ELSE CHOOSE q \in before : TRUE
  BY Zenon DEF HolderOf
<1>3. HolderOf(k)' = IF after = {} THEN NoProc ELSE CHOOSE q \in after : TRUE
  BY Zenon DEF HolderOf
<1> HIDE DEF before, after
<1> QED
  BY <1>1, <1>2, <1>3

(* Waiting, pinning, queueing and giving back a reference change nothing   *)
(* that a user of the cache can tell.                                      *)
LEMMA QuietSteps ==
  ASSUME Core, NEW p \in Proc, iderw(p) \/ iderw_test(p) \/ kill(p) \/ log_write(p) \/ bwrite(p) \/ brelse(p)
  PROVE  UNCHANGED B!vars
<1>1. UNCHANGED <<blockno, valid, data, disk>>
  BY Zenon DEF iderw, iderw_test, kill, log_write, bwrite, brelse
<1>2. pc \in [Proc -> Pcs] /\ cur \in [Proc -> Buf \cup {NoBuf}]
  BY Zenon DEF Core, TypeOK, ProcOK
<1>3. PICK l : \A q \in Proc : pc'[q] = IF q = p THEN l ELSE pc[q]
  BY ZenonT(30), <1>2 DEF iderw, iderw_test, kill, log_write, bwrite, brelse, Goto
<1>4. (pc[p] = "deref" /\ pc'[p] = "idle") \/ ((Owns(p)' <=> Owns(p)) /\ UNCHANGED cur)
  BY ZenonT(30), <1>2 DEF iderw, iderw_test, kill, log_write, bwrite, brelse, Goto, Owns, At
<1>5. \A q \in Proc : Owns(q)' <=> Owns(q)
  BY Zenon, <1>3, <1>4 DEF Owns
<1>6. \A q \in Proc : Owns(q) => cur'[q] = cur[q]
  <2>1. CASE UNCHANGED cur
    BY Zenon, <2>1
  <2>2. CASE brelse(p)
    BY Zenon, <1>2, <2>2 DEF brelse, At, Owns
  <2> QED
    BY Zenon, <2>2 DEF iderw, iderw_test, kill, log_write, bwrite
<1>7. \A k \in Block : HolderOf(k)' = HolderOf(k)
  BY Zenon, <1>1, <1>5, <1>6, HolderFrame
<1>8. \A k \in Block : Latest(k)' = Latest(k)
  BY Zenon, <1>1, LatestFrame
<1> QED
  BY Zenon, <1>7, <1>8, Stutters

(* acquiresleep takes the block when nobody holds it. *)
LEMMA AcquiresleepStep ==
  ASSUME Core, Core', NEW p \in Proc, acquiresleep(p)
  PROVE  B!Next \/ UNCHANGED B!vars
<1>1. UNCHANGED <<blockno, valid, data, disk, cur>> /\ pc[p] = "lock" /\ pc \in [Proc -> Pcs]
  BY Zenon DEF acquiresleep, At, Core, TypeOK, ProcOK
<1>2. cur[p] \in Buf /\ blockno[cur[p]] \in Block
  BY Zenon, <1>1, Mine
<1>3. \A k \in Block : Latest(k)' = Latest(k)
  BY Zenon, <1>1, LatestFrame
<1>4. CASE locked[cur[p]]
  <2>1. \A q \in Proc : Owns(q)' <=> Owns(q)
    BY Zenon, <1>1, <1>4 DEF acquiresleep, Goto, Owns
  <2>2. \A k \in Block : HolderOf(k)' = HolderOf(k)
    BY Zenon, <1>1, <2>1, HolderFrame
  <2> QED
    BY Zenon, <1>3, <2>2, Stutters
<1>5. CASE ~locked[cur[p]]
  <2> PICK k \in Block : k = blockno[cur[p]]
    BY Zenon, <1>2
  <2>1. \A q \in Proc : Owns(q)' <=> (Owns(q) \/ q = p)
    BY Zenon, <1>1, <1>5 DEF acquiresleep, Goto, Owns
  <2>2. ASSUME NEW q \in Proc, Owns(q), blockno[cur[q]] = k PROVE FALSE
    <3>1. cur[q] \in Buf
      BY Zenon, <2>2, Mine DEF Owns
    <3>2. cur[q] = cur[p]
      BY Zenon, <1>2, <2>2, <3>1, BufAssumption DEF Core, OneCopy
    <3> QED
      BY ZenonT(30), <1>2, <1>5, <2>2, <3>2 DEF Core, UseInv
  <2>3. HolderOf(k) = NoProc
    BY Zenon, <2>2, Mapped
  <2>4. HolderOf(k)' = p
    BY Zenon, <1>1, <2>1, MappedNext
  <2>5. \A j \in Block : j # k => HolderOf(j)' = HolderOf(j)
    BY Zenon, <1>1, <2>1, HolderFrame
  <2> QED
    BY Zenon, <1>3, <2>3, <2>4, <2>5, Acquires
<1> QED
  BY Zenon, <1>4, <1>5

(* releasesleep gives it back. *)
LEMMA ReleasesleepStep ==
  ASSUME Core, Core', NEW p \in Proc, releasesleep(p)
  PROVE  B!Next
<1>1. UNCHANGED <<blockno, valid, data, disk, cur>> /\ pc[p] = "use" /\ pc \in [Proc -> Pcs]
  BY Zenon DEF releasesleep, At, Core, TypeOK, ProcOK
<1> PICK k \in Block : k = blockno[cur[p]]
  BY Zenon, <1>1, Mine
<1>2. cur[p] \in Buf /\ Owns(p)
  BY Zenon, <1>1, Mine DEF Owns
<1>3. \A j \in Block : Latest(j)' = Latest(j)
  BY Zenon, <1>1, LatestFrame
<1>4. \A q \in Proc : Owns(q)' <=> (Owns(q) /\ q # p)
  BY Zenon, <1>1 DEF releasesleep, Wake, Owns
<1>5. HolderOf(k) = p
  BY Zenon, <1>2, Mapped
<1>6. ASSUME NEW q \in Proc, Owns(q)', blockno'[cur'[q]] = k PROVE FALSE
  <2>1. Owns(q) /\ blockno[cur[q]] = k /\ q # p
    BY Zenon, <1>1, <1>4, <1>6
  <2>2. HolderOf(k) = q
    BY Zenon, <2>1, Mapped
  <2> QED
    BY Zenon, <1>5, <2>1, <2>2
<1>7. HolderOf(k)' = NoProc
  BY Zenon, <1>6, MappedNext
<1>8. \A j \in Block : j # k => HolderOf(j)' = HolderOf(j)
  BY Zenon, <1>1, <1>4, HolderFrame
<1> QED
  BY Zenon, <1>3, <1>5, <1>7, <1>8, Releases, BufAssumption

(* The holder changes the contents of its own block alone. *)
LEMMA ChangeStep ==
  ASSUME Core, Core', NEW p \in Proc, NEW v \in Val, change(p, v)
  PROVE  B!Next
<1>1. /\ UNCHANGED <<blockno, valid, disk, cur>> /\ pc[p] \in {"use", "changed"} /\ pc \in [Proc -> Pcs]
      /\ data \in [Buf -> Val] /\ data' = [data EXCEPT ![cur[p]] = v]
  BY Zenon DEF change, Core, TypeOK, DataOK, ProcOK
<1> PICK k \in Block : k = blockno[cur[p]]
  BY Zenon, <1>1, Mine
<1>2. cur[p] \in Buf /\ Owns(p) /\ valid[cur[p]]
  BY Zenon, <1>1, Mine DEF Owns, Core, UsersSeeValid
<1>3. \A q \in Proc : Owns(q)' <=> Owns(q)
  BY Zenon, <1>1 DEF change, Goto, Owns
<1>4. \A j \in Block : HolderOf(j)' = HolderOf(j)
  BY Zenon, <1>1, <1>3, HolderFrame
<1>5. HolderOf(k) = p
  BY Zenon, <1>2, Mapped
<1>6. Latest(k)' = v
  <2>1. Latest(k)' = data'[cur[p]]
    BY Zenon, <1>1, <1>2, MappedNext
  <2> QED
    BY Zenon, <1>1, <1>2, <2>1
<1>7. ASSUME NEW j \in Block, j # k PROVE Latest(j)' = Latest(j)
  <2>1. CASE \E b \in Buf : blockno[b] = j /\ valid[b]
    <3>1. PICK b \in Buf : blockno[b] = j /\ valid[b]
      BY Zenon, <2>1
    <3>2. Latest(j) = data[b] /\ Latest(j)' = data'[b]
      BY ZenonT(30), <1>1, <3>1, Mapped, MappedNext
    <3> QED
      BY Zenon, <1>1, <1>7, <3>1, <3>2
  <2>2. CASE \A b \in Buf : ~(blockno[b] = j /\ valid[b])
    <3>1. Latest(j) = disk[j]
      BY Zenon, <2>2, Mapped
    <3>2. \A b \in Buf : ~(blockno'[b] = j /\ valid'[b])
      BY Zenon, <1>1, <2>2
    <3>3. Latest(j)' = disk'[j]
      BY Zenon, <3>2, MappedNext
    <3> QED
      BY Zenon, <1>1, <3>1, <3>3
  <2> QED
    BY Zenon, <2>1, <2>2
<1> QED
  BY Zenon, <1>4, <1>5, <1>6, <1>7, Updates, BufAssumption

(* A request done by the disk moves contents between a buffer and its block. *)
LEMMA IdeintrStep ==
  ASSUME Core, Core', ideintr(TRUE)
  PROVE  UNCHANGED B!vars
<1>1. /\ active \in Buf /\ blockno[active] \in Block /\ active = Head(idequeue) /\ (dirty[active] \/ ~valid[active])
  BY Zenon, Interrupted
<1>2. UNCHANGED <<blockno, cur>> /\ pc \in [Proc -> Pcs]
  BY Zenon DEF ideintr, Core, TypeOK, ProcOK
<1>3. /\ disk \in [Block -> Val] /\ data \in [Buf -> Val] /\ valid \in [Buf -> BOOLEAN]
      /\ valid' = [valid EXCEPT ![active] = TRUE]
      /\ IF dirty[active] THEN disk' = [disk EXCEPT ![blockno[active]] = data[active]] /\ data' = data
                          ELSE data' = [data EXCEPT ![active] = disk[blockno[active]]] /\ disk' = disk
  BY Zenon, <1>1 DEF ideintr, Core, TypeOK, FlagsOK, DataOK
<1>4. \A q \in Proc : Owns(q)' <=> Owns(q)
  BY Zenon DEF ideintr, Wake, Owns
<1>5. \A k \in Block : HolderOf(k)' = HolderOf(k)
  BY Zenon, <1>2, <1>4, HolderFrame
<1>6. ASSUME NEW k \in Block PROVE Latest(k)' = Latest(k)
  <2>1. CASE k = blockno[active]
    <3>1. PICK b \in Buf : b = active
      BY Zenon, <1>1
    <3>2. Latest(k)' = data'[b]
      BY Zenon, <1>2, <1>3, <2>1, <3>1, MappedNext
    <3>3. CASE dirty[b]
      <4>1. valid[b]
        BY Zenon, <3>3 DEF Core, FlagInv
      <4>2. Latest(k) = data[b]
        BY Zenon, <2>1, <3>1, <4>1, Mapped
      <4> QED
        BY Zenon, <1>3, <3>2, <3>3, <4>2
    <3>4. CASE ~dirty[b]
      <4>1. \A a \in Buf : blockno[a] = k => a = b
        BY Zenon, <2>1, <3>1, BufAssumption DEF Core, OneCopy
      <4>2. ~valid[b]
        BY Zenon, <1>1, <3>1, <3>4
      <4>3. Latest(k) = disk[k]
        BY Zenon, <4>1, <4>2, Mapped
      <4>4. data'[b] = disk[k]
        BY Zenon, <1>3, <2>1, <3>1, <3>4
      <4> QED
        BY Zenon, <3>2, <4>3, <4>4
    <3> QED
      BY Zenon, <3>3, <3>4
  <2>2. CASE k # blockno[active]
    <3>1. \A b \in Buf : blockno[b] = k => data'[b] = data[b] /\ (valid'[b] <=> valid[b])
      BY Zenon, <1>3, <2>2
    <3>2. disk'[k] = disk[k]
      BY Zenon, <1>3, <2>2
    <3>3. CASE \E b \in Buf : blockno[b] = k /\ valid[b]
      <4>1. PICK b \in Buf : blockno[b] = k /\ valid[b]
        BY Zenon, <3>3
      <4>2. Latest(k) = data[b]
        BY Zenon, <4>1, Mapped
      <4>3. Latest(k)' = data'[b]
        BY Zenon, <1>2, <3>1, <4>1, MappedNext
      <4> QED
        BY Zenon, <3>1, <4>1, <4>2, <4>3
    <3>4. CASE \A b \in Buf : ~(blockno[b] = k /\ valid[b])
      <4>1. \A b \in Buf : ~(blockno'[b] = k /\ valid'[b])
        BY Zenon, <1>2, <3>1, <3>4
      <4> QED
        BY Zenon, <3>2, <3>4, <4>1, Mapped, MappedNext
    <3> QED
      BY Zenon, <3>3, <3>4
  <2> QED
    BY Zenon, <2>1, <2>2
<1> QED
  BY Zenon, <1>5, <1>6, Stutters

(* Recycling a clean buffer loses nothing: the disk has what was in it. *)
LEMMA BgetStep ==
  ASSUME Core, Core', ZeroMeansUnused, NEW p \in Proc, NEW n \in Block, bget(p, n)
  PROVE  UNCHANGED B!vars
<1>1. pc[p] = "idle" /\ UNCHANGED <<data, disk>> /\ pc \in [Proc -> Pcs] /\ cur \in [Proc -> Buf \cup {NoBuf}]
  BY Zenon, BgetCases DEF Core, TypeOK, ProcOK
<1>2. \A q \in Proc : (Owns(q)' <=> Owns(q)) /\ (Owns(q) => q # p /\ cur'[q] = cur[q])
  <2>1. (\E b \in Buf : Enters(p, b)) \/ UNCHANGED <<pc, cur>>
    BY Zenon, BgetCases DEF Finds, Recycles, FindsNone
  <2> QED
    BY ZenonT(30), <1>1, <2>1 DEF Owns, Enters
<1>3. CASE UNCHANGED <<blockno, valid>>
  <2>2. \A k \in Block : Latest(k)' = Latest(k)
    BY Zenon, <1>1, <1>3, LatestFrame
  <2>3. \A k \in Block : HolderOf(k)' = HolderOf(k)
    BY Zenon, <1>2, <1>3, HolderFrame
  <2> QED
    BY Zenon, <2>2, <2>3, Stutters
<1>4. ASSUME NEW b \in Buf, Recycles(p, b, n) PROVE UNCHANGED B!vars
  <2>3. \A q \in Proc : cur[q] # b
    BY Zenon, <1>4 DEF ZeroMeansUnused, Recycles
  <2>4. /\ \A a \in Buf \ {b} : blockno'[a] = blockno[a] /\ (valid'[a] <=> valid[a])
        /\ ~valid'[b]
    BY ZenonT(30), <1>4 DEF Core, TypeOK, BlockOK, FlagsOK, Recycles
  <2>5. \A q \in Proc : Owns(q) => blockno'[cur'[q]] = blockno[cur[q]]
    <3> SUFFICES ASSUME NEW q \in Proc, Owns(q) PROVE blockno'[cur'[q]] = blockno[cur[q]]
      BY Zenon
    <3>1. cur[q] \in Buf \ {b}
      BY Zenon, <2>3, Mine DEF Owns
    <3> QED
      BY Zenon, <1>2, <2>4, <3>1
  <2>6. \A k \in Block : HolderOf(k)' = HolderOf(k)
    BY Zenon, <1>2, <2>5, HolderFrame
  <2>7. ASSUME NEW k \in Block PROVE Latest(k)' = Latest(k)
    <3>1. CASE \E a \in Buf \ {b} : blockno[a] = k /\ valid[a]
      <4>1. PICK a \in Buf \ {b} : blockno[a] = k /\ valid[a]
        BY Zenon, <3>1
      <4>2. Latest(k) = data[a]
        BY Zenon, <4>1, Mapped
      <4>3. Latest(k)' = data'[a]
        BY ZenonT(30), <2>4, <4>1, MappedNext
      <4> QED
        BY Zenon, <1>1, <4>2, <4>3
    <3>2. CASE \A a \in Buf \ {b} : ~(blockno[a] = k /\ valid[a])
      <4>1. \A a \in Buf : ~(blockno'[a] = k /\ valid'[a])
        BY Zenon, <2>4, <3>2
      <4>2. Latest(k)' = disk[k]
        BY Zenon, <1>1, <4>1, MappedNext
      <4>3. CASE blockno[b] = k /\ valid[b]
        <5>1. Latest(k) = data[b]
          BY Zenon, <4>3, Mapped
        <5>2. data[b] = disk[k]
          BY ZenonT(30), <1>4, <2>3, <4>3 DEF Core, CleanMeansStored, Recycles
        <5> QED
          BY Zenon, <4>2, <5>1, <5>2
      <4>4. CASE ~(blockno[b] = k /\ valid[b])
        <5>1. Latest(k) = disk[k]
          BY Zenon, <3>2, <4>4, Mapped
        <5> QED
          BY Zenon, <4>2, <5>1
      <4> QED
        BY Zenon, <4>3, <4>4
    <3> QED
      BY Zenon, <3>1, <3>2
  <2> QED
    BY Zenon, <2>6, <2>7, Stutters
<1> QED
  BY Zenon, <1>3, <1>4, BgetCases DEF Finds, FindsNone

(* Every step is a step of BlockStore or changes nothing there. *)
LEMMA NextStep ==
  ASSUME DiskWorks, Core, Core', ZeroMeansUnused, [Next]_vars
  PROVE  [B!Next]_(B!vars)
<1>1. CASE UNCHANGED vars
  <2>1. \A k \in Block : Latest(k)' = Latest(k)
    BY Zenon, <1>1, LatestFrame DEF vars
  <2>2. \A q \in Proc : Owns(q)' <=> Owns(q)
    BY Zenon, <1>1 DEF vars, Owns
  <2>3. \A k \in Block : HolderOf(k)' = HolderOf(k)
    BY Zenon, <1>1, <2>2, HolderFrame DEF vars
  <2> QED
    BY Zenon, <2>1, <2>3, Stutters
<1>2. ASSUME NEW ok \in DiskOk, ideintr(ok) PROVE [B!Next]_(B!vars)
  BY Zenon, <1>2, IdeintrStep DEF DiskWorks
<1>3. ASSUME NEW p \in Proc, Step(p) PROVE [B!Next]_(B!vars)
  BY Zenon, <1>3, BgetStep, AcquiresleepStep, QuietSteps, ChangeStep, ReleasesleepStep DEF Step
<1> QED
  BY Zenon, <1>1, <1>2, <1>3 DEF Next

(* The empty cache is the contents of the disk, held by nobody. *)
LEMMA InitStep == Init => B!Init
<1> SUFFICES ASSUME Init PROVE B!Init
  BY Zenon
<1>1. ASSUME NEW k \in Block PROVE Latest(k) = disk[k] /\ HolderOf(k) = NoProc
  BY Zenon DEF Init, Latest, HolderOf, Owns
<1>2. disk \in [Block -> Val]
  BY Zenon DEF Init
<1> QED
  BY Zenon, <1>1, <1>2 DEF B!Init
-----------------------------------------------------------------------------

Ind == Core /\ CountInv /\ PinInv /\ NoPanic

(* There are NBUF buffers. *)
LEMMA Buffers == IsFiniteSet(Buf) /\ Cardinality(Buf) = NBUF
<1>1. IsFiniteSet(1 .. NBUF) /\ Cardinality(1 .. NBUF) = IF 1 > NBUF THEN 0 ELSE NBUF - 1 + 1
  BY FS_Interval, BufAssumption
<1> QED
  BY <1>1, BufAssumption DEF Buf

(* The processes that use a buffer, and the pinned buffers, can be counted. *)
LEMMA Countable ==
  /\ \A b : IsFiniteSet({q \in Proc : cur[q] = b})
  /\ IsFiniteSet(Pinned) /\ Pinned \subseteq Buf
<1>1. ASSUME NEW b PROVE IsFiniteSet({q \in Proc : cur[q] = b})
  <2>1. {q \in Proc : cur[q] = b} \subseteq Proc
    OBVIOUS
  <2> QED
    BY <2>1, FS_Subset, BufAssumption
<1>2. Pinned \subseteq Buf
  BY DEF Pinned
<1> QED
  BY Zenon, <1>1, <1>2, Buffers, FS_Subset

(* Exact counts tell which buffers nobody uses. *)
LEMMA Exact == CountInv => ZeroMeansUnused
<1> SUFFICES ASSUME CountInv, NEW b \in Buf PROVE refcnt[b] = 0 <=> \A q \in Proc : cur[q] # b
  BY DEF ZeroMeansUnused
<1> DEFINE U == {q \in Proc : cur[q] = b}
<1>1. IsFiniteSet(U) /\ refcnt[b] = Cardinality(U)
  BY Countable DEF CountInv
<1>2. U = {} <=> \A q \in Proc : cur[q] # b
  OBVIOUS
<1> HIDE DEF U
<1>3. Cardinality(U) = 0 <=> U = {}
  BY <1>1, FS_EmptySet
<1> QED
  BY <1>1, <1>2, <1>3

(* One more process uses b, and nothing else changes. *)
LEMMA EnterCount ==
  ASSUME Core, CountInv, NEW p \in Proc, pc[p] = "idle", NEW b \in Buf,
         cur' = [cur EXCEPT ![p] = b], refcnt' = [refcnt EXCEPT ![b] = @ + 1]
  PROVE  CountInv'
<1>1. cur \in [Proc -> Buf \cup {NoBuf}] /\ refcnt \in [Buf -> Nat] /\ cur[p] = NoBuf
  BY ZenonT(30) DEF Core, TypeOK, ProcOK, BlockOK, UseInv
<1>2. ASSUME NEW a \in Buf PROVE refcnt'[a] = Cardinality({q \in Proc : cur'[q] = a})
  <2> DEFINE U == {q \in Proc : cur[q] = a}
             V == {q \in Proc : cur'[q] = a}
  <2>1. IsFiniteSet(U) /\ refcnt[a] = Cardinality(U)
    BY Zenon, Countable DEF CountInv
  <2>2. p \notin U /\ V = (IF a = b THEN U \cup {p} ELSE U)
    BY <1>1, Names
  <2>3. refcnt'[a] = IF a = b THEN refcnt[a] + 1 ELSE refcnt[a]
    BY <1>1
  <2> HIDE DEF U, V
  <2>4. Cardinality(U \cup {p}) = Cardinality(U) + 1
    BY Zenon, <2>1, <2>2, FS_AddElement
  <2>5. refcnt'[a] = Cardinality(V)
    BY <2>1, <2>2, <2>3, <2>4
  <2> QED
    BY <2>5 DEF V
<1> QED
  BY <1>2 DEF CountInv

(* brelse: one user less. *)
LEMMA LeaveCount ==
  ASSUME Core, CountInv, NEW p \in Proc, brelse(p)
  PROVE  CountInv'
<1>1. cur \in [Proc -> Buf \cup {NoBuf}] /\ refcnt \in [Buf -> Nat] /\ cur[p] \in Buf
  BY ZenonT(30), Mine DEF brelse, At, Core, TypeOK, ProcOK, BlockOK
<1>2. refcnt' = [refcnt EXCEPT ![cur[p]] = @ - 1] /\ cur' = [cur EXCEPT ![p] = NoBuf]
  BY DEF brelse, Drop
<1>3. ASSUME NEW a \in Buf PROVE refcnt'[a] = Cardinality({q \in Proc : cur'[q] = a})
  <2> DEFINE U == {q \in Proc : cur[q] = a}
             V == {q \in Proc : cur'[q] = a}
  <2>1. IsFiniteSet(U) /\ refcnt[a] = Cardinality(U)
    BY Zenon, Countable DEF CountInv
  <2>2. (a = cur[p] <=> p \in U) /\ V = U \ {p}
    BY <1>1, <1>2, Names
  <2>3. refcnt'[a] = IF a = cur[p] THEN refcnt[a] - 1 ELSE refcnt[a]
    BY <1>1, <1>2
  <2> HIDE DEF U, V
  <2>4. p \in U => Cardinality(U \ {p}) = Cardinality(U) - 1
    BY Zenon, <2>1, FS_RemoveElement
  <2>5. p \notin U => U \ {p} = U
    OBVIOUS
  <2>6. refcnt'[a] = Cardinality(V)
    BY Zenon, <2>1, <2>2, <2>3, <2>4, <2>5
  <2> QED
    BY ZenonT(30), <2>6 DEF V
<1> QED
  BY <1>3 DEF CountInv

(* A step after which no more buffers are pinned. *)
LEMMA PinFrame ==
  ASSUME PinInv, Pinned' \subseteq Pinned
  PROVE  PinInv'
<1>1. Cardinality(Pinned') <= Cardinality(Pinned) /\ IsFiniteSet(Pinned')
  BY Countable, FS_Subset
<1>2. Cardinality(Pinned) \in Nat /\ Cardinality(Pinned') \in Nat
  BY <1>1, Countable, FS_CardinalityType
<1> QED
  BY <1>1, <1>2, BufAssumption DEF PinInv

(* log_write: one more pinned buffer, unless it is pinned already. *)
LEMMA LogWritePin ==
  ASSUME Core, PinInv, NEW p \in Proc, log_write(p)
  PROVE  PinInv'
<1>1. Pinned' \subseteq Pinned \cup {cur[p]} /\ (dirty[cur[p]] => cur[p] \in Pinned)
  BY LogWriteInd
<1>2. CASE dirty[cur[p]]
  <2>1. Pinned' \subseteq Pinned
    BY <1>1, <1>2
  <2> QED
    BY <2>1, PinFrame
<1>3. CASE ~dirty[cur[p]]
  <2>1. Cardinality(Pinned) < MaxPin
    BY <1>3 DEF log_write
  <2>2. IsFiniteSet(Pinned) /\ cur[p] \notin Pinned
    BY <1>3, Countable DEF Pinned
  <2>3. IsFiniteSet(Pinned \cup {cur[p]}) /\ Cardinality(Pinned \cup {cur[p]}) = Cardinality(Pinned) + 1
    BY <2>2, FS_AddElement
  <2>4. IsFiniteSet(Pinned') /\ Cardinality(Pinned') <= Cardinality(Pinned \cup {cur[p]})
    BY <1>1, <2>3, FS_Subset
  <2>5. Cardinality(Pinned) \in Nat /\ Cardinality(Pinned') \in Nat
    BY <2>2, <2>4, FS_CardinalityType
  <2> QED
    BY <2>1, <2>3, <2>4, <2>5, BufAssumption DEF PinInv
<1> QED
  BY <1>2, <1>3

(* The counting behind the panic of bget: the processes other than the one *)
(* that looks for a buffer, and the log, cannot keep all of NBUF.          *)
LEMMA NoBuffers ==
  ASSUME Ind, NEW p \in Proc, pc[p] = "idle", \A b \in Buf : refcnt[b] # 0 \/ dirty[b]
  PROVE  ~(MaxPin + Cardinality(Proc) <= NBUF)
<1> DEFINE S == Proc \ {p}
           f == [q \in S |-> cur[q]]
           T == {f[q] : q \in S}
<1>1. IsFiniteSet(S) /\ Cardinality(S) = Cardinality(Proc) - 1 /\ Cardinality(Proc) \in Nat
  BY FS_RemoveElement, FS_CardinalityType, BufAssumption
<1>2. f \in Surjection(S, T)
  BY DEF Surjection
<1>3. IsFiniteSet(T) /\ Cardinality(T) <= Cardinality(S)
  <2> HIDE DEF S, f, T
  <2> QED
    BY <1>1, <1>2, FS_Surjection
<1>4. IsFiniteSet(Pinned)
  BY Countable
<1>5. ASSUME NEW b \in Buf PROVE b \in T \cup Pinned
  <2>1. CASE refcnt[b] = 0
    <3>1. \A q \in Proc : cur[q] # b
      BY <2>1, Exact DEF Ind, ZeroMeansUnused
    <3> QED
      BY <2>1, <3>1 DEF Pinned
  <2>2. CASE refcnt[b] # 0
    <3>1. PICK q \in Proc : cur[q] = b
      BY <2>2, Exact DEF Ind, ZeroMeansUnused
    <3>2. q # p
      BY ZenonT(30), <3>1, Names DEF Ind, Core, UseInv
    <3> QED
      BY <3>1, <3>2
  <2> QED
    BY <2>1, <2>2
<1> HIDE DEF S, f, T
<1>6. /\ IsFiniteSet(T \cup Pinned) /\ IsFiniteSet(T \cap Pinned)
      /\ Cardinality(T \cup Pinned) = Cardinality(T) + Cardinality(Pinned) - Cardinality(T \cap Pinned)
  BY <1>3, <1>4, FS_Union, FS_Subset
<1>7. NBUF <= Cardinality(T \cup Pinned)
  BY <1>5, <1>6, Buffers, FS_Subset
<1>8. Cardinality(T) \in Nat /\ Cardinality(Pinned) \in Nat /\ Cardinality(T \cap Pinned) \in Nat
  BY <1>3, <1>4, <1>6, FS_CardinalityType
<1> QED
  BY <1>1, <1>3, <1>6, <1>7, <1>8, BufAssumption DEF Ind, PinInv

(* bget: the buffer it takes has one user more, and there is one.          *)
LEMMA BgetCount ==
  ASSUME Ind, NEW p \in Proc, NEW k \in Block, bget(p, k)
  PROVE  CountInv' /\ NoPanic'
<1> USE DEF Ind
<1>1. pc[p] = "idle"
  BY Zenon, BgetCases
<1>2. ASSUME NEW b \in Buf, Enters(p, b) PROVE CountInv' /\ NoPanic'
  <2>1. CountInv'
    BY Zenon, <1>1, <1>2, EnterCount DEF Enters
  <2> QED
    BY <1>2, <2>1 DEF NoPanic, Enters
<1>3. CASE FindsNone
  <2>1. ~(MaxPin + Cardinality(Proc) <= NBUF)
    BY Zenon, <1>1, <1>3, NoBuffers DEF FindsNone
  <2> QED
    BY ZenonT(30), <1>3, <2>1 DEF CountInv, NoPanic, FindsNone
<1> QED
  BY Zenon, <1>2, <1>3, BgetCases DEF Finds, Recycles

-----------------------------------------------------------------------------
(* After binit nothing is used and nothing is pinned. *)
LEMMA InitCount == Init => Ind
<1> SUFFICES ASSUME Init PROVE Ind
  OBVIOUS
<1>1. ASSUME NEW b \in Buf PROVE refcnt[b] = 0 /\ {q \in Proc : cur[q] = b} = {}
  BY Names DEF Init
<1>2. CountInv
  BY <1>1, FS_EmptySet DEF CountInv
<1>3. Pinned = {}
  BY DEF Init, Pinned
<1>4. PinInv
  BY <1>3, FS_EmptySet, BufAssumption DEF PinInv
<1>5. NoPanic
  BY DEF Init, NoPanic
<1> QED
  BY <1>2, <1>4, <1>5, InitInd DEF Ind

(* Every step keeps the invariant. *)
LEMMA NextInd ==
  ASSUME DiskWorks, Ind, [Next]_vars
  PROVE  Ind'
<1>1. Core' /\ (Pinned' \subseteq Pinned \/ \E p \in Proc : log_write(p))
  BY NextCore, Exact DEF Ind
<1>2. PinInv'
  BY <1>1, PinFrame, LogWritePin DEF Ind
<1>3. \/ \E p \in Proc : \E k \in Block : bget(p, k)
      \/ \E p \in Proc : brelse(p)
      \/ UNCHANGED <<refcnt, cur, panicked>>
  <2>1. CASE UNCHANGED vars
    BY <2>1 DEF vars, bufs
  <2>2. CASE \E ok \in DiskOk : ideintr(ok)
    BY SMTT(20), <2>2 DEF ideintr
  <2>3. ASSUME NEW p \in Proc, Step(p), ~brelse(p), \A k \in Block : ~bget(p, k)
        PROVE  UNCHANGED <<refcnt, cur, panicked>>
    <3>1. \/ acquiresleep(p) \/ iderw(p) \/ iderw_test(p) \/ kill(p) \/ (\E v \in Val : change(p, v))
          \/ log_write(p) \/ bwrite(p) \/ releasesleep(p)
      BY Zenon, <2>3 DEF Step
    <3> QED
      BY ZenonT(30), <3>1 DEF acquiresleep, iderw, iderw_test, kill, change, log_write, bwrite, releasesleep, bufs
  <2> QED
    BY Zenon, <2>1, <2>2, <2>3 DEF Next
<1>4. CountInv' /\ NoPanic'
  <2>1. CASE \E p \in Proc : \E k \in Block : bget(p, k)
    BY Zenon, <2>1, BgetCount
  <2>2. ASSUME NEW p \in Proc, brelse(p) PROVE CountInv' /\ NoPanic'
    <3>1. UNCHANGED panicked
      BY <2>2 DEF brelse
    <3>2. CountInv'
      BY Zenon, <2>2, LeaveCount DEF Ind
    <3> QED
      BY <3>1, <3>2 DEF Ind, NoPanic
  <2>3. CASE UNCHANGED <<refcnt, cur, panicked>>
    BY <2>3 DEF Ind, CountInv, NoPanic
  <2> QED
    BY Zenon, <1>3, <2>1, <2>2, <2>3
<1> QED
  BY Zenon, <1>1, <1>2, <1>4 DEF Ind

(* The inductive invariant gives the properties. *)
LEMMA IndGives == Ind => CacheInv /\ NoMissedWakeup
<1> SUFFICES ASSUME Ind PROVE CacheInv /\ NoMissedWakeup
  OBVIOUS
<1>1. RefsCounted
  <2> SUFFICES ASSUME NEW b \in Buf
               PROVE  Cardinality({p \in Proc : cur[p] = b /\ Owns(p)}) = IF locked[b] THEN 1 ELSE 0
    BY DEF Ind, CountInv, RefsCounted
  <2> DEFINE O == {p \in Proc : cur[p] = b /\ Owns(p)}
  <2>1. CASE locked[b]
    <3>1. PICK p \in Proc : Owns(p) /\ cur[p] = b
      BY ZenonT(30), <2>1 DEF Ind, Core, UseInv
    <3>2. O = {p}
      BY ZenonT(30), <3>1 DEF Ind, Core, UseInv
    <3> QED
      BY ZenonT(30), <2>1, <3>2, FS_Singleton
  <2>2. CASE ~locked[b]
    <3>1. O = {}
      BY SMTT(20), <2>2 DEF Ind, Core, UseInv
    <3> QED
      BY SMTT(20), <2>2, <3>1, FS_EmptySet
  <2> QED
    BY <2>1, <2>2
<1>2. NoMissedWakeup
  <2>1. idequeue \in Seq(Buf)
    BY DEF Ind, Core, TypeOK, ListOK
  <2>2. DOMAIN idequeue = 1 .. Len(idequeue)
    BY <2>1
  <2> QED
    BY ZenonT(30), <2>2 DEF Ind, Core, WaitInv, QueueInv, Queued, NoMissedWakeup
<1> QED
  BY <1>1, <1>2 DEF Ind, CacheInv

(* bio.c over ide.c: one buffer per block, exact reference counts, one     *)
(* owner per buffer, valid data for its owner, clean buffers equal to the  *)
(* disk, and a buffer for everyone as long as NBUF is large enough.        *)
THEOREM CacheSound == ASSUME DiskWorks PROVE Spec => []CacheInv
<1>1. Init => Ind
  BY InitCount
<1>2. Ind /\ [Next]_vars => Ind'
  BY NextInd
<1>3. Ind => CacheInv
  BY SMTT(20), IndGives
<1> QED
  BY <1>1, <1>2, <1>3, PTL DEF Spec

(* Nobody sleeps in acquiresleep or iderw for what has already happened,   *)
(* whatever kill wakes in between.                                         *)
THEOREM SleepersAwaited == ASSUME DiskWorks PROVE Spec => []NoMissedWakeup
<1>1. Init => Ind
  BY InitCount
<1>2. Ind /\ [Next]_vars => Ind'
  BY NextInd
<1>3. Ind => NoMissedWakeup
  BY IndGives
<1> QED
  BY <1>1, <1>2, <1>3, PTL DEF Spec

(* The buffer cache implements BlockStore: recycling buffers, reading and  *)
(* writing never lose or change what a process wrote, and only the holder  *)
(* of a block changes it.                                                  *)
THEOREM CacheImplements == ASSUME DiskWorks PROVE Spec => Implements
<1>1. Init => Ind /\ B!Init
  BY InitCount, InitStep
<1>2. Ind /\ [Next]_vars => Ind'
  BY NextInd
<1>3. Ind /\ Ind' /\ [Next]_vars => [B!Next]_(B!vars)
  BY NextStep, Exact DEF Ind
<1> QED
  BY <1>1, <1>2, <1>3, PTL DEF Spec, Implements, B!Spec
=============================================================================
