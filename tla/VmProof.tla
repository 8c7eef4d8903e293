------------------------------ MODULE VmProof -------------------------------
(***************************************************************************)
(* fork, exec and exit, with wait, keep the inductive invariant of         *)
(* VmSpaces, and it holds when the first process runs; so the invariants   *)
(* of Vm hold, for any number of processes and pages.                      *)
(***************************************************************************)
EXTENDS VmSpaces

-----------------------------------------------------------------------------
(* A process that is in no call. *)
LEMMA AtRest ==
  ASSUME Ind, NEW p \in Task, alive[p], call[p] = ""
  PROVE  /\ VmTypeOK
         /\ Typed(alive[p], call[p], dir[p], new[p], nsz[p], todo[p], sz[p], stack[p], child[p], args[p])
         /\ Owns(alive[p], call[p], dir[p], sz[p], stack[p])
         /\ new[p] = NoDir /\ nsz[p] = 0 /\ sz[p] \in Nat
<1>1. /\ VmTypeOK /\ Owns(alive[p], call[p], dir[p], sz[p], stack[p])
      /\ Builds(call[p], dir[p], new[p], nsz[p], todo[p], sz[p])
  BY Zenon, IndAt
<1>2. Typed(alive[p], call[p], dir[p], new[p], nsz[p], todo[p], sz[p], stack[p], child[p], args[p])
  BY Zenon, <1>1, Values
<1>3. sz[p] \in Nat
  BY Zenon, <1>2, SizesBelow DEF Typed
<1> QED
  BY Zenon, <1>1, <1>2, <1>3 DEF Builds

(* setupkvm's directory, of which no page is in use yet. *)
Empty(d) == d \in DirType /\ d.guard = {} /\ d.lost = {} /\ Present(d) = Below(0)

(* That is what setupkvm makes. *)
LEMMA SetupEmpty ==
  ASSUME NEW fr, CanSetup(fr)
  PROVE  Empty(setupkvm(fr))
BY Zenon, SetupDir, NoPages DEF Empty

(* The start of fork keeps the invariant. *)
LEMMA CopyStarts ==
  ASSUME Ind, NEW p \in Task, NEW q \in Task, copyuvm(p, q)
  PROVE  Ind'
<1> DEFINE n == setupkvm(freelist)
<1>1. alive[p] /\ call[p] = "" /\ ~alive[q] /\ CanSetup(freelist)
  BY Zenon DEF copyuvm, AtUser
<1>2. \A r \in Task : call[r] = "fork" => child[r] # q
  BY Zenon DEF copyuvm
<1>3. /\ VmTypeOK
      /\ Typed(alive[p], call[p], dir[p], new[p], nsz[p], todo[p], sz[p], stack[p], child[p], args[p])
      /\ Owns(alive[p], call[p], dir[p], sz[p], stack[p])
      /\ new[p] = NoDir /\ nsz[p] = 0 /\ sz[p] \in Nat
  BY Zenon, <1>1, AtRest
<1>4. Empty(n)
  BY Zenon, <1>1, SetupEmpty
<1>5. Sets(p, alive[p], "fork", dir[p], n, nsz[p], todo[p], sz[p], stack[p], q, args[p])
  BY Zenon, <1>3, Old DEF copyuvm, Sets
<1>6. freelist' = Setup(freelist) /\ new' = [new EXCEPT ![p] = n] /\ dir' = dir
  BY Zenon DEF copyuvm
<1>7. freelist' \in [Page -> Nat] /\ Parted(freelist', Spaces(dir', new'))
  BY ZenonT(30), <1>1, <1>3, <1>4, <1>6, SetupInNew DEF Empty
<1> HIDE DEF n
<1>8. Typed(alive[p], "fork", dir[p], n, nsz[p], todo[p], sz[p], stack[p], q, args[p])
  BY Zenon, <1>3, <1>4 DEF Typed, Calls, Empty
<1>9. Owns(alive[p], "fork", dir[p], sz[p], stack[p])
  BY ZenonT(30), <1>1, <1>3, OwnsStill
<1>10. PGROUNDUP(nsz[p]) <= PGROUNDUP(sz[p])
  <2>1. PGROUNDUP(sz[p]) \in Nat
    BY Zenon, <1>3, Rounding
  <2>2. 0 <= PGROUNDUP(sz[p])
    BY <2>1
  <2> QED
    BY ZenonT(30), <1>3, <2>2, NoPages
<1>11. Copies(dir[p], n, nsz[p], sz[p])
  BY ZenonT(30), <1>3, <1>4, <1>10, NoPages DEF Copies, Empty
<1>12. Builds("fork", dir[p], n, nsz[p], todo[p], sz[p])
  BY Zenon, <1>3, <1>4, <1>11 DEF Builds, Empty
<1>13. alive' = alive /\ call'[p] = "fork" /\ child'[p] = q
  <2>1. alive' = alive
    BY Zenon DEF copyuvm
  <2>2. call'[p] = "fork" /\ child'[p] = q
    BY Zenon, <1>3 DEF copyuvm, VmTypeOK
  <2> QED
    BY Zenon, <2>1, <2>2
<1>14. \A r \in Task : r # p => call'[r] = call[r] /\ child'[r] = child[r]
  BY ZenonT(30), <1>3, <1>5, SetsOthers
<1>15. ChildFree'
  BY ZenonT(30), <1>1, <1>13, <1>14 DEF Ind, ChildFree
<1>16. OneChild'
  BY ZenonT(30), <1>2, <1>13, <1>14 DEF Ind, OneChild
<1> QED
  BY ZenonT(30), <1>5, <1>7, <1>8, <1>9, <1>12, <1>15, <1>16, Alone

(* What p's part of the invariant says in copyuvm. *)
LEMMA InFork ==
  ASSUME Ind, NEW p \in Task, call[p] = "fork"
  PROVE  /\ VmTypeOK
         /\ Typed(alive[p], call[p], dir[p], new[p], nsz[p], todo[p], sz[p], stack[p], child[p], args[p])
         /\ Owns(alive[p], call[p], dir[p], sz[p], stack[p])
         /\ Builds(call[p], dir[p], new[p], nsz[p], todo[p], sz[p])
         /\ alive[p] /\ nsz[p] \in Nat /\ sz[p] \in Nat /\ sz[p] <= KERNBASE
         /\ dir[p] \in DirType /\ new[p] \in DirType /\ Present(new[p]) = Below(nsz[p]) /\ new[p].lost = {}
         /\ Copies(dir[p], new[p], nsz[p], sz[p])
<1>1. /\ VmTypeOK /\ Owns(alive[p], call[p], dir[p], sz[p], stack[p])
      /\ Builds(call[p], dir[p], new[p], nsz[p], todo[p], sz[p])
  BY Zenon, IndAt
<1>2. Typed(alive[p], call[p], dir[p], new[p], nsz[p], todo[p], sz[p], stack[p], child[p], args[p])
  BY Zenon, <1>1, Values
<1>3. call[p] # ""
  OBVIOUS
<1>4. alive[p]
  BY ZenonT(30), <1>1, <1>2, <1>3, InCall DEF Typed
<1>5. nsz[p] \in 0 .. KERNBASE /\ sz[p] \in 0 .. KERNBASE - 1 /\ dir[p] \in DirType /\ new[p] \in DirType
  BY Zenon, <1>2 DEF Typed
<1>6. nsz[p] \in Nat /\ sz[p] \in Nat /\ sz[p] <= KERNBASE
  BY Zenon, <1>5, Sizes, SizesBelow
<1> QED
  BY ZenonT(30), <1>1, <1>2, <1>4, <1>5, <1>6 DEF Builds

(* bad: what was built goes, and the call is over. *)
LEMMA GivesUp ==
  ASSUME Ind, NEW p \in Task, call[p] # "", call[p] # "sbrk", freelist' = FreeDir(freelist, new[p]), Done(p),
         UNCHANGED <<alive, sz, dir, stack>>
  PROVE  Ind'
<1>1. VmTypeOK /\ Owns(alive[p], call[p], dir[p], sz[p], stack[p])
  BY Zenon, IndAt
<1>2. Typed(alive[p], call[p], dir[p], new[p], nsz[p], todo[p], sz[p], stack[p], child[p], args[p])
  BY Zenon, <1>1, Values
<1>3. alive[p]
  BY ZenonT(30), <1>1, <1>2, InCall DEF Typed
<1>4. Sets(p, alive[p], "", dir[p], NoDir, 0, <<>>, sz[p], stack[p], firstTask, 0)
  BY ZenonT(30), <1>1, Returns, Old DEF Sets
<1>5. Cleared(NoDir.page, new[p], Entry) /\ Entry \in SUBSET Entry /\ NoDir \in DirType
  BY Zenon, NoDirType DEF Cleared
<1>6. freelist' = kfree(freelist, new[p], Entry) /\ new' = [new EXCEPT ![p] = NoDir] /\ dir' = dir
  BY Zenon DEF FreeDir, Done
<1>7. freelist' \in [Page -> Nat] /\ Parted(freelist', Spaces(dir', new'))
  BY Zenon, <1>5, <1>6, FreeInNew
<1>8. Owns(alive[p], "", dir[p], sz[p], stack[p])
  BY Zenon, <1>1, <1>3, OwnsStill
<1>9. /\ Typed(alive[p], "", dir[p], NoDir, 0, <<>>, sz[p], stack[p], firstTask, 0)
      /\ Builds("", dir[p], NoDir, 0, <<>>, sz[p])
  BY ZenonT(30), <1>2, Idle DEF Typed
<1> QED
  BY ZenonT(30), <1>3, <1>4, <1>7, <1>8, <1>9, Moves

(* copyuvm takes a page. *)
LEMMA CopyTakes ==
  ASSUME Ind, NEW p \in Task, call[p] = "fork", NEW v, v = nsz[p] \div PGSIZE, nsz[p] < sz[p],
         Enough(freelist, new[p], v), nsz' = [nsz EXCEPT ![p] = nsz[p] + PGSIZE],
         new' = [new EXCEPT ![p] = Copied(freelist, new[p], v, dir[p].guard)],
         freelist' = Taken(freelist, new[p], v),
         UNCHANGED <<alive, sz, dir, stack, call, todo, child, args>>
  PROVE  Ind'
<1> DEFINE ns == nsz[p] + PGSIZE
           a  == AllocPage(freelist, new[p], v)
           G  == new[p].guard \cup ({v} \cap dir[p].guard)
           n  == Dir(a.page, G, new[p].lost)
<1>1. /\ VmTypeOK
      /\ Typed(alive[p], call[p], dir[p], new[p], nsz[p], todo[p], sz[p], stack[p], child[p], args[p])
      /\ Owns(alive[p], call[p], dir[p], sz[p], stack[p])
      /\ alive[p] /\ nsz[p] \in Nat /\ sz[p] \in Nat /\ sz[p] <= KERNBASE
      /\ dir[p] \in DirType /\ new[p] \in DirType /\ Present(new[p]) = Below(nsz[p]) /\ new[p].lost = {}
      /\ Copies(dir[p], new[p], nsz[p], sz[p])
  BY Zenon, InFork
<1>2. v = PGROUNDUP(nsz[p]) /\ PGROUNDUP(nsz[p]) < PGROUNDUP(sz[p]) /\ ns = (v + 1) * PGSIZE
  BY Zenon, <1>1, AfterWhole DEF Copies
<1>3. /\ v \in VPage /\ v \notin Below(nsz[p]) /\ ns \in 0 .. KERNBASE /\ Aligned(ns)
      /\ PGROUNDUP(ns) <= PGROUNDUP(sz[p]) /\ Below(ns) = Below(nsz[p]) \cup {v}
  BY ZenonT(30), <1>1, <1>2, NextPage
<1>4. Sets(p, alive[p], call[p], dir[p], n, ns, todo[p], sz[p], stack[p], child[p], args[p])
  BY Zenon, <1>1, Old DEF Sets, Copied
<1> HIDE DEF ns
<1>5. OneMore(a, new[p], v)
  BY Zenon, <1>1, <1>3, AllocDir
<1>6. G \in SUBSET VPage
  BY Zenon, <1>1, <1>3, DirParts
<1>7. a \in DirType /\ new[p].lost \in SUBSET VPage
  BY Zenon, <1>1, <1>5, DirParts DEF OneMore
<1>8. v \notin Present(new[p])
  BY ZenonT(30), <1>1, <1>3
<1> HIDE DEF a, G
<1>9. n \in DirType /\ n.page = a.page /\ n.guard = G /\ n.lost = new[p].lost /\ Present(n) = Present(a)
  BY ZenonT(30), <1>6, <1>7, Reflagged
<1> HIDE DEF n
<1>10. Present(n) = Below(ns) /\ n.lost = {}
  BY ZenonT(30), <1>1, <1>3, <1>5, <1>9 DEF OneMore
<1>11. n.guard = dir[p].guard \cap Below(ns)
  <2>1. new[p].guard = dir[p].guard \cap Below(nsz[p])
    BY Zenon, <1>1 DEF Copies
  <2>2. G = dir[p].guard \cap Below(ns)
    BY Zenon, <1>3, <2>1 DEF G
  <2> QED
    BY Zenon, <1>9, <2>2
<1>12. Builds(call[p], dir[p], n, ns, todo[p], sz[p])
  BY ZenonT(30), <1>3, <1>10, <1>11 DEF Builds, Copies
<1>13. Typed(alive[p], call[p], dir[p], n, ns, todo[p], sz[p], stack[p], child[p], args[p])
  BY ZenonT(30), <1>1, <1>3, <1>9 DEF Typed
<1>14. n.page = AllocPage(freelist, new[p], v).page /\ new' = [new EXCEPT ![p] = n] /\ dir' = dir
  BY Zenon, <1>9 DEF a, n, G, Copied
<1>15. freelist' \in [Page -> Nat] /\ Parted(freelist', Spaces(dir', new'))
  BY ZenonT(30), <1>3, <1>8, <1>9, <1>14, AllocInNew
<1> QED
  BY ZenonT(30), <1>1, <1>4, <1>12, <1>13, <1>15, Moves

(* The spaces, when the copy becomes the child's. *)
LEMMA GivenAway ==
  ASSUME Ind, NEW p \in Task, NEW q \in Task, dir[q] = NoDir, freelist' = freelist,
         dir' = [dir EXCEPT ![q] = new[p]], new' = [new EXCEPT ![p] = NoDir]
  PROVE  freelist' \in [Page -> Nat] /\ Parted(freelist', Spaces(dir', new'))
<1> DEFINE f  == Spaces(dir, new)
           f2 == Spaces([dir EXCEPT ![q] = new[p]], [new EXCEPT ![p] = NoDir])
           s  == <<p, "new">>
           t  == <<q, "dir">>
<1>1. /\ Parted(freelist, f) /\ f \in Layout /\ freelist \in [Page -> Nat]
      /\ dir \in [Task -> DirType] /\ new \in [Task -> DirType] /\ VmTypeOK
  BY Zenon, IndAt
<1>2. s \in Space /\ t \in Space /\ s # t
  BY DEF Space
<1>3. dir = [dir EXCEPT ![q] = NoDir] /\ new[p] \in DirType /\ NoDir \in DirType
  BY ZenonT(30), <1>1, Old, NoDirType
<1>4. f = Upd(f, t, NoDir.page)
  <2>1. Spaces([dir EXCEPT ![q] = NoDir], new) = Upd(f, t, NoDir.page)
    BY ZenonT(30), <1>1, NoDirType, DirChanges
  <2> QED
    BY Zenon, <1>3, <2>1
<1>5. Moved(f, s, t, f2)
  BY ZenonT(30), <1>1, <1>3, <1>4, Replaced
<1> HIDE DEF f, f2, s, t
<1>6. Parted(freelist, f2)
  BY ZenonT(30), <1>1, <1>2, <1>5, MoveParted
<1> QED
  BY Zenon, <1>1, <1>6 DEF f2

(* The child is there. *)
LEMMA CopyEnds ==
  ASSUME Ind, NEW p \in Task, call[p] = "fork", nsz[p] >= sz[p], NEW q, q = child[p],
         alive' = [alive EXCEPT ![q] = TRUE], sz' = [sz EXCEPT ![q] = sz[p]],
         dir' = [dir EXCEPT ![q] = new[p]], stack' = [stack EXCEPT ![q] = stack[p]],
         Done(p), UNCHANGED freelist
  PROVE  Ind'
<1>1. /\ VmTypeOK
      /\ Typed(alive[p], call[p], dir[p], new[p], nsz[p], todo[p], sz[p], stack[p], child[p], args[p])
      /\ Owns(alive[p], call[p], dir[p], sz[p], stack[p])
      /\ alive[p] /\ nsz[p] \in Nat /\ sz[p] \in Nat
      /\ new[p] \in DirType /\ Present(new[p]) = Below(nsz[p]) /\ new[p].lost = {}
      /\ Copies(dir[p], new[p], nsz[p], sz[p])
  BY Zenon, InFork
<1>2. q \in Task /\ sz[p] \in 0 .. KERNBASE - 1 /\ stack[p] \in Nat
  BY Zenon, <1>1 DEF Typed
<1>3. ~alive[q] /\ q # p
  BY Zenon, <1>1 DEF Ind, ChildFree
<1>4. /\ Owns(alive[q], call[q], dir[q], sz[q], stack[q])
      /\ Builds(call[q], dir[q], new[q], nsz[q], todo[q], sz[q])
  BY Zenon, <1>2, IndAt
<1>5. call[q] = "" /\ dir[q] = NoDir
  BY ZenonT(30), <1>3, <1>4 DEF Owns
<1>6. nsz[q] = 0 /\ new[q] = NoDir
  BY ZenonT(30), <1>4, <1>5 DEF Builds
<1>7. Below(nsz[p]) = Below(sz[p])
  <2>1. PGROUNDUP(nsz[p]) \in Nat /\ PGROUNDUP(sz[p]) \in Nat
    BY ZenonT(30), <1>1, Rounding
  <2>2. sz[p] <= nsz[p]
    BY SMTT(20), <1>1, <1>2
  <2>3. PGROUNDUP(sz[p]) <= PGROUNDUP(nsz[p]) /\ PGROUNDUP(nsz[p]) <= PGROUNDUP(sz[p])
    BY ZenonT(30), <1>1, <2>2, Monotone DEF Copies
  <2>4. Below(nsz[p]) \subseteq Below(sz[p]) /\ Below(sz[p]) \subseteq Below(nsz[p])
    BY ZenonT(30), <1>1, <2>3, BelowGrows
  <2> QED
    BY Zenon, <2>4
<1>8. dir[p].guard \subseteq Below(sz[p])
  BY Zenon, <1>1 DEF Owns
<1>9. new[p].guard = dir[p].guard
  BY ZenonT(30), <1>1, <1>7, <1>8 DEF Copies
<1>10. Owns(TRUE, "", new[p], sz[p], stack[p])
  BY ZenonT(30), <1>1, <1>7, <1>9 DEF Owns
<1>11. Owns(alive[p], "", dir[p], sz[p], stack[p])
  BY ZenonT(30), <1>1, OwnsStill
<1>12. freelist' \in [Page -> Nat] /\ Parted(freelist', Spaces(dir', new'))
  BY ZenonT(30), <1>2, <1>5, GivenAway DEF Done
<1>13. VmTypeOK'
  <2>1. 0 \in 0 .. KERNBASE /\ <<>> \in Seq(Nat) /\ firstTask \in Task /\ 0 \in Nat
    BY SMTT(20), VmAssumption
  <2> QED
    BY ZenonT(30), <1>1, <1>2, <1>12, <2>1, NoDirType DEF VmTypeOK, Done
<1>14. \A r \in Task : r # p => /\ call'[r] = call[r] /\ new'[r] = new[r] /\ nsz'[r] = nsz[r]
                                /\ todo'[r] = todo[r] /\ child'[r] = child[r]
  BY ZenonT(30), <1>1 DEF VmTypeOK, Done
<1>15. \A r \in Task : r # q => /\ alive'[r] = alive[r] /\ sz'[r] = sz[r] /\ dir'[r] = dir[r]
                                /\ stack'[r] = stack[r]
  BY ZenonT(30), <1>1 DEF VmTypeOK
<1>16. call'[p] = "" /\ new'[p] = NoDir /\ nsz'[p] = 0 /\ todo'[p] = <<>>
  BY ZenonT(30), <1>1 DEF VmTypeOK, Done
<1>17. alive'[q] = TRUE /\ sz'[q] = sz[p] /\ dir'[q] = new[p] /\ stack'[q] = stack[p]
  BY ZenonT(30), <1>1, <1>2 DEF VmTypeOK
<1>18. Fits(p)'
  <2>1. alive'[p] = alive[p] /\ sz'[p] = sz[p] /\ dir'[p] = dir[p] /\ stack'[p] = stack[p]
    BY ZenonT(30), <1>3, <1>15
  <2>2. Builds("", dir[p], NoDir, 0, <<>>, sz[p])
    BY Zenon DEF Builds
  <2> QED
    BY ZenonT(30), <1>11, <1>16, <2>1, <2>2 DEF Fits
<1>19. Fits(q)'
  <2>1. call'[q] = "" /\ new'[q] = NoDir /\ nsz'[q] = 0 /\ todo'[q] = todo[q]
    BY ZenonT(30), <1>2, <1>3, <1>5, <1>6, <1>14
  <2>2. Builds("", new[p], NoDir, 0, todo[q], sz[p])
    BY Zenon DEF Builds
  <2> QED
    BY ZenonT(30), <1>10, <1>17, <2>1, <2>2 DEF Fits
<1>20. ASSUME NEW r \in Task, r # p, r # q PROVE Fits(r)'
  <2>1. Fits(r)
    BY Zenon DEF Ind
  <2> QED
    BY ZenonT(30), <1>14, <1>15, <1>20, <2>1 DEF Fits
<1>21. \A r \in Task : Fits(r)'
  BY ZenonT(30), <1>18, <1>19, <1>20
<1>22. ASSUME NEW r \in Task, call'[r] = "fork" PROVE call[r] = "fork" /\ child'[r] = child[r] /\ child[r] # q
  <2>1. r # p
    BY Zenon, <1>16, <1>22
  <2>2. call[r] = "fork" /\ child'[r] = child[r]
    BY ZenonT(30), <1>14, <1>22, <2>1
  <2> QED
    BY Zenon, <2>1, <2>2 DEF Ind, OneChild
<1>23. \A r \in Task : child[r] \in Task
  BY Zenon, <1>1 DEF VmTypeOK
<1>24. ChildFree'
  <2>1. ASSUME NEW r \in Task, call'[r] = "fork" PROVE ~alive'[child'[r]]
    <3>1. call[r] = "fork" /\ child'[r] = child[r] /\ child[r] # q /\ child[r] \in Task
      BY ZenonT(30), <1>22, <1>23, <2>1
    <3>2. ~alive[child[r]] /\ alive'[child[r]] = alive[child[r]]
      BY Zenon, <1>15, <3>1 DEF Ind, ChildFree
    <3> QED
      BY ZenonT(30), <3>1, <3>2
  <2> QED
    BY Zenon, <2>1 DEF ChildFree
<1>25. OneChild'
  BY ZenonT(30), <1>22 DEF Ind, OneChild
<1> QED
  BY ZenonT(30), <1>12, <1>13, <1>21, <1>24, <1>25 DEF Ind

(* One turn of copyuvm, or its end, keeps the invariant. *)
LEMMA CopySteps ==
  ASSUME Ind, NEW p \in Task, copyuvm_page(p)
  PROVE  Ind'
<1> DEFINE v == nsz[p] \div PGSIZE
<1>1. call[p] = "fork" /\ call[p] # "" /\ call[p] # "sbrk"
  BY Zenon DEF copyuvm_page
<1>2. CASE /\ nsz[p] >= sz[p]
           /\ alive' = [alive EXCEPT ![child[p]] = TRUE] /\ sz' = [sz EXCEPT ![child[p]] = sz[p]]
           /\ dir' = [dir EXCEPT ![child[p]] = new[p]] /\ stack' = [stack EXCEPT ![child[p]] = stack[p]]
           /\ Done(p) /\ UNCHANGED freelist
  BY ZenonT(30), <1>1, <1>2, CopyEnds
<1>3. CASE /\ nsz[p] < sz[p] /\ v \in Present(dir[p]) /\ Enough(freelist, new[p], v)
           /\ nsz' = [nsz EXCEPT ![p] = nsz[p] + PGSIZE]
           /\ new' = [new EXCEPT ![p] = Copied(freelist, new[p], v, dir[p].guard)]
           /\ freelist' = Taken(freelist, new[p], v)
           /\ UNCHANGED <<alive, sz, dir, stack, call, todo, child, args>>
  BY ZenonT(30), <1>1, <1>3, CopyTakes
<1>4. CASE /\ nsz[p] < sz[p] /\ v \in Present(dir[p]) /\ ~Enough(freelist, new[p], v)
           /\ freelist' = FreeDir(Short(freelist), new[p])
           /\ Done(p) /\ UNCHANGED <<alive, sz, dir, stack>>
  <2>1. freelist' = FreeDir(freelist, new[p])
    BY ZenonT(30), <1>4, ShortSame
  <2> QED
    BY ZenonT(30), <1>1, <1>4, <2>1, GivesUp
<1> QED
  BY ZenonT(30), <1>2, <1>3, <1>4 DEF copyuvm_page

(* exit, with the wait that follows, keeps the invariant. *)
LEMMA ExitSteps ==
  ASSUME Ind, NEW p \in Task, exit(p)
  PROVE  Ind'
<1>1. alive[p] /\ call[p] = ""
  BY Zenon DEF exit, AtUser
<1>2. /\ VmTypeOK
      /\ Typed(alive[p], call[p], dir[p], new[p], nsz[p], todo[p], sz[p], stack[p], child[p], args[p])
      /\ new[p] = NoDir /\ nsz[p] = 0
  BY Zenon, <1>1, AtRest
<1>3. Sets(p, FALSE, call[p], NoDir, new[p], nsz[p], todo[p], 0, 0, child[p], args[p])
  BY ZenonT(30), <1>2, Old DEF exit, Sets, callVars
<1>4. 0 \in 0 .. KERNBASE - 1 /\ 0 \in Nat
  BY SMTT(20), VmAssumption
<1>5. Typed(FALSE, call[p], NoDir, new[p], nsz[p], todo[p], 0, 0, child[p], args[p])
  BY ZenonT(30), <1>2, <1>4, NoDirType DEF Typed
<1>6. Owns(FALSE, call[p], NoDir, 0, 0)
  BY Zenon, <1>1, NoDirType DEF Owns
<1>7. Builds(call[p], NoDir, new[p], nsz[p], todo[p], 0)
  BY Zenon, <1>1, <1>2 DEF Builds
<1>8. Cleared(NoDir.page, dir[p], Entry) /\ Entry \in SUBSET Entry /\ NoDir \in DirType
  BY Zenon, NoDirType DEF Cleared
<1>9. freelist' = kfree(freelist, dir[p], Entry) /\ dir' = [dir EXCEPT ![p] = NoDir] /\ new' = new
  BY Zenon DEF exit, FreeDir, callVars
<1>10. freelist' \in [Page -> Nat] /\ Parted(freelist', Spaces(dir', new'))
  BY ZenonT(30), <1>8, <1>9, FreeInDir
<1>11. call[p] # "fork"
  BY Zenon, <1>1
<1> QED
  BY ZenonT(30), <1>1, <1>3, <1>5, <1>6, <1>7, <1>10, <1>11, Moves

-----------------------------------------------------------------------------
(* The start of exec keeps the invariant. *)
LEMMA ExecStarts ==
  ASSUME Ind, NEW p \in Task, NEW prog \in Programs, exec(p, prog)
  PROVE  Ind'
<1> DEFINE n == setupkvm(freelist)
<1>1. alive[p] /\ call[p] = "" /\ CanSetup(freelist)
  BY Zenon DEF exec, AtUser
<1>2. /\ VmTypeOK
      /\ Typed(alive[p], call[p], dir[p], new[p], nsz[p], todo[p], sz[p], stack[p], child[p], args[p])
      /\ Owns(alive[p], call[p], dir[p], sz[p], stack[p]) /\ new[p] = NoDir /\ nsz[p] = 0
  BY ZenonT(30), <1>1, AtRest
<1>3. Empty(n)
  BY Zenon, <1>1, SetupEmpty
<1>4. prog.segs \in Seq(Nat) /\ prog.args \in Nat
  BY SMTT(20), VmAssumption
<1>5. Sets(p, alive[p], "exec", dir[p], n, nsz[p], prog.segs, sz[p], stack[p], child[p], prog.args)
  BY Zenon, <1>2, Old DEF exec, Sets
<1>6. freelist' = Setup(freelist) /\ new' = [new EXCEPT ![p] = n] /\ dir' = dir
  BY Zenon DEF exec
<1>7. freelist' \in [Page -> Nat] /\ Parted(freelist', Spaces(dir', new'))
  BY ZenonT(30), <1>1, <1>2, <1>3, <1>6, SetupInNew DEF Empty
<1> HIDE DEF n
<1>8. Typed(alive[p], "exec", dir[p], n, nsz[p], prog.segs, sz[p], stack[p], child[p], prog.args)
  BY ZenonT(30), <1>2, <1>3, <1>4 DEF Typed, Calls, Empty
<1>9. Owns(alive[p], "exec", dir[p], sz[p], stack[p])
  BY ZenonT(30), <1>1, <1>2, OwnsStill
<1>10. Builds("exec", dir[p], n, nsz[p], prog.segs, sz[p])
  BY Zenon, <1>2, <1>3 DEF Builds, Empty
<1> QED
  BY ZenonT(30), <1>1, <1>5, <1>7, <1>8, <1>9, <1>10, Moves

(* What p's part of the invariant says in exec. *)
LEMMA InExec ==
  ASSUME Ind, NEW p \in Task, call[p] \in {"exec", "stack"}
  PROVE  /\ VmTypeOK /\ call[p] # "" /\ call[p] # "sbrk" /\ call[p] # "fork"
         /\ Typed(alive[p], call[p], dir[p], new[p], nsz[p], todo[p], sz[p], stack[p], child[p], args[p])
         /\ Owns(alive[p], call[p], dir[p], sz[p], stack[p])
         /\ alive[p] /\ nsz[p] \in Nat /\ nsz[p] <= KERNBASE /\ new[p] \in DirType
         /\ todo[p] \in Seq(Nat)
         /\ Present(new[p]) = Below(nsz[p]) /\ new[p].lost = {} /\ new[p].guard = {}
         /\ (call[p] = "stack" => Loads(nsz[p], todo[p]))
<1>1. /\ VmTypeOK /\ Owns(alive[p], call[p], dir[p], sz[p], stack[p])
      /\ Builds(call[p], dir[p], new[p], nsz[p], todo[p], sz[p])
  BY Zenon, IndAt
<1>2. Typed(alive[p], call[p], dir[p], new[p], nsz[p], todo[p], sz[p], stack[p], child[p], args[p])
  BY Zenon, <1>1, Values
<1>3. call[p] # "" /\ call[p] # "sbrk" /\ call[p] # "fork"
  BY Zenon
<1>4. alive[p]
  BY ZenonT(30), <1>1, <1>2, <1>3, InCall DEF Typed
<1>5. nsz[p] \in 0 .. KERNBASE /\ new[p] \in DirType /\ todo[p] \in Seq(Nat)
  BY Zenon, <1>2 DEF Typed
<1>6. nsz[p] \in Nat /\ nsz[p] <= KERNBASE
  BY Zenon, <1>5, Sizes
<1> QED
  BY ZenonT(30), <1>1, <1>2, <1>3, <1>4, <1>5, <1>6 DEF Builds

(* A segment's end was reached. *)
Larger(m, n) == IF n > m THEN n ELSE m

(* No page was missing. *)
LEMMA SegmentEnds ==
  ASSUME NEW m \in Nat, m <= KERNBASE, NEW n \in Nat, ~(n >= KERNBASE), PGROUNDUP(m) >= PGROUNDUP(n)
  PROVE  Larger(m, n) \in 0 .. KERNBASE /\ Below(Larger(m, n)) = Below(m)
<1>1. CASE ~(n > m)
  <2>1. Larger(m, n) = m /\ m \in 0 .. KERNBASE
    BY SMTT(20), <1>1, VmAssumption DEF Larger
  <2> QED
    BY Zenon, <2>1
<1>2. CASE n > m
  <2>1. Larger(m, n) = n /\ n \in 0 .. KERNBASE /\ m <= n
    BY SMTT(20), <1>2, VmAssumption DEF Larger
  <2>2. PGROUNDUP(m) \in Nat /\ PGROUNDUP(n) \in Nat /\ PGROUNDUP(m) <= PGROUNDUP(n)
    BY ZenonT(30), <2>1, Rounding, Monotone
  <2>3. PGROUNDUP(m) = PGROUNDUP(n)
    BY SMTT(20), <2>2
  <2> QED
    BY Zenon, <2>1, <2>3 DEF Below
<1> QED
  BY Zenon, <1>1, <1>2

(* The stack's end was reached: it is where allocuvm has come to. *)
LEMMA StackEnds ==
  ASSUME NEW m \in Nat, NEW td \in Seq(Nat), td # <<>>, Loads(m, td), ~(Head(td) >= KERNBASE),
         PGROUNDUP(m) >= PGROUNDUP(Head(td))
  PROVE  Loads(Larger(m, Head(td)), Tail(td))
<1> DEFINE n == Head(td)
<1>1. /\ Aligned(m) /\ m <= n /\ 2 * PGSIZE <= n /\ Aligned(n) /\ Tail(td) = <<>>
  BY Zenon DEF Loads
<1>2. n \in Nat
  OBVIOUS
<1> HIDE DEF n
<1>3. PGROUNDUP(m) \in Nat /\ PGROUNDUP(n) \in Nat
  BY ZenonT(30), <1>2, Rounding
<1>4. PGROUNDUP(n) <= PGROUNDUP(m)
  BY SMTT(20), <1>3 DEF n
<1>5. n <= m
  BY ZenonT(30), <1>1, <1>2, <1>4, WholeOrder
<1>6. Larger(m, n) = n
  BY SMTT(20), <1>1, <1>2, <1>5 DEF Larger
<1>7. n < KERNBASE
  BY Zenon, <1>2, NotLarge DEF n
<1> QED
  BY ZenonT(30), <1>1, <1>6, <1>7 DEF Loads, n

(* allocuvm has come to a segment's end. *)
LEMMA ExecSegment ==
  ASSUME Ind, NEW p \in Task, call[p] \in {"exec", "stack"}, todo[p] # <<>>,
         NEW newsz, newsz = Head(todo[p]), ~TooLarge(newsz), PGROUNDUP(nsz[p]) >= PGROUNDUP(newsz),
         nsz' = [nsz EXCEPT ![p] = Larger(nsz[p], newsz)],
         todo' = [todo EXCEPT ![p] = Tail(todo[p])],
         UNCHANGED <<freelist, sz, dir, stack, call, new, child, args>>, UNCHANGED alive
  PROVE  Ind'
<1> DEFINE ns == Larger(nsz[p], newsz)
           td == Tail(todo[p])
<1>1. /\ VmTypeOK /\ call[p] # "" /\ call[p] # "sbrk" /\ call[p] # "fork"
      /\ Typed(alive[p], call[p], dir[p], new[p], nsz[p], todo[p], sz[p], stack[p], child[p], args[p])
      /\ Owns(alive[p], call[p], dir[p], sz[p], stack[p])
      /\ alive[p] /\ nsz[p] \in Nat /\ nsz[p] <= KERNBASE /\ todo[p] \in Seq(Nat)
      /\ Present(new[p]) = Below(nsz[p]) /\ new[p].lost = {} /\ new[p].guard = {}
      /\ (call[p] = "stack" => Loads(nsz[p], todo[p]))
  BY Zenon, InExec
<1>2. Head(todo[p]) \in Nat /\ td \in Seq(Nat)
  <2>1. todo[p] \in Seq(Nat)
    BY Zenon, <1>1
  <2> QED
    BY SMTT(20), <2>1
<1>3. newsz \in Nat /\ ~(newsz >= KERNBASE)
  BY Zenon, <1>2 DEF TooLarge
<1>4. ns \in 0 .. KERNBASE /\ Below(ns) = Below(nsz[p])
  BY ZenonT(30), <1>1, <1>3, SegmentEnds
<1>5. call[p] = "stack" => Loads(ns, td)
  BY ZenonT(30), <1>1, <1>3, StackEnds
<1>6. Sets(p, alive[p], call[p], dir[p], new[p], ns, td, sz[p], stack[p], child[p], args[p])
  BY Zenon, <1>1, Old DEF Sets
<1> HIDE DEF ns, td
<1>7. Typed(alive[p], call[p], dir[p], new[p], ns, td, sz[p], stack[p], child[p], args[p])
  BY ZenonT(30), <1>1, <1>2, <1>4 DEF Typed
<1>8. Builds(call[p], dir[p], new[p], ns, td, sz[p])
  BY ZenonT(30), <1>1, <1>4, <1>5 DEF Builds
<1>9. freelist' \in [Page -> Nat] /\ Parted(freelist', Spaces(dir', new'))
  BY Zenon, NothingMoved
<1> QED
  BY ZenonT(30), <1>1, <1>6, <1>7, <1>8, <1>9, Moves

(* allocuvm's next page is not beyond the stack's end. *)
LEMMA StackTakes ==
  ASSUME NEW m \in Nat, NEW td \in Seq(Nat), td # <<>>, Loads(m, td), NEW ns \in Nat, Aligned(ns),
         PGROUNDUP(ns) <= PGROUNDUP(Head(td))
  PROVE  Loads(ns, td)
<1>1. Head(td) \in Nat
  OBVIOUS
<1>2. Tail(td) = <<>> /\ 2 * PGSIZE <= Head(td) /\ Aligned(Head(td))
  BY Zenon DEF Loads
<1>3. ns <= Head(td)
  BY Zenon, <1>1, <1>2, WholeOrder
<1> QED
  BY Zenon, <1>2, <1>3 DEF Loads

(* allocuvm takes a page for exec. *)
LEMMA ExecTakes ==
  ASSUME Ind, NEW p \in Task, call[p] \in {"exec", "stack"}, todo[p] # <<>>,
         NEW v, v = PGROUNDUP(nsz[p]), ~TooLarge(Head(todo[p])), ~(v >= PGROUNDUP(Head(todo[p]))),
         Enough(freelist, new[p], v), new' = [new EXCEPT ![p] = AllocPage(freelist, new[p], v)],
         nsz' = [nsz EXCEPT ![p] = (v + 1) * PGSIZE], freelist' = Taken(freelist, new[p], v),
         UNCHANGED <<sz, dir, stack, call, todo, child, args>>, UNCHANGED alive
  PROVE  Ind'
<1> DEFINE newsz == Head(todo[p])
           ns == (v + 1) * PGSIZE
           n  == AllocPage(freelist, new[p], v)
<1>1. /\ VmTypeOK /\ call[p] # "" /\ call[p] # "sbrk" /\ call[p] # "fork"
      /\ Typed(alive[p], call[p], dir[p], new[p], nsz[p], todo[p], sz[p], stack[p], child[p], args[p])
      /\ Owns(alive[p], call[p], dir[p], sz[p], stack[p]) /\ new[p] \in DirType
      /\ alive[p] /\ nsz[p] \in Nat /\ nsz[p] <= KERNBASE /\ todo[p] \in Seq(Nat)
      /\ Present(new[p]) = Below(nsz[p]) /\ new[p].lost = {} /\ new[p].guard = {}
      /\ (call[p] = "stack" => Loads(nsz[p], todo[p]))
  BY Zenon, InExec
<1>2. newsz \in Nat
  <2>1. todo[p] \in Seq(Nat)
    BY Zenon, <1>1
  <2> QED
    BY SMTT(20), <2>1
<1>3. ~(newsz >= KERNBASE)
  BY Zenon DEF TooLarge
<1>4. Sets(p, alive[p], call[p], dir[p], n, ns, todo[p], sz[p], stack[p], child[p], args[p])
  BY Zenon, <1>1, Old DEF Sets
<1>5. v \in Nat /\ PGROUNDUP(newsz) \in Nat
  BY ZenonT(30), <1>1, <1>2, Rounding
<1>6. v < PGROUNDUP(newsz) /\ newsz <= KERNBASE
  <2> HIDE DEF newsz
  <2>1. ~(v >= PGROUNDUP(newsz))
    BY Zenon DEF newsz
  <2>2. newsz <= KERNBASE
    BY ZenonT(30), <1>2, <1>3, NotLarge
  <2> QED
    BY ZenonT(30), <1>5, <2>1, <2>2, NotLess
<1>7. /\ v \in VPage /\ v \notin Below(nsz[p]) /\ ns \in 0 .. KERNBASE /\ Aligned(ns)
      /\ PGROUNDUP(ns) <= PGROUNDUP(newsz) /\ Below(ns) = Below(nsz[p]) \cup {v}
  BY ZenonT(30), <1>1, <1>2, <1>6, NextPage
<1> HIDE DEF ns
<1>8. ns \in Nat
  BY Zenon, <1>7, Sizes
<1>9. call[p] = "stack" => Loads(ns, todo[p])
  BY ZenonT(30), <1>1, <1>7, <1>8, StackTakes
<1>10. OneMore(n, new[p], v)
  BY Zenon, <1>1, <1>7, AllocDir
<1>11. v \notin Present(new[p])
  BY Zenon, <1>1, <1>7
<1>12. freelist' \in [Page -> Nat] /\ Parted(freelist', Spaces(dir', new'))
  BY ZenonT(30), <1>7, <1>10, <1>11, AllocInNew DEF OneMore
<1> HIDE DEF n
<1>13. Typed(alive[p], call[p], dir[p], n, ns, todo[p], sz[p], stack[p], child[p], args[p])
  BY ZenonT(30), <1>1, <1>7, <1>10 DEF Typed, OneMore
<1>14. Builds(call[p], dir[p], n, ns, todo[p], sz[p])
  BY ZenonT(30), <1>1, <1>7, <1>9, <1>10 DEF Builds, OneMore
<1> QED
  BY ZenonT(30), <1>1, <1>4, <1>12, <1>13, <1>14, Moves

(* A turn of allocuvm for exec, a segment's end, or bad:, keeps the        *)
(* invariant.                                                              *)
LEMMA ExecSteps ==
  ASSUME Ind, NEW p \in Task, exec_page(p)
  PROVE  Ind'
<1> DEFINE newsz == Head(todo[p])
           v == PGROUNDUP(nsz[p])
           loaded == v >= PGROUNDUP(newsz)
<1>1. call[p] \in {"exec", "stack"} /\ todo[p] # <<>> /\ UNCHANGED alive
  BY Zenon DEF exec_page
<1>2. call[p] # "" /\ call[p] # "sbrk"
  BY Zenon, <1>1
<1>3. CASE /\ ~TooLarge(newsz) /\ loaded
           /\ nsz' = [nsz EXCEPT ![p] = Larger(nsz[p], newsz)]
           /\ todo' = [todo EXCEPT ![p] = Tail(todo[p])]
           /\ UNCHANGED <<freelist, sz, dir, stack, call, new, child, args>>
  BY Zenon, <1>1, <1>3, ExecSegment
<1>4. CASE /\ ~TooLarge(newsz) /\ ~loaded /\ Enough(freelist, new[p], v)
           /\ new' = [new EXCEPT ![p] = AllocPage(freelist, new[p], v)]
           /\ nsz' = [nsz EXCEPT ![p] = (v + 1) * PGSIZE]
           /\ freelist' = Taken(freelist, new[p], v)
           /\ UNCHANGED <<sz, dir, stack, call, todo, child, args>>
  BY ZenonT(30), <1>1, <1>4, ExecTakes
<1>5. CASE ExecBad(p, freelist)
  BY ZenonT(30), <1>1, <1>2, <1>5, GivesUp DEF ExecBad
<1>6. CASE ExecBad(p, Short(freelist))
  <2>1. ExecBad(p, freelist)
    BY Zenon, <1>6, ShortSame
  <2> QED
    BY Zenon, <1>5, <2>1
<1> QED
  BY ZenonT(30), <1>3, <1>4, <1>5, <1>6 DEF exec_page, Larger

(* Making room for the stack keeps the invariant. *)
LEMMA LoadedSteps ==
  ASSUME Ind, NEW p \in Task, exec_loaded(p)
  PROVE  Ind'
<1> DEFINE size == PGROUNDUP(nsz[p]) * PGSIZE
           td   == <<size + 2 * PGSIZE>>
<1>1. call[p] = "exec"
  BY Zenon DEF exec_loaded
<1>2. /\ VmTypeOK
      /\ Typed(alive[p], call[p], dir[p], new[p], nsz[p], todo[p], sz[p], stack[p], child[p], args[p])
      /\ Owns(alive[p], call[p], dir[p], sz[p], stack[p])
      /\ alive[p] /\ nsz[p] \in Nat /\ nsz[p] <= KERNBASE
      /\ Present(new[p]) = Below(nsz[p]) /\ new[p].lost = {} /\ new[p].guard = {}
  BY Zenon, <1>1, InExec
<1>3. Sets(p, alive[p], "stack", dir[p], new[p], size, td, sz[p], stack[p], child[p], args[p])
  BY Zenon, <1>2, Old DEF exec_loaded, Sets
<1>4. PGROUNDUP(nsz[p]) \in Nat /\ size <= KERNBASE
  BY Zenon, <1>2, Rounding, KernBase
<1>5. /\ size \in Nat /\ Aligned(size) /\ size + 2 * PGSIZE \in Nat /\ Aligned(size + 2 * PGSIZE)
      /\ size <= size + 2 * PGSIZE /\ 2 * PGSIZE <= size + 2 * PGSIZE
  BY Zenon, <1>4, TwoMore
<1>6. PGROUNDUP(size) = PGROUNDUP(nsz[p])
  BY Zenon, <1>4, WholePages
<1>7. Below(size) = Below(nsz[p])
  BY Zenon, <1>6 DEF Below
<1> HIDE DEF size
<1>8. size \in 0 .. KERNBASE
  <2>1. size <= KERNBASE /\ size \in Nat
    BY Zenon, <1>4, <1>5
  <2> QED
    BY SMTT(20), <2>1, VmAssumption
<1>9. td \in Seq(Nat) /\ td # <<>> /\ Head(td) = size + 2 * PGSIZE /\ Tail(td) = <<>>
  <2>1. size + 2 * PGSIZE \in Nat
    BY Zenon, <1>5
  <2> QED
    BY <2>1
<1> HIDE DEF td
<1>10. Loads(size, td)
  BY Zenon, <1>5, <1>9 DEF Loads
<1>11. Typed(alive[p], "stack", dir[p], new[p], size, td, sz[p], stack[p], child[p], args[p])
  BY Zenon, <1>2, <1>8, <1>9 DEF Typed, Calls
<1>12. Owns(alive[p], "stack", dir[p], sz[p], stack[p])
  BY ZenonT(30), <1>1, <1>2, OwnsStill
<1>13. Builds("stack", dir[p], new[p], size, td, sz[p])
  BY Zenon, <1>2, <1>7, <1>10 DEF Builds
<1>14. freelist' \in [Page -> Nat] /\ Parted(freelist', Spaces(dir', new'))
  BY Zenon, NothingMoved DEF exec_loaded
<1> QED
  BY ZenonT(30), <1>2, <1>3, <1>11, <1>12, <1>13, <1>14, Moves

(* The spaces, when exec's takes the place of the old one. *)
LEMMA Exchanged ==
  ASSUME Ind, NEW p \in Task, NEW d \in DirType, d.page = new[p].page,
         freelist' = FreeDir(freelist, dir[p]),
         dir' = [dir EXCEPT ![p] = d], new' = [new EXCEPT ![p] = NoDir]
  PROVE  freelist' \in [Page -> Nat] /\ Parted(freelist', Spaces(dir', new'))
<1> DEFINE f  == Spaces(dir, new)
           t  == <<p, "dir">>
           s  == <<p, "new">>
           f1 == Upd(f, t, NoDir.page)
           f2 == Spaces([dir EXCEPT ![p] = d], [new EXCEPT ![p] = NoDir])
           fr == kfree(freelist, dir[p], Entry)
<1>1. /\ Parted(freelist, f) /\ f \in Layout
      /\ dir \in [Task -> DirType] /\ new \in [Task -> DirType]
  BY Zenon, IndAt
<1>2. s \in Space /\ t \in Space /\ s # t
  BY DEF Space
<1>3. In(f, t, dir[p])
  BY Zenon, DirAt
<1>4. Cleared(NoDir.page, dir[p], Entry) /\ Entry \in SUBSET Entry
  BY Zenon, NoDirType DEF Cleared
<1>5. Parted(fr, f1)
  BY ZenonT(30), <1>1, <1>2, <1>3, <1>4, FreeParted
<1>6. f1 \in Layout
  <2>1. NoDir.page \in [Entry -> Page \cup {0}]
    BY ZenonT(30), NoDirType, DirParts
  <2> QED
    BY ZenonT(30), <1>1, <1>2, <2>1 DEF Upd, Layout
<1>7. Moved(f1, s, t, f2)
  BY ZenonT(30), <1>1, <1>6, Replaced
<1>8. freelist' = fr /\ Spaces(dir', new') = f2
  BY Zenon DEF FreeDir
<1> HIDE DEF f, f1, f2, s, t
<1>9. Parted(fr, f2)
  BY ZenonT(30), <1>2, <1>5, <1>7, MoveParted
<1>10. fr \in [Page -> Nat]
  BY ZenonT(30), <1>9, ListTyped, FreedTyped
<1> QED
  BY ZenonT(30), <1>8, <1>9, <1>10

(* The end of exec keeps the invariant. *)
LEMMA CommitSteps ==
  ASSUME Ind, NEW p \in Task, exec_commit(p)
  PROVE  Ind'
<1> DEFINE top == nsz[p] \div PGSIZE - 1
           d   == clearpteu(new[p], top - 1)
<1>1. call[p] = "stack" /\ todo[p] = <<>> /\ alive' = alive
  BY Zenon DEF exec_commit
<1>2. CASE /\ sz' = [sz EXCEPT ![p] = nsz[p]]
           /\ dir' = [dir EXCEPT ![p] = d] /\ stack' = [stack EXCEPT ![p] = top]
           /\ freelist' = FreeDir(freelist, dir[p]) /\ Done(p)
  <2>1. /\ VmTypeOK
        /\ Typed(alive[p], call[p], dir[p], new[p], nsz[p], todo[p], sz[p], stack[p], child[p], args[p])
        /\ alive[p] /\ nsz[p] \in Nat /\ new[p] \in DirType
        /\ Present(new[p]) = Below(nsz[p]) /\ new[p].lost = {} /\ new[p].guard = {} /\ Loads(nsz[p], todo[p])
    BY ZenonT(30), <1>1, InExec
  <2>2. Aligned(nsz[p]) /\ 2 * PGSIZE <= nsz[p] /\ nsz[p] < KERNBASE
    BY ZenonT(30), <1>1, <2>1 DEF Loads
  <2>3. nsz[p] \in 0 .. KERNBASE - 1 /\ nsz[p] <= KERNBASE
    BY ZenonT(30), <2>1, <2>2, SizeFits
  <2>4. top \in Nat /\ top # 0 /\ top - 1 \in Below(nsz[p])
    BY ZenonT(30), <2>1, <2>2, <2>3, Beneath
  <2>5. Sets(p, alive[p], "", d, NoDir, 0, <<>>, nsz[p], top, firstTask, 0)
    BY ZenonT(30), <1>1, <1>2, <2>1, Returns, Old DEF Sets
  <2>6. new' = [new EXCEPT ![p] = NoDir]
    BY Zenon, <1>2 DEF Done
  <2> HIDE DEF top
  <2>7. {top - 1} \in SUBSET VPage
    BY Zenon, <2>4 DEF Below
  <2>8. d = Dir(new[p].page, {top - 1}, {})
    <3>1. {} \cup {top - 1} = {top - 1}
      BY Zenon
    <3> QED
      BY ZenonT(30), <2>1, <3>1 DEF clearpteu
  <2> HIDE DEF d
  <2>9. /\ d \in DirType /\ d.page = new[p].page /\ d.guard = {top - 1} /\ d.lost = {}
        /\ Present(d) = Present(new[p])
    <3> DEFINE n == new[p]
               G == {top - 1}
               L == {}
               e == Dir(n.page, G, L)
    <3>1. n \in DirType /\ G \in SUBSET VPage /\ L \in SUBSET VPage
      BY Zenon, <2>1, <2>7
    <3>2. d = e
      BY Zenon, <2>8
    <3> HIDE DEF n, G, L
    <3>3. e \in DirType /\ e.page = n.page /\ e.guard = G /\ e.lost = L /\ Present(e) = Present(n)
      BY ZenonT(30), <3>1, Reflagged
    <3> HIDE DEF e
    <3> QED
      BY Zenon, <3>2, <3>3 DEF n, G, L
  <2>10. freelist' \in [Page -> Nat] /\ Parted(freelist', Spaces(dir', new'))
    BY ZenonT(30), <1>2, <2>6, <2>9, Exchanged
  <2>11. Owns(alive[p], "", d, nsz[p], top)
    BY ZenonT(30), <2>1, <2>4, <2>9 DEF Owns
  <2>12. /\ Typed(alive[p], "", d, NoDir, 0, <<>>, nsz[p], top, firstTask, 0)
         /\ Builds("", d, NoDir, 0, <<>>, nsz[p])
    BY ZenonT(30), <2>1, <2>3, <2>4, <2>9, Idle DEF Typed
  <2> QED
    BY ZenonT(30), <2>1, <2>5, <2>10, <2>11, <2>12, Moves
<1>3. CASE ExecBad(p, freelist)
  <2>1. call[p] # "" /\ call[p] # "sbrk"
    BY Zenon, <1>1
  <2> QED
    BY ZenonT(30), <1>1, <1>3, <2>1, GivesUp DEF ExecBad
<1> QED
  BY ZenonT(30), <1>2, <1>3 DEF exec_commit

-----------------------------------------------------------------------------
(* The first directory. *)
LEMMA FirstPage == 0 \in VPage /\ PGROUNDUP(PGSIZE) = 1 /\ Below(PGSIZE) = {0}
<1>1. 1 * PGSIZE = PGSIZE /\ 1 \in Nat /\ PGSIZE \in Nat /\ PGSIZE <= KERNBASE
  BY SMTT(20), VmAssumption
<1>2. PGROUNDUP(PGSIZE) = 1
  BY ZenonT(30), <1>1, WholePages
<1>3. 0 < 1 /\ 0 \in Nat
  OBVIOUS
<1>4. 0 \in VPage
  BY ZenonT(30), <1>1, <1>2, <1>3, KernBase
<1>5. \A v \in VPage : v < 1 <=> v = 0
  BY DEF VPage
<1> QED
  BY ZenonT(30), <1>2, <1>4, <1>5 DEF Below

(* Its entries. *)
LEMMA FirstIs ==
  ASSUME NEW e \in Entry
  PROVE  /\ e = Pgdir => FirstDir.page[e] = 1
         /\ e = Kpt => FirstDir.page[e] = 2
         /\ e = Pt(0) => FirstDir.page[e] = 3
         /\ e = Pte(0) => FirstDir.page[e] = 4
         /\ e # Pgdir /\ e # Kpt /\ e # Pt(0) /\ e # Pte(0) => FirstDir.page[e] = 0
<1>1. FirstDir.page[e] = CASE e = Pgdir -> 1 [] e = Kpt -> 2 [] e = Pt(0) -> 3 [] e = Pte(0) -> 4 [] OTHER -> 0
  BY DEF FirstDir, Dir
<1>2. /\ Pgdir # Kpt /\ Pt(0) # Pgdir /\ Pt(0) # Kpt /\ Pte(0) # Pgdir /\ Pte(0) # Kpt /\ Pt(0) # Pte(0)
  BY Zenon, Entries, FirstPage
<1> QED
  BY SMTT(20), <1>1, <1>2

(* It has one user page. *)
LEMMA FirstTyped ==
  FirstDir \in DirType /\ FirstDir.guard = {} /\ FirstDir.lost = {} /\ Present(FirstDir) = Below(PGSIZE)
<1> DEFINE g == FirstDir.page
<1>1. 1 \in Page /\ 2 \in Page /\ 3 \in Page /\ 4 \in Page
  BY VmAssumption DEF Page
<1>2. \A e \in Entry : g[e] \in Page \cup {0}
  BY ZenonT(30), <1>1, FirstIs
<1>3. /\ g = [e \in Entry |-> g[e]] /\ FirstDir = Dir(g, {}, {}) /\ {} \in SUBSET VPage
      /\ FirstDir.guard = {} /\ FirstDir.lost = {}
  BY DEF FirstDir, Dir
<1>4. g \in [Entry -> Page \cup {0}]
  BY ZenonT(30), <1>2, <1>3
<1>5. 4 # 0
  OBVIOUS
<1>6. ASSUME NEW w \in VPage PROVE g[Pte(w)] # 0 <=> w = 0
  <2>1. /\ Pte(w) \in Entry /\ Pte(w) # Pgdir /\ Pte(w) # Kpt /\ Pte(w) # Pt(0) /\ (Pte(w) = Pte(0) => w = 0)
    BY Zenon, Entries, FirstPage
  <2>2. CASE w = 0
    BY ZenonT(30), <1>5, <2>1, <2>2, FirstIs
  <2>3. CASE w # 0
    BY ZenonT(30), <2>1, <2>3, FirstIs
  <2> QED
    BY ZenonT(30), <2>2, <2>3
<1>7. Present(FirstDir) = {0}
  BY ZenonT(30), <1>6, FirstPage DEF Present
<1>8. FirstDir \in DirType
  <2>1. Dir(g, {}, {}) \in DirType
    BY ZenonT(30), <1>3, <1>4, DirTyped
  <2> QED
    BY ZenonT(30), <1>3, <2>1
<1>9. FirstDir.guard = {} /\ FirstDir.lost = {}
  BY Zenon, <1>3
<1> QED
  BY ZenonT(30), <1>7, <1>8, <1>9, FirstPage

FirstCase(e, x) ==
  (e = Pgdir /\ x = 1) \/ (e = Kpt /\ x = 2) \/ (e = Pt(0) /\ x = 3) \/ (e = Pte(0) /\ x = 4) \/ x = 0

(* Its entries again, by cases. *)
LEMMA FirstCases ==
  ASSUME NEW e \in Entry
  PROVE  FirstCase(e, FirstDir.page[e])
<1> DEFINE x == FirstDir.page[e]
<1>1. /\ (e = Pgdir => x = 1) /\ (e = Kpt => x = 2) /\ (e = Pt(0) => x = 3) /\ (e = Pte(0) => x = 4)
      /\ (e # Pgdir /\ e # Kpt /\ e # Pt(0) /\ e # Pte(0) => x = 0)
  BY ZenonT(30), FirstIs
<1> HIDE DEF x
<1>2. FirstCase(e, x)
  BY ZenonT(30), <1>1 DEF FirstCase
<1> QED
  BY ZenonT(30), <1>2 DEF x

(* Its four pages are those that are not on the list. *)
LEMMA FirstHolds ==
  ASSUME NEW fr, fr = [x \in Page |-> IF x <= 4 THEN 0 ELSE 1], NEW f, NEW s \in Space,
         In(f, s, FirstDir), \A t \in Space : t # s => In(f, t, NoDir)
  PROVE  Parted(fr, f)
<1> DEFINE g == FirstDir.page
<1>1. /\ Pgdir \in Entry /\ Kpt \in Entry /\ Pt(0) \in Entry /\ Pte(0) \in Entry
  BY ZenonT(30), Entries, FirstPage
<1>2. g[Pgdir] = 1 /\ g[Kpt] = 2 /\ g[Pt(0)] = 3 /\ g[Pte(0)] = 4
  BY ZenonT(30), <1>1, FirstIs
<1>3. \A e \in Entry : FirstCase(e, g[e])
  BY ZenonT(30), FirstCases
<1>4. f[s] = g
  BY Zenon DEF In
<1>5. \A t \in Space, e \in Entry : t # s => f[t][e] = 0
  BY ZenonT(30), NoDirType DEF In
<1> HIDE DEF g
<1>6. ASSUME NEW x \in Page PROVE fr[x] = 0 \/ fr[x] = 1
  BY Zenon
<1>7. ASSUME NEW x \in Page, fr[x] = 1, NEW t \in Space, NEW e \in Entry PROVE f[t][e] # x
  <2>1. ~(x <= 4) /\ x # 0 /\ x # 1 /\ x # 2 /\ x # 3 /\ x # 4
    BY SMTT(20), <1>7 DEF Page
  <2>2. CASE t = s
    BY ZenonT(30), <1>3, <1>4, <2>1, <2>2 DEF FirstCase
  <2>3. CASE t # s
    BY ZenonT(30), <1>5, <2>1, <2>3
  <2> QED
    BY ZenonT(30), <2>2, <2>3
<1>8. ASSUME NEW x \in Page, fr[x] = 0 PROVE \E t \in Space, e \in Entry : f[t][e] = x
  <2>1. x = 1 \/ x = 2 \/ x = 3 \/ x = 4
    BY SMTT(20), <1>8 DEF Page
  <2> QED
    BY ZenonT(30), <1>1, <1>2, <1>4, <2>1
<1>9. ASSUME NEW t \in Space, NEW u \in Space, NEW e \in Entry, NEW k \in Entry,
             f[t][e] = f[u][k], f[t][e] # 0
      PROVE  t = u /\ e = k
  <2>1. t = s /\ u = s
    BY ZenonT(30), <1>5, <1>9
  <2>2. g[e] = g[k] /\ g[e] # 0
    BY ZenonT(30), <1>4, <1>9, <2>1
  <2>3. e = k
    BY SMTT(20), <1>3, <2>2 DEF FirstCase
  <2> QED
    BY ZenonT(30), <2>1, <2>3
<1> QED
  BY SMTT(20), <1>6, <1>7, <1>8, <1>9 DEF Parted

(* The initial state satisfies the invariant. *)
LEMMA InitInd ==
  ASSUME VmInit
  PROVE  Ind
<1> DEFINE f == Spaces(dir, new)
           s == <<firstTask, "dir">>
<1>1. firstTask \in Task
  BY ZenonT(30), VmAssumption
<1>2. /\ 0 \in Nat /\ 1 \in Nat /\ 0 \in 0 .. KERNBASE - 1 /\ PGSIZE \in 0 .. KERNBASE - 1 /\ <<>> \in Seq(Nat)
      /\ 0 \in 0 .. KERNBASE
  BY SMTT(20), VmAssumption
<1>3. FirstDir \in DirType /\ NoDir \in DirType
  BY ZenonT(30), FirstTyped, NoDirType
<1>4. VmTypeOK
  <2>1. freelist \in [Page -> Nat]
    BY ZenonT(30), <1>2 DEF VmInit
  <2>2. alive \in [Task -> BOOLEAN] /\ sz \in [Task -> 0 .. KERNBASE - 1] /\ nsz \in [Task -> 0 .. KERNBASE]
    BY ZenonT(30), <1>2 DEF VmInit
  <2>3. dir \in [Task -> DirType] /\ new \in [Task -> DirType]
    BY ZenonT(30), <1>3 DEF VmInit
  <2>4. /\ call \in [Task -> {"", "sbrk", "fork", "exec", "stack"}] /\ stack \in [Task -> Nat]
        /\ todo \in [Task -> Seq(Nat)] /\ child \in [Task -> Task] /\ args \in [Task -> Nat]
    BY ZenonT(30), <1>1, <1>2 DEF VmInit
  <2> QED
    BY ZenonT(30), <2>1, <2>2, <2>3, <2>4 DEF VmTypeOK
<1>5. \A q \in Task : /\ dir[q] = IF q = firstTask THEN FirstDir ELSE NoDir
                      /\ new[q] = NoDir
  BY Zenon DEF VmInit
<1>6. s \in Space /\ In(f, s, FirstDir)
  BY ZenonT(30), <1>1, <1>5, DirAt
<1>7. \A t \in Space : t # s => In(f, t, NoDir)
  BY SMTT(20), <1>5 DEF In, Spaces, Space
<1>8. freelist = [x \in Page |-> IF x <= 4 THEN 0 ELSE 1]
  BY Zenon DEF VmInit
<1> HIDE DEF f, s
<1>9. Parted(freelist, f)
  BY ZenonT(30), <1>6, <1>7, <1>8, FirstHolds
<1>10. ASSUME NEW q \in Task PROVE Fits(q)
  <2>1. /\ call[q] = "" /\ new[q] = NoDir /\ nsz[q] = 0 /\ stack[q] = 0 /\ alive[q] = (q = firstTask)
        /\ sz[q] = IF q = firstTask THEN PGSIZE ELSE 0
    BY Zenon DEF VmInit
  <2>2. Builds(call[q], dir[q], new[q], nsz[q], todo[q], sz[q])
    BY ZenonT(30), <2>1 DEF Builds
  <2>3. Owns(alive[q], call[q], dir[q], sz[q], stack[q])
    <3>1. CASE q = firstTask
      BY ZenonT(30), <1>5, <2>1, <3>1, FirstTyped DEF Owns
    <3>2. CASE q # firstTask
      BY ZenonT(30), <1>5, <2>1, <3>2, NoDirType DEF Owns
    <3> QED
      BY ZenonT(30), <3>1, <3>2
  <2> QED
    BY ZenonT(30), <2>2, <2>3 DEF Fits
<1>11. \A q \in Task : call[q] # "fork"
  BY Zenon DEF VmInit
<1> QED
  BY ZenonT(30), <1>4, <1>9, <1>10, <1>11 DEF Ind, ChildFree, OneChild, f

-----------------------------------------------------------------------------
(* Every step of a process, and every step that changes nothing, keeps the *)
(* invariant.                                                              *)
LEMMA NextInd ==
  ASSUME Ind, [VmNext]_vmVars
  PROVE  Ind'
<1>1. CASE UNCHANGED vmVars
  <2>1. /\ freelist' = freelist /\ alive' = alive /\ sz' = sz /\ dir' = dir /\ stack' = stack
        /\ call' = call /\ new' = new /\ nsz' = nsz /\ todo' = todo /\ child' = child /\ args' = args
    BY ZenonT(30), <1>1 DEF vmVars, callVars
  <2>2. VmTypeOK' /\ Parted(freelist', Spaces(dir', new'))
    BY ZenonT(30), <2>1 DEF Ind, VmTypeOK
  <2>3. \A q \in Task : Fits(q)'
    BY ZenonT(30), <2>1 DEF Ind, Fits
  <2>4. ChildFree' /\ OneChild'
    BY ZenonT(30), <2>1 DEF Ind, ChildFree, OneChild
  <2> QED
    BY ZenonT(30), <2>2, <2>3, <2>4 DEF Ind
<1>2. CASE VmNext
  <2>1. PICK p \in Task : Call(p) \/ Turn(p)
    BY ZenonT(30), <1>2 DEF VmNext
  <2>2. CASE \E n \in Growth : sbrk_grow(p, n)
    BY ZenonT(30), <2>2, GrowStarts
  <2>3. CASE \E n \in Growth : sbrk_shrink(p, n)
    BY ZenonT(30), <2>3, ShrinkSteps
  <2>4. CASE \E q \in Task : copyuvm(p, q)
    BY ZenonT(30), <2>4, CopyStarts
  <2>5. CASE \E prog \in Programs : exec(p, prog)
    BY Zenon, <2>5, ExecStarts
  <2>6. CASE exit(p)
    BY ZenonT(30), <2>6, ExitSteps
  <2>7. CASE sbrk_page(p)
    BY ZenonT(30), <2>7, GrowSteps
  <2>8. CASE copyuvm_page(p)
    BY Zenon, <2>8, CopySteps
  <2>9. CASE exec_page(p)
    BY Zenon, <2>9, ExecSteps
  <2>10. CASE exec_loaded(p)
    BY Zenon, <2>10, LoadedSteps
  <2>11. CASE exec_commit(p)
    BY Zenon, <2>11, CommitSteps
  <2> QED
    BY ZenonT(30), <2>1, <2>2, <2>3, <2>4, <2>5, <2>6, <2>7, <2>8, <2>9, <2>10, <2>11 DEF Call, Turn
<1> QED
  BY ZenonT(30), <1>1, <1>2

(* A page on the list has no other place, and one that is not has one.     *)
LEMMA IndPages ==
  ASSUME Ind
  PROVE  PagesPartitioned
<1> DEFINE f == Spaces(dir, new)
           Used == {PageAt(l) : l \in Holder} \ {0}
           Places == {l \in Holder : PageAt(l) # 0}
<1>1. Parted(freelist, f)
  BY Zenon DEF Ind
<1>2. \A l \in Holder : /\ <<l[1], l[2]>> \in Space /\ l[3] \in Entry /\ l = <<l[1], l[2], l[3]>>
                        /\ PageAt(l) = f[<<l[1], l[2]>>][l[3]]
  BY DEF Holder, Space, PageAt, Spaces
<1>3. \A s \in Space, e \in Entry : /\ <<s[1], s[2], e>> \in Holder
                                     /\ PageAt(<<s[1], s[2], e>>) = f[s][e]
  BY DEF Holder, Space, PageAt, Spaces
<1>4. f \in Layout
  BY ZenonT(30), SpaceTypes DEF Ind, VmTypeOK
<1> HIDE DEF f
<1>5. \A l \in Holder : \E s \in Space, e \in Entry : PageAt(l) = f[s][e]
  BY ZenonT(30), <1>2
<1>6. Used \in SUBSET Page
  <2>1. \A s \in Space : f[s] \in [Entry -> Page \cup {0}]
    BY Zenon, <1>4 DEF Layout
  <2>2. \A s \in Space, e \in Entry : f[s][e] \in Page \cup {0}
    BY Zenon, <2>1
  <2>3. \A l \in Holder : PageAt(l) \in Page \cup {0}
    BY ZenonT(30), <1>5, <2>2
  <2> QED
    BY Zenon, <2>3
<1>7. ASSUME NEW k \in Places, NEW l \in Places, PageAt(k) = PageAt(l) PROVE k = l
  <2> DEFINE s == <<k[1], k[2]>>
             t == <<l[1], l[2]>>
  <2>1. /\ s \in Space /\ k[3] \in Entry /\ k = <<k[1], k[2], k[3]>> /\ PageAt(k) = f[s][k[3]]
        /\ t \in Space /\ l[3] \in Entry /\ l = <<l[1], l[2], l[3]>> /\ PageAt(l) = f[t][l[3]]
    BY ZenonT(30), <1>2
  <2>2. s[1] = k[1] /\ s[2] = k[2] /\ t[1] = l[1] /\ t[2] = l[2]
    BY SMTT(20)
  <2>3. f[s][k[3]] = f[t][l[3]] /\ f[s][k[3]] # 0
    BY ZenonT(30), <1>7, <2>1
  <2> HIDE DEF s, t
  <2>4. s = t /\ k[3] = l[3]
    BY SMTT(20), <1>1, <2>1, <2>3, SoleHolder
  <2> QED
    BY ZenonT(30), <2>1, <2>2, <2>4
<1>8. ASSUME NEW x \in Page PROVE freelist[x] = IF x \in Used THEN 0 ELSE 1
  <2>1. x # 0
    BY DEF Page
  <2>2. CASE freelist[x] = 1
    <3>1. \A s \in Space, e \in Entry : f[s][e] # x
      BY ZenonT(30), <1>1, <2>2 DEF Parted
    <3>2. x \notin Used
      BY ZenonT(30), <1>5, <3>1
    <3> QED
      BY ZenonT(30), <2>2, <3>2
  <2>3. CASE freelist[x] = 0
    <3>1. PICK s \in Space, e \in Entry : f[s][e] = x
      BY ZenonT(30), <1>1, <2>3 DEF Parted
    <3>2. x \in Used
      BY ZenonT(30), <1>3, <2>1, <3>1
    <3> QED
      BY ZenonT(30), <2>3, <3>2
  <2> QED
    BY ZenonT(30), <1>1, <2>2, <2>3 DEF Parted
<1>9. freelist = [x \in Page |-> IF x \in Used THEN 0 ELSE 1]
  <2>1. freelist \in [Page -> Nat]
    BY ZenonT(30) DEF Ind, VmTypeOK
  <2> HIDE DEF Used
  <2> QED
    BY ZenonT(30), <1>8, <2>1
<1>10. Cardinality(Places) = Cardinality(Used)
  <2> DEFINE g == [l \in Places |-> PageAt(l)]
  <2>1. g \in [Places -> Used]
    BY Zenon
  <2>2. \A k, l \in Places : g[k] = g[l] => k = l
    BY Zenon, <1>7
  <2>3. \A x \in Used : \E l \in Places : g[l] = x
    BY Zenon
  <2> HIDE DEF g, Used, Places
  <2>4. g \in Injection(Places, Used)
    BY ZenonT(30), <2>1, <2>2 DEF Injection, IsInjective
  <2>5. g \in Surjection(Places, Used)
    BY ZenonT(30), <2>1, <2>3 DEF Surjection
  <2> QED
    BY ZenonT(30), <1>6, <2>4, <2>5, AsMany
<1> QED
  BY ZenonT(30), <1>9, <1>10 DEF PagesPartitioned

(* The inductive invariant has the ones that are checked. *)
LEMMA IndCalls ==
  ASSUME Ind
  PROVE  InCalls
<1>1. ASSUME NEW p \in Task
      PROVE  Unused(p) /\ Growing(p) /\ Building(p) /\ Copying(p) /\ Loading(p) /\ StackInside(p)
  <2>1. /\ Owns(alive[p], call[p], dir[p], sz[p], stack[p])
        /\ Builds(call[p], dir[p], new[p], nsz[p], todo[p], sz[p])
    BY Zenon, IndAt
  <2>2. Unused(p)
    BY Zenon, <2>1 DEF Unused, Owns, Builds
  <2>3. Growing(p)
    BY Zenon, <2>1 DEF Growing, Builds, Grows
  <2>4. Building(p)
    BY Zenon, <2>1 DEF Building, Builds
  <2>5. Copying(p)
    BY Zenon, <2>1 DEF Copying, Builds, Copies, Ind, ChildFree
  <2>6. Loading(p)
    BY Zenon, <2>1 DEF Loading, Builds, Loads
  <2>7. StackInside(p)
    BY Zenon, <2>1 DEF StackInside, Owns
  <2> QED
    BY ZenonT(30), <2>2, <2>3, <2>4, <2>5, <2>6, <2>7
<1> QED
  BY Zenon, <1>1 DEF InCalls, Ind

(* A process's part of the invariant says what it may rely on. *)
LEMMA IndSpaces ==
  ASSUME Ind
  PROVE  AddressSpace
<1>1. \A p \in Task : Owns(alive[p], call[p], dir[p], sz[p], stack[p])
  BY ZenonT(30), IndAt
<1> QED
  BY Zenon, <1>1 DEF AddressSpace, SizeMapped, GuardKept, Owns

(* Init and Next give the invariant of every behaviour. *)
LEMMA VmInductive == VmSpec => []Ind
<1>1. VmInit => Ind
  BY ZenonT(30), InitInd
<1>2. Ind /\ [VmNext]_vmVars => Ind'
  BY Zenon, NextInd
<1> QED
  BY <1>1, <1>2, PTL DEF VmSpec

(* For any number of processes and of pages, and any sizes: no physical    *)
(* page is lost, on the list twice, on the list and in use, or in two      *)
(* places, however sbrk, fork, exec and exit take turns at kalloc.c and    *)
(* wherever they run out of memory.                                        *)
THEOREM VmSound == VmSpec => []VmInv
<1>1. Ind => VmInv
  BY ZenonT(30), IndPages, IndCalls DEF VmInv, Ind
<1> QED
  BY <1>1, VmInductive, PTL

(* For all of them: a process has the pages below its size and no others,  *)
(* except those that an sbrk to size 0 freed before growproc called it a   *)
(* failure, and the page beneath the stack that exec gave it stays         *)
(* inaccessible, in it and in what it forks, while it has that page.       *)
THEOREM SpacesSound == VmSpec => []AddressSpace
<1>1. Ind => AddressSpace
  BY Zenon, IndSpaces
<1> QED
  BY <1>1, VmInductive, PTL
=============================================================================
