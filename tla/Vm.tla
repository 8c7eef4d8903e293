--------------------------------- MODULE Vm ---------------------------------
(***************************************************************************)
(* Physical pages and address spaces: kalloc.c, the user part of vm.c,     *)
(* growproc, fork's and exit's use of them, and exec.c.                    *)
(*                                                                         *)
(* Memory is given out one page at a time, and another process may take    *)
(* the next one; so a turn of a loop that calls kalloc is a step.  Freeing *)
(* cannot fail, and a loop that frees is one step with what precedes it.   *)
(* Sizes are in bytes and wrap at VMUINT; a page has PGSIZE bytes.         *)
(***************************************************************************)
EXTENDS Integers, FiniteSets, Sequences

CONSTANTS
  Task, firstTask,    \* processes; the one userinit makes
  NPAGES,             \* physical pages
  PGSIZE, KERNBASE,   \* bytes in a page; where user addresses end
  NPTENTRIES,         \* pages that one page table maps
  VMUINT,             \* where an unsigned int wraps
  Growth,             \* bound: the arguments of sbrk
  Programs,           \* bound: segment ends and argument bytes of what is executed
  VmCalls             \* bound: how many calls are made

ASSUME VmAssumption ==
  /\ PGSIZE \in Nat \ {0, 1} /\ KERNBASE \in Nat /\ KERNBASE > PGSIZE /\ KERNBASE % PGSIZE = 0
  /\ NPTENTRIES \in Nat \ {0} /\ VMUINT \in Nat /\ VMUINT >= 2 * KERNBASE
  /\ NPAGES \in Nat /\ NPAGES >= 4 /\ firstTask \in Task
  /\ Growth \subseteq Int /\ Programs \subseteq [segs : Seq(Nat), args : Nat]

Page  == 1 .. NPAGES          \* 0 is a null pointer
VPage == 0 .. (KERNBASE \div PGSIZE) - 1
PDX(v) == v \div NPTENTRIES

(* What a page directory consists of: its own page, the page table of the  *)
(* kernel part, and the page tables and pages of the user part.            *)
Pgdir  == <<"pgdir", 0>>
Kpt    == <<"kpt", 0>>
Pt(v)  == <<"pt", PDX(v)>>
Pte(v) == <<"pte", v>>
Entry  == {Pgdir, Kpt} \cup {Pt(v) : v \in VPage} \cup {Pte(v) : v \in VPage}

VARIABLES
  freelist,               \* how often each page is on kmem.freelist
  alive, sz, dir,          \* whether a process is in use; p->sz and p->pgdir
  stack,                  \* history: the page of the stack that exec made, or 0
  call, new, nsz,         \* the call a process is in, the directory that it builds and its size
  todo, child, args,      \* sizes to come to, the child, the bytes of arguments
  vmcalls                 \* the calls made so far

callVars == <<call, new, nsz, todo, child, args>>
vmVars == <<freelist, alive, sz, dir, stack, callVars, vmcalls>>

(* A page directory: the physical page of each entry, the pages without    *)
(* PTE_U, and, as history, the pages that an sbrk which failed has freed.  *)
Dir(page, guard, lost) == [page |-> page, guard |-> guard, lost |-> lost]
NoDir == Dir([e \in Entry |-> 0], {}, {})
Present(d) == {v \in VPage : d.page[Pte(v)] # 0}

(* kfree for the entries E of d. *)
kfree(fr, d, E) == [x \in Page |-> fr[x] + Cardinality({e \in E : d.page[e] = x})]

(* The list without the pages X. *)
Without(fr, X) == [x \in Page |-> IF x \in X THEN fr[x] - 1 ELSE fr[x]]
FreePages(fr)  == {x \in Page : fr[x] > 0}

(* kalloc: which page is on top makes no difference. *)
kalloc(fr) == CHOOSE x \in FreePages(fr) : TRUE
Next2(fr)  == CHOOSE x \in FreePages(fr) \ {kalloc(fr)} : TRUE

PGROUNDUP(n) == (n + PGSIZE - 1) \div PGSIZE
Below(n)    == {v \in VPage : v < PGROUNDUP(n)}

(* userinit: setupkvm and inituvm. *)
FirstDir == Dir([e \in Entry |-> CASE e = Pgdir -> 1 [] e = Kpt -> 2 [] e = Pt(0) -> 3 [] e = Pte(0) -> 4 [] OTHER -> 0], {}, {})

VmInit ==
  /\ vmcalls = 0
  /\ freelist = [x \in Page |-> IF x <= 4 THEN 0 ELSE 1]
  /\ alive = [p \in Task |-> p = firstTask]
  /\ sz = [p \in Task |-> IF p = firstTask THEN PGSIZE ELSE 0]
  /\ dir = [p \in Task |-> IF p = firstTask THEN FirstDir ELSE NoDir]
  /\ stack = [p \in Task |-> 0]
  /\ call = [p \in Task |-> ""] /\ new = [p \in Task |-> NoDir] /\ nsz = [p \in Task |-> 0]
  /\ todo = [p \in Task |-> <<>>] /\ child = [p \in Task |-> firstTask] /\ args = [p \in Task |-> 0]

-----------------------------------------------------------------------------
(* setupkvm takes a directory and a page table, or what it had is freed. *)
CanSetup(fr) == Cardinality(FreePages(fr)) >= 2
setupkvm(fr) == Dir([e \in Entry |-> CASE e = Pgdir -> kalloc(fr) [] e = Kpt -> Next2(fr) [] OTHER -> 0], {}, {})
Setup(fr)    == Without(fr, {kalloc(fr), Next2(fr)})

(* Mutant: deallocuvm does not clear the entries of the pages it frees. *)
Left_stale(d, V) == d

(* What deallocuvm leaves when it frees the pages V. *)
Left(d, V) ==
  Dir([e \in Entry |-> IF \E v \in V : e = Pte(v) THEN 0 ELSE d.page[e]], d.guard \ V, d.lost \ V)

Ptes(V) == {Pte(v) : v \in V}

(* Mutant: a page that could not be mapped is not given back. *)
Unmapped_lost(fr) == Without(fr, {kalloc(fr)})

(* kfree(mem) when mappages has failed. *)
Unmapped(fr) == fr

(* One page more at v: memory, and a page table if there is none.          *)
(* Enough says that both can be had.                                       *)
NeedsTable(d, v) == d.page[Pt(v)] = 0
Enough(fr, d, v) == Cardinality(FreePages(fr)) >= IF NeedsTable(d, v) THEN 2 ELSE 1
AllocPage(fr, d, v) ==
  Dir([e \in Entry |-> CASE e = Pte(v) -> kalloc(fr)
                         [] e = Pt(v) /\ NeedsTable(d, v) -> Next2(fr)
                         [] OTHER -> d.page[e]], d.guard, d.lost)
Taken(fr, d, v) == Without(fr, IF NeedsTable(d, v) THEN {kalloc(fr), Next2(fr)} ELSE {kalloc(fr)})
Short(fr) == IF FreePages(fr) = {} THEN fr ELSE Unmapped(fr)

AtUser(p) == alive[p] /\ call[p] = ""

(* The call of p is over, and its locals are gone. *)
Done(p) ==
  /\ call' = [call EXCEPT ![p] = ""] /\ new' = [new EXCEPT ![p] = NoDir] /\ nsz' = [nsz EXCEPT ![p] = 0]
  /\ todo' = [todo EXCEPT ![p] = <<>>] /\ child' = [child EXCEPT ![p] = firstTask]
  /\ args' = [args EXCEPT ![p] = 0]

-----------------------------------------------------------------------------
(* Mutant: a process may grow into the kernel's addresses. *)
TooLarge_not(n) == FALSE

(* allocuvm's first test. *)
TooLarge(n) == n >= KERNBASE

(* sys_sbrk and growproc, up to the loop of allocuvm. *)
sbrk_grow(p, n) ==
  /\ AtUser(p) /\ n >= 0
  /\ LET newsz == (sz[p] + n) % VMUINT
     IN /\ ~TooLarge(newsz) /\ newsz >= sz[p]
        /\ todo' = [todo EXCEPT ![p] = <<newsz>>]
  /\ call' = [call EXCEPT ![p] = "sbrk"] /\ nsz' = [nsz EXCEPT ![p] = sz[p]]
  /\ UNCHANGED <<freelist, alive, sz, dir, stack, new, child, args>>

(* What is left when deallocuvm came down to size 0, which growproc takes  *)
(* for a failure: nothing, but the process keeps its size z.  It may go on *)
(* to call: switchuvm is skipped, and the TLB may still have its pages.    *)
Emptied(d, z) == Dir(Left(d, Below(z)).page, Left(d, Below(z)).guard, Below(z))

(* The same with deallocuvm. *)
sbrk_shrink(p, n) ==
  /\ AtUser(p) /\ n < 0
  /\ LET newsz == (sz[p] + n) % VMUINT
         V == Below(sz[p]) \ Below(newsz)
     IN /\ newsz < sz[p]
        /\ \/ /\ newsz # 0
              /\ sz' = [sz EXCEPT ![p] = newsz]
              /\ dir' = [dir EXCEPT ![p] = Left(dir[p], V)]
           \/ /\ newsz = 0
              /\ dir' = [dir EXCEPT ![p] = Emptied(dir[p], sz[p])]
              /\ UNCHANGED sz
        /\ stack' = [stack EXCEPT ![p] = IF stack[p] - 1 \in Below(newsz) THEN stack[p] ELSE 0]
        /\ freelist' = kfree(freelist, dir[p], Ptes(V))
  /\ UNCHANGED <<alive, callVars>>

(* One turn of allocuvm for growproc; out of memory it takes back what it  *)
(* has added.                                                              *)
sbrk_page(p) ==
  /\ call[p] = "sbrk"
  /\ LET newsz == Head(todo[p])
         v == PGROUNDUP(nsz[p])
         V == Below(newsz) \ Below(sz[p])
     IN \/ /\ v >= PGROUNDUP(newsz)
           /\ sz' = [sz EXCEPT ![p] = newsz]
           /\ Done(p)
           /\ UNCHANGED <<freelist, dir>>
        \/ /\ v < PGROUNDUP(newsz) /\ Enough(freelist, dir[p], v)
           /\ dir' = [dir EXCEPT ![p] = AllocPage(freelist, dir[p], v)]
           /\ nsz' = [nsz EXCEPT ![p] = (v + 1) * PGSIZE]
           /\ freelist' = Taken(freelist, dir[p], v)
           /\ UNCHANGED <<sz, call, new, todo, child, args>>
        \/ /\ v < PGROUNDUP(newsz) /\ ~Enough(freelist, dir[p], v)
           /\ dir' = [dir EXCEPT ![p] = Left(dir[p], V)]
           /\ freelist' = kfree(Short(freelist), dir[p], Ptes(V))
           /\ Done(p)
           /\ UNCHANGED sz
  /\ UNCHANGED <<alive, stack>>

-----------------------------------------------------------------------------
(* fork up to copyuvm's setupkvm. *)
copyuvm(p, q) ==
  /\ AtUser(p) /\ ~alive[q] /\ CanSetup(freelist)
  /\ \A r \in Task : call[r] = "fork" => child[r] # q
  /\ call' = [call EXCEPT ![p] = "fork"] /\ child' = [child EXCEPT ![p] = q]
  /\ new' = [new EXCEPT ![p] = setupkvm(freelist)]
  /\ freelist' = Setup(freelist)
  /\ UNCHANGED <<alive, sz, dir, stack, nsz, todo, args>>

(* freevm *)
FreeDir(fr, d) == kfree(fr, d, Entry)

(* The page at v is copied with its flags. *)
Copied(fr, d, v, guard) == Dir(AllocPage(fr, d, v).page, d.guard \cup ({v} \cap guard), d.lost)

(* One page of copyuvm; or bad:; or the child is there.  At a page that    *)
(* its parent does not have copyuvm panics, and p does nothing more.       *)
copyuvm_page(p) ==
  /\ call[p] = "fork"
  /\ LET v == nsz[p] \div PGSIZE
     IN \/ /\ nsz[p] >= sz[p]
           /\ alive' = [alive EXCEPT ![child[p]] = TRUE] /\ sz' = [sz EXCEPT ![child[p]] = sz[p]]
           /\ dir' = [dir EXCEPT ![child[p]] = new[p]] /\ stack' = [stack EXCEPT ![child[p]] = stack[p]]
           /\ Done(p)
           /\ UNCHANGED freelist
        \/ /\ nsz[p] < sz[p] /\ v \in Present(dir[p]) /\ Enough(freelist, new[p], v)
           /\ nsz' = [nsz EXCEPT ![p] = nsz[p] + PGSIZE]
           /\ new' = [new EXCEPT ![p] = Copied(freelist, new[p], v, dir[p].guard)]
           /\ freelist' = Taken(freelist, new[p], v)
           /\ UNCHANGED <<alive, sz, dir, stack, call, todo, child, args>>
        \/ /\ nsz[p] < sz[p] /\ v \in Present(dir[p]) /\ ~Enough(freelist, new[p], v)
           /\ freelist' = FreeDir(Short(freelist), new[p])
           /\ Done(p)
           /\ UNCHANGED <<alive, sz, dir, stack>>

(* exit and wait: the parent frees the directory. *)
exit(p) ==
  /\ AtUser(p) /\ p # firstTask
  /\ freelist' = FreeDir(freelist, dir[p])
  /\ alive' = [alive EXCEPT ![p] = FALSE] /\ sz' = [sz EXCEPT ![p] = 0]
  /\ dir' = [dir EXCEPT ![p] = NoDir] /\ stack' = [stack EXCEPT ![p] = 0]
  /\ UNCHANGED callVars

-----------------------------------------------------------------------------
(* exec has read a program header.  A file that is none, or no room for    *)
(* setupkvm, changes nothing.                                              *)
exec(p, prog) ==
  /\ AtUser(p) /\ CanSetup(freelist)
  /\ call' = [call EXCEPT ![p] = "exec"] /\ new' = [new EXCEPT ![p] = setupkvm(freelist)]
  /\ todo' = [todo EXCEPT ![p] = prog.segs] /\ args' = [args EXCEPT ![p] = prog.args]
  /\ freelist' = Setup(freelist)
  /\ UNCHANGED <<alive, sz, dir, stack, nsz, child>>

(* bad: the new directory goes, the old one stays. *)
ExecBad(p, fr) == Done(p) /\ freelist' = FreeDir(fr, new[p]) /\ UNCHANGED <<sz, dir, stack>>

(* One turn of allocuvm for exec, or the end of a segment; loaduvm may     *)
(* find the file too short, and a size of 0 is taken for a failure.        *)
exec_page(p) ==
  /\ call[p] \in {"exec", "stack"} /\ todo[p] # <<>>
  /\ LET newsz == Head(todo[p])
         v == PGROUNDUP(nsz[p])
         loaded == v >= PGROUNDUP(newsz)
     IN \/ /\ ~TooLarge(newsz) /\ loaded /\ newsz + nsz[p] > 0
           /\ nsz' = [nsz EXCEPT ![p] = IF newsz > nsz[p] THEN newsz ELSE nsz[p]]
           /\ todo' = [todo EXCEPT ![p] = Tail(todo[p])]
           /\ UNCHANGED <<freelist, sz, dir, stack, call, new, child, args>>
        \/ (TooLarge(newsz) \/ (loaded /\ call[p] = "exec")) /\ ExecBad(p, freelist)
        \/ /\ ~TooLarge(newsz) /\ ~loaded /\ Enough(freelist, new[p], v)
           /\ new' = [new EXCEPT ![p] = AllocPage(freelist, new[p], v)]
           /\ nsz' = [nsz EXCEPT ![p] = (v + 1) * PGSIZE]
           /\ freelist' = Taken(freelist, new[p], v)
           /\ UNCHANGED <<sz, dir, stack, call, todo, child, args>>
        \/ ~TooLarge(newsz) /\ ~loaded /\ ~Enough(freelist, new[p], v) /\ ExecBad(p, Short(freelist))
  /\ UNCHANGED alive

(* The segments are loaded: two pages more, for guard and stack. *)
exec_loaded(p) ==
  /\ call[p] = "exec" /\ todo[p] = <<>>
  /\ LET size == PGROUNDUP(nsz[p]) * PGSIZE
     IN nsz' = [nsz EXCEPT ![p] = size] /\ todo' = [todo EXCEPT ![p] = <<size + 2 * PGSIZE>>]
  /\ call' = [call EXCEPT ![p] = "stack"]
  /\ UNCHANGED <<freelist, alive, sz, dir, stack, new, child, args>>

(* Mutant: the page beneath the stack stays accessible. *)
clearpteu_not(d, v) == d

clearpteu(d, v) == Dir(d.page, d.guard \cup {v}, d.lost)

(* copyout of the n bytes below size: uva2ka finds each of their pages, and*)
(* with PTE_U.                                                             *)
ArgsFit(d, size, n) == \A k \in 1 .. n : (size - k) \div PGSIZE \in Present(d) \ d.guard

(* The two pages are there: the arguments are pushed, and the new image    *)
(* takes the old one's place.                                              *)
exec_commit(p) ==
  /\ call[p] = "stack" /\ todo[p] = <<>>
  /\ LET top == nsz[p] \div PGSIZE - 1
         d   == clearpteu(new[p], top - 1)
     IN \/ /\ ArgsFit(d, nsz[p], args[p])
           /\ sz' = [sz EXCEPT ![p] = nsz[p]]
           /\ dir' = [dir EXCEPT ![p] = d] /\ stack' = [stack EXCEPT ![p] = top]
           /\ freelist' = FreeDir(freelist, dir[p])
           /\ Done(p)
        \/ ~ArgsFit(d, nsz[p], args[p]) /\ ExecBad(p, freelist)
  /\ UNCHANGED alive

Call(p) ==
  /\ vmcalls < VmCalls /\ vmcalls' = vmcalls + 1
  /\ \/ \E n \in Growth : sbrk_grow(p, n) \/ sbrk_shrink(p, n)
     \/ \E q \in Task : copyuvm(p, q)
     \/ \E prog \in Programs : exec(p, prog)
     \/ exit(p)

Turn(p) ==
  /\ UNCHANGED vmcalls
  /\ sbrk_page(p) \/ copyuvm_page(p) \/ exec_page(p) \/ exec_loaded(p) \/ exec_commit(p)

VmNext == \E p \in Task : Call(p) \/ Turn(p)

VmSpec == VmInit /\ [][VmNext]_vmVars

-----------------------------------------------------------------------------
DirType == [page : [Entry -> Page \cup {0}], guard : SUBSET VPage, lost : SUBSET VPage]

(* The shape of sizes, directories and calls. *)
VmTypeOK ==
  /\ freelist \in [Page -> Nat] /\ alive \in [Task -> BOOLEAN]
  /\ sz \in [Task -> 0 .. KERNBASE - 1] /\ nsz \in [Task -> 0 .. KERNBASE]
  /\ dir \in [Task -> DirType] /\ new \in [Task -> DirType]
  /\ call \in [Task -> {"", "sbrk", "fork", "exec", "stack"}]
  /\ stack \in [Task -> Nat] /\ todo \in [Task -> Seq(Nat)] /\ child \in [Task -> Task] /\ args \in [Task -> Nat]

(* The places of pages in address spaces, and the page in each. *)
Holder == Task \X {"dir", "new"} \X Entry
PageAt(l) == IF l[2] = "dir" THEN dir[l[1]].page[l[3]] ELSE new[l[1]].page[l[3]]

(* Every physical page is in exactly one place: on the free list, or in    *)
(* one role in one address space.  None is lost, freed twice or shared,    *)
(* wherever memory runs out in sbrk, fork and exec.                        *)
PagesPartitioned ==
  LET Used == {PageAt(l) : l \in Holder} \ {0}
  IN /\ freelist = [x \in Page |-> IF x \in Used THEN 0 ELSE 1]
     /\ Cardinality({l \in Holder : PageAt(l) # 0}) = Cardinality(Used)

(* The pages of a process are those below its size, no more, and no fewer  *)
(* but for the ones that an sbrk to size 0 has freed before it failed:     *)
(* after any other call that failed, and also while exec and fork build    *)
(* another address space.                                                  *)
SizeMapped ==
  \A p \in Task :
    /\ dir[p].lost \subseteq Below(sz[p])
    /\ alive[p] /\ call[p] # "sbrk" => Present(dir[p]) = Below(sz[p]) \ dir[p].lost

(* The page beneath the stack that exec made is inaccessible, in the       *)
(* process and in all that it forks, until sbrk gives it up; and no other  *)
(* page is.                                                                *)
GuardKept == \A p \in Task : alive[p] => dir[p].guard = IF stack[p] = 0 THEN {} ELSE {stack[p] - 1}

-----------------------------------------------------------------------------
(* What the calls in progress have built, in named parts. *)

Aligned(n) == n = PGROUNDUP(n) * PGSIZE

(* A slot that is not in use has no directory, and only calls have a       *)
(* second one.                                                             *)
Unused(p) ==
  /\ ~alive[p] => call[p] = "" /\ dir[p] = NoDir
  /\ call[p] = "" => nsz[p] = 0
  /\ call[p] \in {"", "sbrk"} => new[p] = NoDir

(* allocuvm has come to nsz, on its way from sz to the size it was given. *)
Growing(p) ==
  call[p] = "sbrk" =>
    /\ todo[p] # <<>> /\ Head(todo[p]) < KERNBASE
    /\ Present(dir[p]) = Below(nsz[p]) \ dir[p].lost
    /\ PGROUNDUP(sz[p]) <= PGROUNDUP(nsz[p]) /\ PGROUNDUP(nsz[p]) <= PGROUNDUP(Head(todo[p]))

(* The second directory has the pages below nsz. *)
Building(p) == call[p] \in {"fork", "exec", "stack"} => Present(new[p]) = Below(nsz[p]) /\ new[p].lost = {}

(* copyuvm's copy is like its original so far, for a child that is not     *)
(* there yet.                                                              *)
Copying(p) ==
  call[p] = "fork" =>
    /\ Aligned(nsz[p]) /\ PGROUNDUP(nsz[p]) <= PGROUNDUP(sz[p])
    /\ new[p].guard = dir[p].guard \cap Below(nsz[p])
    /\ ~alive[child[p]]

(* exec's image ends on a page boundary once it has room for a guard page  *)
(* and a stack.                                                            *)
Loading(p) ==
  /\ call[p] \in {"exec", "stack"} => new[p].guard = {}
  /\ call[p] = "stack" =>
       /\ Aligned(nsz[p])
       /\ todo[p] = <<>> => 2 * PGSIZE <= nsz[p] /\ nsz[p] < KERNBASE
       /\ todo[p] # <<>> => /\ Tail(todo[p]) = <<>> /\ nsz[p] <= Head(todo[p])
                            /\ 2 * PGSIZE <= Head(todo[p]) /\ Aligned(Head(todo[p]))

(* The page beneath the stack is one of the process's own. *)
StackInside(p) == stack[p] # 0 => stack[p] - 1 \in Below(sz[p])

OneChild == \A p, q \in Task : call[p] = "fork" /\ call[q] = "fork" /\ child[p] = child[q] => p = q

InCalls ==
  /\ \A p \in Task : Unused(p) /\ Growing(p) /\ Building(p) /\ Copying(p) /\ Loading(p) /\ StackInside(p)
  /\ OneChild

(* What kalloc.c and vm.c keep of pages: the types above, a place for each *)
(* page, and directories that are as far as their calls.                   *)
VmInv == VmTypeOK /\ PagesPartitioned /\ InCalls

(* What a process may rely on: the memory below its size, unless it asked  *)
(* sbrk for size 0, and the page beneath its stack that faults.            *)
AddressSpace == SizeMapped /\ GuardKept
=============================================================================
