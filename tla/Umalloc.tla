------------------------------ MODULE Umalloc ------------------------------
(***************************************************************************)
(* umalloc.c: malloc and free over a circular list of free blocks that is  *)
(* kept in order of address, and morecore, which gets memory with sbrk.    *)
(* Addresses and sizes are in units of Header.  The header of a block is   *)
(* its first unit; its two fields are the functions ptr and size.          *)
(***************************************************************************)
EXTENDS Integers, FiniteSets, FiniteSetsExt

CONSTANTS
  HEAP,      \* the units from the end of the program up to where sbrk fails
  NALLOC,    \* the least number of units that morecore asks for
  HDR,       \* sizeof(Header)
  UWRAP,     \* the values of a uint
  Requests,  \* bound: how many bytes malloc is asked for
  Gaps       \* bound: what the program itself asks of sbrk

base == 0    \* the static header: below the heap, size 0
NULL == -1
Addr == 0 .. HEAP

(* Mutant: no unit for the header. *)
nunits_bare(nbytes) == ((nbytes + HDR - 1) % UWRAP) \div HDR

(* The units for nbytes and a header, in the arithmetic of uint. *)
nunits(nbytes) == ((nbytes + HDR - 1) % UWRAP) \div HDR + 1

(* What morecore multiplies by sizeof(Header) is still positive as the int *)
(* that sbrk takes: malloc is asked for less than half the address space,  *)
(* or for so much that the units have wrapped.                             *)
ASSUME UmallocAssumption ==
  /\ HEAP \in Nat /\ NALLOC \in Nat \ {0} /\ HDR \in Nat \ {0} /\ UWRAP \in Nat
  /\ \A n \in Requests \cup {HDR * NALLOC - HDR} : n \in 0 .. UWRAP - 1 /\ 2 * HDR * nunits(n) < UWRAP

VARIABLES
  ptr, size, \* the fields of the header at each address
  freep,     \* where the last search ended, or NULL
  brk,       \* the end of the heap
  live,      \* the blocks that malloc returned and the program has not freed
  core       \* the units that morecore got

heapVars == <<ptr, size, freep, brk, live, core>>

HeapInit ==
  /\ ptr = [a \in Addr |-> base] /\ size = [a \in Addr |-> 0]
  /\ freep = NULL /\ brk = 1 /\ live = {} /\ core = {}

Heap == [ptr |-> ptr, size |-> size, freep |-> freep, brk |-> brk, core |-> core]

-----------------------------------------------------------------------------
(* bp goes right after p. *)
Between(h, p, bp) ==
  \/ bp > p /\ bp < h.ptr[p]
  \/ p >= h.ptr[p] /\ (bp > p \/ bp < h.ptr[p])

RECURSIVE Place(_, _, _)
Place(h, p, bp) == IF Between(h, p, bp) THEN p ELSE Place(h, h.ptr[p], bp)

(* Mutant: a block is not joined to the one above it. *)
JoinUpper_not(h, p, bp) == [h EXCEPT !.ptr[bp] = h.ptr[p]]

JoinUpper(h, p, bp) ==
  LET n == h.ptr[p]
  IN IF bp + h.size[bp] = n THEN [h EXCEPT !.size[bp] = @ + h.size[n], !.ptr[bp] = h.ptr[n]]
                            ELSE [h EXCEPT !.ptr[bp] = n]

(* Mutant: the joined block keeps its old successor. *)
JoinLower_old(h, p, bp) ==
  IF p + h.size[p] = bp THEN [h EXCEPT !.size[p] = @ + h.size[bp]]
                        ELSE [h EXCEPT !.ptr[p] = bp]

JoinLower(h, p, bp) ==
  IF p + h.size[p] = bp THEN [h EXCEPT !.size[p] = @ + h.size[bp], !.ptr[p] = h.ptr[bp]]
                        ELSE [h EXCEPT !.ptr[p] = bp]

Free(h, bp) ==
  LET p == Place(h, h.freep, bp)
  IN [JoinLower(JoinUpper(h, p, bp), p, bp) EXCEPT !.freep = p]

More(n)   == IF n < NALLOC THEN NALLOC ELSE n
HasCore(h, n) == h.brk + More(n) <= HEAP
morecore(h, n) ==
  Free([h EXCEPT !.brk = @ + More(n), !.size[h.brk] = More(n), !.core = @ \cup (h.brk .. h.brk + More(n) - 1)], h.brk)

(* The whole block at p, or its tail. *)
Take(h, prevp, p, n) ==
  IF h.size[p] = n
    THEN [heap |-> [h EXCEPT !.ptr[prevp] = h.ptr[p], !.freep = prevp], got |-> p]
    ELSE [heap |-> [h EXCEPT !.size[p] = @ - n, !.size[p + h.size[p] - n] = n, !.freep = prevp],
          got  |-> p + h.size[p] - n]

(* Mutant: the search gives up before it has come round. *)
CameRound_early(h, p) == h.ptr[p] = h.freep

CameRound(h, p) == p = h.freep

(* The search of malloc.  A second morecore is never needed. *)
RECURSIVE Search(_, _, _, _)
Search(h, prevp, p, n) ==
  CASE h.size[p] >= n -> Take(h, prevp, p, n)
    [] h.size[p] < n /\ ~CameRound(h, p) -> Search(h, p, h.ptr[p], n)
    [] OTHER -> IF ~HasCore(h, n) THEN [heap |-> h, got |-> NULL]
                ELSE LET m == morecore(h, n) IN Search(m, m.freep, m.ptr[m.freep], n)

(* The first call makes the list of base alone. *)
Started(h) == IF h.freep = NULL THEN [h EXCEPT !.freep = base, !.ptr[base] = base, !.size[base] = 0] ELSE h

(* The blocks on the list, base included. *)
RECURSIVE Reach(_, _, _)
Reach(pt, a, S) == IF a \in S THEN S ELSE Reach(pt, pt[a], S \cup {a})

(* Fields that no header is made of any more are not read again, and are 0. *)
Becomes(h, used) ==
  LET list == Reach(h.ptr, h.freep, {})
  IN /\ ptr'  = [a \in Addr |-> IF a \in list THEN h.ptr[a] ELSE base]
     /\ size' = [a \in Addr |-> IF a \in list \cup used THEN h.size[a] ELSE 0]
     /\ freep' = h.freep /\ brk' = h.brk /\ core' = h.core /\ live' = used

malloc(nbytes) ==
  LET h == Started(Heap)
      r == Search(h, h.freep, h.ptr[h.freep], nunits(nbytes))
  IN Becomes(r.heap, live \cup ({r.got} \ {NULL}))

free(bp) == Becomes(Free(Heap, bp), live \ {bp})

(* The program calls sbrk itself: the heap has a hole. *)
sbrk_by_program(n) == brk + n <= HEAP /\ brk' = brk + n /\ UNCHANGED <<ptr, size, freep, live, core>>

HeapNext ==
  \/ \E n \in Requests : malloc(n)
  \/ \E bp \in live : free(bp)
  \/ \E n \in Gaps : sbrk_by_program(n)

HeapSpec == HeapInit /\ [][HeapNext]_heapVars

-----------------------------------------------------------------------------
Units(a) == a .. a + size[a] - 1

FreeList   == IF freep = NULL THEN {} ELSE Reach(ptr, freep, {})
FreeBlocks == FreeList \ {base}

(* Every unit that morecore ever got is in exactly one block, free or      *)
(* live: splitting and joining lose nothing and hand nothing out twice.    *)
HeapTiled ==
  LET blocks == FreeBlocks \cup live
  IN /\ FreeBlocks \cap live = {}
     /\ UNION {Units(a) : a \in blocks} = core
     /\ \A a, b \in blocks : a # b => Units(a) \cap Units(b) = {}

(* The list is what the loop in free relies on: circular through base, in  *)
(* order of address, and no two free blocks touch (joined on both sides).  *)
ListOrdered ==
  freep # NULL =>
    /\ base \in FreeList
    /\ \A a \in FreeList :
         /\ ptr[a] = base \/ ptr[a] > a
         /\ Cardinality({b \in FreeList : ptr[b] = a}) = 1
         /\ a # base => a + size[a] # ptr[a]

(* The block that malloc returns has room for the bytes this call asked    *)
(* for and less than a unit to spare, and memory came from sbrk for it     *)
(* only if no free block was large enough.  The exception is a request     *)
(* within a header of 2^32 bytes, whose rounding up wraps: it gets a block *)
(* of a header alone.                                                      *)
MallocFits ==
  [][\A a \in live' \ live :
       /\ \A n \in Requests : malloc(n) =>
            LET room == (size'[a] - 1) * HDR
            IN IF n + HDR - 1 < UWRAP THEN n \in room - HDR + 1 .. room ELSE room = 0
       /\ core' # core => \A b \in FreeBlocks : size[b] < size'[a]]_heapVars

(* The free list of umalloc.c is sound, and it and the program share what  *)
(* sbrk gave.                                                              *)
HeapInv == HeapTiled /\ ListOrdered
=============================================================================
