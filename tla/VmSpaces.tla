------------------------------ MODULE VmSpaces ------------------------------
(***************************************************************************)
(* Physical pages and address spaces, for any number of processes and      *)
(* pages: the inductive invariant of Vm, and what its proof rests on.      *)
(*                                                                         *)
(* PagesPartitioned becomes Parted, a relation of the list and the spaces: *)
(* a page is on the list at most once, then it is in no entry of any       *)
(* space, and otherwise it is in one; and no two entries of any spaces     *)
(* have the same page.  The changes that steps make to it are four (a page *)
(* is taken, two are, some are given back, a directory is handed over),    *)
(* and each is a lemma about lists and spaces without state.  What         *)
(* concerns one process is a relation of its values, Owns and Builds; so   *)
(* the others keep theirs.  growproc's steps are here too; those of the    *)
(* other calls, and the theorems, are in VmProof.                          *)
(***************************************************************************)
EXTENDS Vm, FiniteSetTheorems, TLAPS

-----------------------------------------------------------------------------

(* Division with remainder. *)
LEMMA Divide ==
  ASSUME NEW U \in Nat \ {0}, NEW x \in Int
  PROVE  /\ x = U * (x \div U) + (x % U) /\ x \div U \in Int /\ x % U \in Int
         /\ 0 <= x % U /\ x % U < U
BY SMTT(10)

(* A product is monotonic. *)
LEMMA Product ==
  ASSUME NEW U \in Nat \ {0}, NEW j \in Int, NEW k \in Int, j < k
  PROVE  j * U <= k * U - U /\ j * U \in Int /\ k * U \in Int
BY SMTT(10)

(* PGROUNDUP as it is meant: the fewest pages that have n bytes. *)
LEMMA Rounding ==
  ASSUME NEW n \in Nat
  PROVE  PGROUNDUP(n) \in Nat /\ n <= PGROUNDUP(n) * PGSIZE /\ PGROUNDUP(n) * PGSIZE < n + PGSIZE
<1> DEFINE x == n + PGSIZE - 1
           q == x \div PGSIZE
           r == x % PGSIZE
<1>1. x \in Int /\ PGSIZE \in Nat \ {0} /\ x >= 0
  BY VmAssumption
<1>2. x = PGSIZE * q + r /\ q \in Int /\ r \in Int /\ 0 <= r /\ r < PGSIZE
  BY Zenon, <1>1, Divide
<1>3. PGROUNDUP(n) = q
  BY Zenon DEF PGROUNDUP
<1> HIDE DEF q, r
<1>4. n <= q * PGSIZE /\ q * PGSIZE < n + PGSIZE
  BY <1>1, <1>2, SMTT(10)
<1>5. ~(q < 0)
  <2> SUFFICES ASSUME q < 0 PROVE FALSE
    OBVIOUS
  <2>1. 0 \in Int
    OBVIOUS
  <2>2. q * PGSIZE <= 0 * PGSIZE - PGSIZE /\ q * PGSIZE \in Int
    BY Zenon, <1>1, <1>2, <2>1, Product
  <2> QED
    BY <1>1, <1>4, <2>2
<1> QED
  BY <1>2, <1>3, <1>4, <1>5

(* There is only one such number. *)
LEMMA Rounded ==
  ASSUME NEW n \in Nat, NEW k \in Nat, n <= k * PGSIZE, k * PGSIZE < n + PGSIZE
  PROVE  PGROUNDUP(n) = k
<1> DEFINE q == PGROUNDUP(n)
<1>1. q \in Int /\ k \in Int /\ PGSIZE \in Nat \ {0} /\ n <= q * PGSIZE /\ q * PGSIZE < n + PGSIZE
  BY Rounding, VmAssumption
<1> HIDE DEF q
<1>2. ~(q < k)
  <2> SUFFICES ASSUME q < k PROVE FALSE
    OBVIOUS
  <2>1. q * PGSIZE <= k * PGSIZE - PGSIZE /\ q * PGSIZE \in Int /\ k * PGSIZE \in Int
    BY <1>1, Product, Zenon
  <2> QED
    BY <1>1, <2>1
<1>3. ~(k < q)
  <2> SUFFICES ASSUME k < q PROVE FALSE
    OBVIOUS
  <2>1. k * PGSIZE <= q * PGSIZE - PGSIZE /\ q * PGSIZE \in Int /\ k * PGSIZE \in Int
    BY <1>1, Product, Zenon
  <2> QED
    BY <1>1, <2>1
<1> QED
  BY <1>1, <1>2, <1>3 DEF q

(* Whole pages stay as they are. *)
LEMMA WholePages ==
  ASSUME NEW k \in Nat
  PROVE  k * PGSIZE \in Nat /\ PGROUNDUP(k * PGSIZE) = k
<1>1. k * PGSIZE \in Nat /\ k * PGSIZE < k * PGSIZE + PGSIZE
  BY VmAssumption, SMTT(10)
<1> QED
  BY <1>1, Rounded

(* More bytes are not fewer pages. *)
LEMMA Monotone ==
  ASSUME NEW m \in Nat, NEW n \in Nat, m <= n
  PROVE  PGROUNDUP(m) <= PGROUNDUP(n)
<1> DEFINE j == PGROUNDUP(m)
           k == PGROUNDUP(n)
<1>1. j \in Int /\ k \in Int /\ PGSIZE \in Nat \ {0} /\ j * PGSIZE < m + PGSIZE /\ n <= k * PGSIZE
  BY Rounding, VmAssumption
<1> HIDE DEF j, k
<1>2. ~(k < j)
  <2> SUFFICES ASSUME k < j PROVE FALSE
    OBVIOUS
  <2>1. k * PGSIZE <= j * PGSIZE - PGSIZE /\ j * PGSIZE \in Int /\ k * PGSIZE \in Int
    BY <1>1, Product, Zenon
  <2> QED
    BY <1>1, <2>1
<1> QED
  BY <1>1, <1>2 DEF j, k

(* User addresses end at a page boundary. *)
LEMMA KernBase ==
  ASSUME NEW n \in Nat, n <= KERNBASE
  PROVE  PGROUNDUP(n) * PGSIZE <= KERNBASE /\ (\A v \in Nat : v < PGROUNDUP(n) => v \in VPage)
<1> DEFINE top == KERNBASE \div PGSIZE
           k == PGROUNDUP(n)
<1>1. KERNBASE = PGSIZE * top /\ top \in Int /\ PGSIZE \in Nat \ {0}
  <2>1. KERNBASE \in Int /\ PGSIZE \in Nat \ {0} /\ KERNBASE % PGSIZE = 0
    BY VmAssumption
  <2>2. KERNBASE = PGSIZE * top + (KERNBASE % PGSIZE) /\ top \in Int
    BY Zenon, <2>1, Divide
  <2> HIDE DEF top
  <2> QED
    BY <2>1, <2>2, SMTT(10)
<1>2. k \in Nat /\ k \in Int /\ k * PGSIZE < n + PGSIZE
  BY Rounding
<1>3. VPage = 0 .. top - 1
  BY Zenon DEF VPage
<1> HIDE DEF top, k
<1>4. ~(top < k)
  <2> SUFFICES ASSUME top < k PROVE FALSE
    OBVIOUS
  <2>1. top * PGSIZE <= k * PGSIZE - PGSIZE /\ top * PGSIZE \in Int /\ k * PGSIZE \in Int
    BY <1>1, <1>2, Product, Zenon
  <2> QED
    BY <1>1, <1>2, <2>1
<1>5. k * PGSIZE <= KERNBASE
  <2>1. k <= top
    BY <1>1, <1>2, <1>4
  <2>2. k < top => k * PGSIZE <= top * PGSIZE - PGSIZE
    BY <1>1, <1>2, Product, Zenon
  <2> QED
    BY <1>1, <1>2, <2>1, <2>2
<1>6. \A v \in Nat : v < k => v \in VPage
  BY <1>1, <1>2, <1>3, <1>4
<1> QED
  BY Zenon, <1>5, <1>6 DEF k

(* The pages below a size, as the number of pages grows. *)
LEMMA BelowGrows ==
  ASSUME NEW m \in Nat, NEW n \in Nat, PGROUNDUP(m) <= PGROUNDUP(n)
  PROVE  Below(m) \subseteq Below(n)
<1>1. PGROUNDUP(m) \in Nat /\ PGROUNDUP(n) \in Nat
  BY Rounding
<1>2. ASSUME NEW v \in VPage, v < PGROUNDUP(m) PROVE v < PGROUNDUP(n)
  <2>1. v \in Int
    BY VmAssumption DEF VPage
  <2> QED
    BY <1>1, <1>2, <2>1
<1> QED
  BY Zenon, <1>2 DEF Below

(* One page more. *)
LEMMA NextPage ==
  ASSUME NEW m \in Nat, NEW n \in Nat, PGROUNDUP(m) < PGROUNDUP(n), n <= KERNBASE
  PROVE  LET v == PGROUNDUP(m)
             e == (v + 1) * PGSIZE
         IN /\ v \in VPage /\ v \notin Below(m)
            /\ e \in 0 .. KERNBASE /\ Aligned(e) /\ PGROUNDUP(e) = v + 1 /\ PGROUNDUP(e) <= PGROUNDUP(n)
            /\ Below(e) = Below(m) \cup {v}
<1> DEFINE v == PGROUNDUP(m)
           e == (v + 1) * PGSIZE
<1>1. v \in Nat /\ v + 1 \in Nat /\ PGROUNDUP(n) \in Nat
  BY Rounding
<1>2. v \in VPage /\ PGROUNDUP(n) * PGSIZE <= KERNBASE
  BY <1>1, KernBase, Zenon
<1>3. e \in Nat /\ PGROUNDUP(e) = v + 1
  BY Zenon, <1>1, WholePages
<1>4. v < v + 1 /\ ~(v < v) /\ v + 1 <= PGROUNDUP(n)
  BY <1>1
<1>5. e <= KERNBASE
  <2>1. v + 1 < PGROUNDUP(n) => (v + 1) * PGSIZE <= PGROUNDUP(n) * PGSIZE - PGSIZE
    BY SMTT(20), <1>1, Product, VmAssumption
  <2> HIDE DEF v
  <2> QED
    BY SMTT(20), <1>1, <1>2, <1>4, <2>1, VmAssumption
<1>6. \A w \in VPage : w < v + 1 <=> w < v \/ w = v
  <2>1. VPage \subseteq Int
    BY DEF VPage
  <2> HIDE DEF v
  <2> QED
    BY <1>1, <2>1
<1>7. Below(e) = Below(m) \cup {v} /\ v \notin Below(m)
  BY Zenon, <1>2, <1>3, <1>4, <1>6 DEF Below
<1>8. e \in 0 .. KERNBASE /\ Aligned(e) /\ PGROUNDUP(e) <= PGROUNDUP(n)
  <2>1. Aligned(e)
    BY Zenon, <1>3 DEF Aligned
  <2> HIDE DEF e
  <2> QED
    BY <1>3, <1>4, <1>5, <2>1, VmAssumption
<1> QED
  BY Zenon, <1>2, <1>3, <1>7, <1>8

(* No bytes, no pages. *)
LEMMA NoPages == PGROUNDUP(0) = 0 /\ Aligned(0) /\ Below(0) = {}
<1>1. 0 * PGSIZE = 0 /\ 0 \in Nat
  BY VmAssumption
<1>2. PGROUNDUP(0) = 0
  BY Zenon, <1>1, WholePages
<1>3. \A v \in VPage : ~(v < 0)
  BY DEF VPage
<1> QED
  BY Zenon, <1>1, <1>2, <1>3 DEF Aligned, Below

(* Whole pages, counted. *)
LEMMA Counted ==
  ASSUME NEW m \in Nat, Aligned(m)
  PROVE  \E k \in Nat : m = k * PGSIZE /\ PGROUNDUP(m) = k /\ m \div PGSIZE = k
<1> DEFINE k == PGROUNDUP(m)
           q == m \div PGSIZE
           r == m % PGSIZE
<1>1. k \in Nat /\ m = k * PGSIZE
  BY Zenon, Rounding DEF Aligned
<1>2. m \in Int /\ PGSIZE \in Nat \ {0}
  BY VmAssumption
<1>3. m = PGSIZE * q + r /\ q \in Int /\ r \in Int /\ 0 <= r /\ r < PGSIZE
  BY Zenon, <1>2, Divide
<1> HIDE DEF k, q, r
<1>4. k * PGSIZE = q * PGSIZE + r
  BY <1>1, <1>2, <1>3
<1>5. ~(k < q)
  <2> SUFFICES ASSUME k < q PROVE FALSE
    OBVIOUS
  <2>1. k * PGSIZE <= q * PGSIZE - PGSIZE /\ k * PGSIZE \in Int /\ q * PGSIZE \in Int
    BY <1>1, <1>2, <1>3, Product
  <2> QED
    BY <1>2, <1>3, <1>4, <2>1
<1>6. ~(q < k)
  <2> SUFFICES ASSUME q < k PROVE FALSE
    OBVIOUS
  <2>1. q * PGSIZE <= k * PGSIZE - PGSIZE /\ k * PGSIZE \in Int /\ q * PGSIZE \in Int
    BY <1>1, <1>2, <1>3, Product
  <2> QED
    BY <1>2, <1>3, <1>4, <2>1
<1>7. q = k
  BY <1>1, <1>3, <1>5, <1>6
<1> QED
  BY Zenon, <1>1, <1>7 DEF k, q

(* The page after whole pages. *)
LEMMA AfterWhole ==
  ASSUME NEW m \in Nat, Aligned(m), NEW n \in Nat, m < n
  PROVE  /\ m \div PGSIZE = PGROUNDUP(m) /\ PGROUNDUP(m) < PGROUNDUP(n)
         /\ m + PGSIZE = (PGROUNDUP(m) + 1) * PGSIZE
<1>1. PICK k \in Nat : m = k * PGSIZE /\ PGROUNDUP(m) = k /\ m \div PGSIZE = k
  BY Zenon, Counted
<1>2. PICK j \in Nat : PGROUNDUP(n) = j /\ n <= j * PGSIZE
  BY Zenon, Rounding
<1>3. PGSIZE \in Nat \ {0}
  BY VmAssumption
<1>4. k * PGSIZE \in Int /\ j * PGSIZE \in Int
  BY <1>1, <1>2, <1>3, SMTT(10)
<1>5. k < j
  <2>1. CASE j < k
    <3>1. j * PGSIZE <= k * PGSIZE - PGSIZE
      BY <1>1, <1>2, <1>3, <2>1, Product
    <3> QED
      BY <1>1, <1>2, <1>3, <1>4, <3>1
  <2>2. CASE j = k
    BY <1>1, <1>2, <1>4, <2>2
  <2> QED
    BY <1>1, <1>2, <2>1, <2>2
<1>6. k * PGSIZE + PGSIZE = (k + 1) * PGSIZE
  BY <1>1, <1>3, SMTT(10)
<1> QED
  BY Zenon, <1>1, <1>2, <1>5, <1>6

(* Whole pages that are no more than others. *)
LEMMA WholeOrder ==
  ASSUME NEW m \in Nat, Aligned(m), NEW n \in Nat, Aligned(n), PGROUNDUP(m) <= PGROUNDUP(n)
  PROVE  m <= n
<1>1. PICK k \in Nat : m = k * PGSIZE /\ PGROUNDUP(m) = k
  BY Zenon, Counted
<1>2. PICK j \in Nat : n = j * PGSIZE /\ PGROUNDUP(n) = j
  BY Zenon, Counted
<1>3. PGSIZE \in Nat \ {0}
  BY VmAssumption
<1>4. CASE k = j
  BY <1>1, <1>2, <1>4
<1>5. CASE k < j
  <2>1. k * PGSIZE <= j * PGSIZE - PGSIZE /\ k * PGSIZE \in Int /\ j * PGSIZE \in Int
    BY <1>1, <1>2, <1>3, <1>5, Product
  <2> QED
    BY <1>1, <1>2, <1>3, <2>1
<1> QED
  BY <1>1, <1>2, <1>4, <1>5

(* Two pages more than whole pages. *)
LEMMA TwoMore ==
  ASSUME NEW k \in Nat
  PROVE  LET m == k * PGSIZE
             t == m + 2 * PGSIZE
         IN m \in Nat /\ Aligned(m) /\ t \in Nat /\ Aligned(t) /\ m <= t /\ 2 * PGSIZE <= t
<1>1. k * PGSIZE \in Nat /\ PGSIZE \in Nat /\ k + 2 \in Nat
  BY VmAssumption, SMTT(10)
<1>2. k * PGSIZE + 2 * PGSIZE = (k + 2) * PGSIZE
  BY VmAssumption, SMTT(10)
<1>3. PGROUNDUP(k * PGSIZE) = k /\ PGROUNDUP((k + 2) * PGSIZE) = k + 2
  BY Zenon, <1>1, WholePages
<1>4. k * PGSIZE <= k * PGSIZE + 2 * PGSIZE /\ 2 * PGSIZE <= k * PGSIZE + 2 * PGSIZE /\ k * PGSIZE + 2 * PGSIZE \in Nat
  BY <1>1
<1> QED
  BY Zenon, <1>1, <1>2, <1>3, <1>4 DEF Aligned

(* The page beneath the topmost, where there are two. *)
LEMMA Beneath ==
  ASSUME NEW m \in Nat, Aligned(m), 2 * PGSIZE <= m, m <= KERNBASE
  PROVE  LET top == m \div PGSIZE - 1
         IN top \in Nat /\ top # 0 /\ top - 1 \in Below(m)
<1>1. PICK k \in Nat : m = k * PGSIZE /\ PGROUNDUP(m) = k /\ m \div PGSIZE = k
  BY Zenon, Counted
<1>2. PGSIZE \in Nat \ {0} /\ k \in Int /\ 2 \in Int
  BY VmAssumption
<1>3. ~(k < 2)
  <2> SUFFICES ASSUME k < 2 PROVE FALSE
    OBVIOUS
  <2>1. k * PGSIZE <= 2 * PGSIZE - PGSIZE /\ k * PGSIZE \in Int /\ 2 * PGSIZE \in Int
    BY Zenon, <1>2, Product
  <2> QED
    BY <1>1, <1>2, <2>1
<1>4. k - 1 \in Nat /\ k - 1 # 0 /\ (k - 1) - 1 \in Nat /\ (k - 1) - 1 < k
  BY <1>3
<1>5. (k - 1) - 1 \in VPage
  BY Zenon, <1>1, <1>4, KernBase
<1> QED
  BY Zenon, <1>1, <1>4, <1>5 DEF Below

-----------------------------------------------------------------------------
(* The entries of a directory are different. *)
LEMMA Entries ==
  /\ Pgdir \in Entry /\ Kpt \in Entry /\ Pgdir # Kpt
  /\ \A v \in VPage : /\ Pt(v) \in Entry /\ Pt(v) # Pgdir /\ Pt(v) # Kpt
                      /\ Pte(v) \in Entry /\ Pte(v) # Pgdir /\ Pte(v) # Kpt
  /\ \A v, w \in VPage : Pt(v) # Pte(w) /\ (Pte(v) = Pte(w) => v = w)
<1>1. Pgdir # Kpt
  BY DEF Pgdir, Kpt
<1>2. ASSUME NEW v \in VPage PROVE Pt(v) # Pgdir /\ Pt(v) # Kpt /\ Pte(v) # Pgdir /\ Pte(v) # Kpt
  BY DEF Pgdir, Kpt, Pt, Pte
<1>3. ASSUME NEW v \in VPage, NEW w \in VPage PROVE Pt(v) # Pte(w) /\ (Pte(v) = Pte(w) => v = w)
  BY DEF Pt, Pte
<1> QED
  BY Zenon, <1>1, <1>2, <1>3 DEF Entry

(* No two places have the same page, so the places of pages are as many as *)
(* the pages that have one.                                                *)
LEMMA AsMany ==
  ASSUME NEW H, NEW U \in SUBSET Page, NEW g \in Injection(H, U), g \in Surjection(H, U)
  PROVE  Cardinality(H) = Cardinality(U)
<1>1. IsFiniteSet(Page)
  BY SMTT(20), VmAssumption, FS_Interval DEF Page
<1>2. IsFiniteSet(U)
  BY Zenon, <1>1, FS_Subset
<1> QED
  BY Zenon, <1>2, FS_Injection

(* What a kalloc, or two, find. *)
LEMMA OnePage ==
  ASSUME NEW fr, Cardinality(FreePages(fr)) >= 1
  PROVE  kalloc(fr) \in FreePages(fr)
<1>1. Cardinality({}) = 0 /\ ~(0 >= 1)
  BY FS_EmptySet
<1>2. FreePages(fr) # {}
  BY Zenon, <1>1
<1> QED
  BY Zenon, <1>2 DEF kalloc

(* And two kallocs find different pages. *)
LEMMA TwoPages ==
  ASSUME NEW fr, Cardinality(FreePages(fr)) >= 2
  PROVE  kalloc(fr) \in FreePages(fr) /\ Next2(fr) \in FreePages(fr) /\ Next2(fr) # kalloc(fr)
<1>1. Cardinality({}) = 0 /\ ~(0 >= 2) /\ ~(1 >= 2)
  BY FS_EmptySet
<1>2. \A x : Cardinality({x}) = 1
  BY Zenon, FS_Singleton
<1>3. FreePages(fr) # {}
  BY Zenon, <1>1
<1>4. kalloc(fr) \in FreePages(fr)
  BY Zenon, <1>3 DEF kalloc
<1>5. FreePages(fr) # {kalloc(fr)}
  BY Zenon, <1>1, <1>2
<1>6. FreePages(fr) \ {kalloc(fr)} # {}
  BY Zenon, <1>4, <1>5
<1> QED
  BY Zenon, <1>4, <1>6 DEF Next2

(* The address spaces, each process's own and the one that it builds. *)
Space == Task \X {"dir", "new"}
Spaces(D, N) == [s \in Space |-> IF s[2] = "dir" THEN D[s[1]].page ELSE N[s[1]].page]

Layout == [Space -> [Entry -> Page \cup {0}]]

(* Every page is on the list once, or in one entry of one space. *)
Parted(fr, f) ==
  /\ \A x \in Page : fr[x] = 0 \/ fr[x] = 1
  /\ \A x \in Page : fr[x] = 1 => \A s \in Space, e \in Entry : f[s][e] # x
  /\ \A x \in Page : fr[x] = 0 => \E s \in Space, e \in Entry : f[s][e] = x
  /\ \A s, t \in Space, e, g \in Entry : f[s][e] = f[t][g] /\ f[s][e] # 0 => s = t /\ e = g

(* A page is in one place only. *)
LEMMA SoleHolder ==
  ASSUME NEW fr, NEW f, Parted(fr, f), NEW s \in Space, NEW t \in Space, NEW e \in Entry, NEW g \in Entry,
         f[s][e] = f[t][g], f[s][e] # 0
  PROVE  s = t /\ e = g
BY DEF Parted

(* Page x leaves the list; it is put into entry e of space s. *)
Off(fr, x, fr2) == fr2[x] = 0 /\ \A y \in Page : y # x => fr2[y] = fr[y]
Put(f, s, e, x, f2) ==
  f2[s][e] = x /\ \A t \in Space, g \in Entry : t # s \/ g # e => f2[t][g] = f[t][g]

(* A free page is taken for an entry that was empty. *)
LEMMA TakePage ==
  ASSUME NEW fr, NEW f, Parted(fr, f), NEW s \in Space, NEW e \in Entry, f[s][e] = 0,
         NEW x \in Page, fr[x] = 1, NEW fr2, NEW f2, Off(fr, x, fr2), Put(f, s, e, x, f2)
  PROVE  Parted(fr2, f2)
<1> USE DEF Off, Put
<1>1. 0 # 1 /\ x # 0
  BY DEF Page
<1>2. \A y \in Page : fr2[y] = 0 \/ fr2[y] = 1
  BY ZenonT(30) DEF Parted
<1>3. \A y \in Page : fr2[y] = 1 => \A t \in Space, g \in Entry : f2[t][g] # y
  BY <1>1 DEF Parted
<1>4. \A y \in Page : fr2[y] = 0 => \E t \in Space, g \in Entry : f2[t][g] = y
  <2> SUFFICES ASSUME NEW y \in Page, fr2[y] = 0
               PROVE  \E t \in Space, g \in Entry : f2[t][g] = y
    OBVIOUS
  <2>1. CASE y = x
    BY Zenon, <2>1
  <2>2. CASE y # x
    <3>1. PICK t \in Space, g \in Entry : f[t][g] = y
      BY Zenon, <2>2 DEF Parted
    <3>2. y # 0
      BY DEF Page
    <3> QED
      BY ZenonT(30), <3>1, <3>2
  <2> QED
    BY Zenon, <2>1, <2>2
<1>5. ASSUME NEW t \in Space, NEW u \in Space, NEW g \in Entry, NEW h \in Entry,
             f2[t][g] = f2[u][h], f2[t][g] # 0
      PROVE  t = u /\ g = h
  <2>1. \A r \in Space, k \in Entry : f[r][k] # x
    BY Zenon DEF Parted
  <2>2. CASE t = s /\ g = e
    BY SMTT(20), <1>5, <2>1, <2>2
  <2>3. CASE u = s /\ h = e
    BY <1>5, <2>1, <2>3
  <2>4. CASE (t # s \/ g # e) /\ (u # s \/ h # e)
    BY SMTT(20), <1>5, <2>4 DEF Parted
  <2> QED
    BY Zenon, <2>2, <2>3, <2>4
<1> QED
  BY <1>2, <1>3, <1>4, <1>5 DEF Parted

(* The pages of the entries E of space s come onto the list; they are      *)
(* cleared.                                                                *)
BackAt(fr, f, s, E, fr2, x) ==
  /\ (\E e \in E : f[s][e] = x) => fr2[x] = 1
  /\ (\A e \in E : f[s][e] # x) => fr2[x] = fr[x]
Back(fr, f, s, E, fr2) == \A x \in Page : BackAt(fr, f, s, E, fr2, x)
Gone(f, s, E, f2) ==
  /\ \A e \in E : f2[s][e] = 0
  /\ \A t \in Space, g \in Entry : t # s \/ g \notin E => f2[t][g] = f[t][g]

(* Pages are given back. *)
LEMMA GivePages ==
  ASSUME NEW fr, NEW f, Parted(fr, f), NEW s \in Space, NEW E \in SUBSET Entry, NEW fr2, NEW f2,
         Back(fr, f, s, E, fr2), Gone(f, s, E, f2)
  PROVE  Parted(fr2, f2)
<1> USE DEF Back, BackAt, Gone
<1>1. 0 # 1 /\ 0 \notin Page
  BY DEF Page
<1>2. \A y \in Page : fr2[y] = 0 \/ fr2[y] = 1
  BY Zenon DEF Parted
<1>3. ASSUME NEW y \in Page, fr2[y] = 1, NEW t \in Space, NEW g \in Entry, f2[t][g] = y
      PROVE  FALSE
  <2>1. t # s \/ g \notin E
    BY <1>1, <1>3
  <2>2. f[t][g] = y
    BY Zenon, <1>3, <2>1
  <2>3. \A e \in E : f[s][e] # y
    BY SMTT(20), <1>1, <1>3, <2>1, <2>2 DEF Parted
  <2> QED
    BY SMTT(20), <1>3, <2>2, <2>3 DEF Parted
<1>4. ASSUME NEW y \in Page, fr2[y] = 0
      PROVE  \E t \in Space, g \in Entry : f2[t][g] = y
  <2>1. \A e \in E : f[s][e] # y
    BY Zenon, <1>1, <1>4
  <2>2. PICK t \in Space, g \in Entry : f[t][g] = y
    BY Zenon, <1>4, <2>1 DEF Parted
  <2>3. t # s \/ g \notin E
    BY Zenon, <2>1, <2>2
  <2> QED
    BY Zenon, <2>2, <2>3
<1>5. ASSUME NEW t \in Space, NEW u \in Space, NEW g \in Entry, NEW h \in Entry,
             f2[t][g] = f2[u][h], f2[t][g] # 0
      PROVE  t = u /\ g = h
  <2>1. (t # s \/ g \notin E) /\ (u # s \/ h \notin E)
    BY Zenon, <1>5
  <2>2. f2[t][g] = f[t][g] /\ f2[u][h] = f[u][h]
    BY Zenon, <2>1
  <2>3. f[t][g] = f[u][h] /\ f[t][g] # 0
    BY Zenon, <1>5, <2>2
  <2> QED
    BY <2>3, SoleHolder
<1> QED
  BY SMTT(20), <1>2, <1>3, <1>4, <1>5 DEF Parted

-----------------------------------------------------------------------------
Upd(f, s, g) == [f EXCEPT ![s] = g]

(* What an update of one space changes. *)
LEMMA Updated ==
  ASSUME NEW f \in Layout, NEW s \in Space, NEW g
  PROVE  Upd(f, s, g)[s] = g /\ \A t \in Space : t # s => Upd(f, s, g)[t] = f[t]
BY Zenon DEF Layout, Upd

(* What the constructors of directories make. *)
LEMMA DirOf ==
  ASSUME NEW page, NEW guard, NEW lost
  PROVE  /\ Dir(page, guard, lost).page = page /\ Dir(page, guard, lost).guard = guard
         /\ Dir(page, guard, lost).lost = lost
BY Zenon DEF Dir

(* The entries of a directory with a page more at v. *)
LEMMA AllocPageIs ==
  ASSUME NEW fr, NEW d, NEW v \in VPage, NEW e \in Entry
  PROVE  /\ e = Pte(v) => AllocPage(fr, d, v).page[e] = kalloc(fr)
         /\ e = Pt(v) /\ NeedsTable(d, v) => AllocPage(fr, d, v).page[e] = Next2(fr)
         /\ e # Pte(v) /\ (e # Pt(v) \/ ~NeedsTable(d, v)) => AllocPage(fr, d, v).page[e] = d.page[e]
<1>1. AllocPage(fr, d, v).page[e] = CASE e = Pte(v) -> kalloc(fr)
                         [] e = Pt(v) /\ NeedsTable(d, v) -> Next2(fr)
                         [] OTHER -> d.page[e]
  BY DEF AllocPage, Dir
<1>2. Pt(v) # Pte(v)
  BY Zenon, Entries
<1> QED
  BY Zenon, <1>1, <1>2

(* The entries of setupkvm's directory. *)
LEMMA SetupIs ==
  ASSUME NEW fr, NEW e \in Entry
  PROVE  /\ e = Pgdir => setupkvm(fr).page[e] = kalloc(fr)
         /\ e = Kpt => setupkvm(fr).page[e] = Next2(fr)
         /\ e # Pgdir /\ e # Kpt => setupkvm(fr).page[e] = 0
<1>1. setupkvm(fr).page[e] = CASE e = Pgdir -> kalloc(fr) [] e = Kpt -> Next2(fr) [] OTHER -> 0
  BY DEF setupkvm, Dir
<1>2. Pgdir # Kpt
  BY Zenon, Entries
<1> QED
  BY Zenon, <1>1, <1>2

(* Without as it is used: for pages that are on the list once. *)
LEMMA WithoutIs ==
  ASSUME NEW fr, NEW X, NEW x \in Page
  PROVE  /\ x \in X /\ fr[x] = 1 => Without(fr, X)[x] = 0
         /\ x \notin X => Without(fr, X)[x] = fr[x]
<1>1. 1 - 1 = 0
  OBVIOUS
<1> QED
  BY Zenon, <1>1 DEF Without

(* A free page is on the list once. *)
LEMMA FreeOnce ==
  ASSUME NEW fr, NEW f, Parted(fr, f), NEW x \in FreePages(fr)
  PROVE  x \in Page /\ fr[x] = 1 /\ x # 0
<1>1. ~(0 > 0) /\ 0 \notin Page
  BY DEF Page
<1> QED
  BY Zenon, <1>1 DEF Parted, FreePages

(* The list without one page, *)
LEMMA OffOne ==
  ASSUME NEW fr, NEW x \in Page, fr[x] = 1
  PROVE  Off(fr, x, Without(fr, {x}))
BY ZenonT(30), WithoutIs DEF Off

(* and without a second one. *)
LEMMA OffTwo ==
  ASSUME NEW fr, NEW x \in Page, NEW y \in Page, x # y, fr[x] = 1, fr[y] = 1
  PROVE  Off(Without(fr, {x}), y, Without(fr, {x, y})) /\ Without(fr, {x})[y] = 1
<1>1. Without(fr, {x})[y] = 1
  BY Zenon DEF Without
<1>2. Without(fr, {x})[x] = 0
  BY ZenonT(30), WithoutIs
<1>3. Without(fr, {x, y})[y] = 0 /\ Without(fr, {x, y})[x] = 0
  BY ZenonT(30), WithoutIs
<1>4. ASSUME NEW z \in Page, z # y PROVE Without(fr, {x, y})[z] = Without(fr, {x})[z]
  <2>1. CASE z = x
    BY Zenon, <1>3, <1>2, <2>1
  <2>2. CASE z # x
    BY Zenon, <1>4, <2>2 DEF Without
  <2> QED
    BY Zenon, <2>1, <2>2
<1> QED
  BY Zenon, <1>1, <1>3, <1>4 DEF Off

(* A space whose directory differs in one entry. *)
LEMMA PutOne ==
  ASSUME NEW f \in Layout, NEW s \in Space, NEW e \in Entry, NEW x, NEW g, g[e] = x,
         \A k \in Entry : k # e => g[k] = f[s][k]
  PROVE  Put(f, s, e, x, Upd(f, s, g))
<1>1. Upd(f, s, g)[s] = g
  BY Zenon DEF Upd, Layout
<1>2. \A t \in Space : t # s => Upd(f, s, g)[t] = f[t]
  BY Zenon DEF Upd, Layout
<1> QED
  BY Zenon, <1>1, <1>2 DEF Put

(* The same for one that was changed already. *)
LEMMA PutMore ==
  ASSUME NEW f \in Layout, NEW s \in Space, NEW e \in Entry, NEW x, NEW g, NEW h, g[e] = x,
         \A k \in Entry : k # e => g[k] = h[k]
  PROVE  Put(Upd(f, s, h), s, e, x, Upd(f, s, g))
<1>1. Upd(f, s, g)[s] = g /\ Upd(f, s, h)[s] = h
  BY Zenon DEF Upd, Layout
<1>2. \A t \in Space : t # s => Upd(f, s, g)[t] = Upd(f, s, h)[t]
  BY Zenon DEF Upd, Layout
<1> QED
  BY Zenon, <1>1, <1>2 DEF Put

(* d is the directory of space s; it has entry e free. *)
In(f, s, d) == d.page = f[s]
Vacant(d, e) == d.page[e] = 0

AsBefore(g, d, e, k) == \A l \in Entry : l # e /\ l # k => g[l] = d.page[l]

(* Two free pages go into two entries of a space. *)
LEMMA TakeTwo ==
  ASSUME NEW fr, NEW f \in Layout, Parted(fr, f), NEW s \in Space, NEW d, In(f, s, d),
         NEW e \in Entry, NEW k \in Entry, e # k, Vacant(d, e), Vacant(d, k),
         NEW x \in FreePages(fr), NEW y \in FreePages(fr), x # y,
         NEW g, g[e] = x, g[k] = y, AsBefore(g, d, e, k)
  PROVE  Parted(Without(fr, {x, y}), Upd(f, s, g))
<1> DEFINE h == [l \in Entry |-> IF l = e THEN x ELSE d.page[l]]
<1>1. x \in Page /\ fr[x] = 1 /\ y \in Page /\ fr[y] = 1
  BY Zenon, FreeOnce
<1>2. h[e] = x /\ (\A l \in Entry : l # e => h[l] = f[s][l]) /\ h[k] = 0
  BY Zenon DEF In, Vacant
<1>3. \A l \in Entry : l # k => g[l] = h[l]
  BY Zenon DEF AsBefore
<1> HIDE DEF h
<1>4. Put(f, s, e, x, Upd(f, s, h))
  BY Zenon, <1>2, PutOne
<1>5. Put(Upd(f, s, h), s, k, y, Upd(f, s, g))
  BY Zenon, <1>3, PutMore
<1>6. Upd(f, s, h)[s] = h
  BY Zenon DEF Upd, Layout
<1>7. Upd(f, s, h)[s][k] = 0 /\ f[s][e] = 0
  BY Zenon, <1>2, <1>6 DEF In, Vacant
<1>8. Off(fr, x, Without(fr, {x}))
  BY Zenon, <1>1, OffOne
<1>9. Off(Without(fr, {x}), y, Without(fr, {x, y})) /\ Without(fr, {x})[y] = 1
  BY ZenonT(30), <1>1, OffTwo
<1>10. Parted(Without(fr, {x}), Upd(f, s, h))
  BY Zenon, <1>1, <1>4, <1>7, <1>8, TakePage
<1> QED
  BY Zenon, <1>1, <1>5, <1>7, <1>9, <1>10, TakePage

(* A turn of allocuvm or copyuvm. *)
LEMMA AllocParted ==
  ASSUME NEW fr, NEW f \in Layout, Parted(fr, f), NEW s \in Space, NEW d, In(f, s, d),
         NEW v \in VPage, Vacant(d, Pte(v)), Enough(fr, d, v)
  PROVE  Parted(Taken(fr, d, v), Upd(f, s, AllocPage(fr, d, v).page))
<1> DEFINE x == kalloc(fr)
           y == Next2(fr)
           g == AllocPage(fr, d, v).page
<1>1. Pte(v) \in Entry /\ Pt(v) \in Entry /\ Pt(v) # Pte(v)
  BY Zenon, Entries
<1>2. g[Pte(v)] = x
  BY ZenonT(30), <1>1, AllocPageIs
<1>3. CASE ~NeedsTable(d, v)
  <2>1. x \in FreePages(fr)
    BY Zenon, OnePage, <1>3 DEF Enough
  <2>2. x \in Page /\ fr[x] = 1
    BY Zenon, FreeOnce, <2>1
  <2>3. \A e \in Entry : e # Pte(v) => g[e] = d.page[e]
    BY ZenonT(30), <1>3, AllocPageIs
  <2>4. Taken(fr, d, v) = Without(fr, {x})
    BY Zenon, <1>3 DEF Taken
  <2> HIDE DEF g, x
  <2>5. \A e \in Entry : e # Pte(v) => g[e] = f[s][e]
    BY Zenon, <2>3 DEF In
  <2>6. Put(f, s, Pte(v), x, Upd(f, s, g))
    BY Zenon, <1>1, <1>2, <2>5, PutOne
  <2>7. Off(fr, x, Without(fr, {x}))
    BY Zenon, <2>2, OffOne
  <2>8. f[s][Pte(v)] = 0
    BY Zenon DEF In, Vacant
  <2>9. Parted(Without(fr, {x}), Upd(f, s, g))
    BY Zenon, <1>1, <2>2, <2>6, <2>7, <2>8, TakePage
  <2> QED
    BY Zenon, <2>4, <2>9 DEF g
<1>4. CASE NeedsTable(d, v)
  <2>1. x \in FreePages(fr) /\ y \in FreePages(fr) /\ x # y
    BY Zenon, TwoPages, <1>4 DEF Enough
  <2>2. g[Pt(v)] = y
    BY ZenonT(30), <1>1, <1>4, AllocPageIs
  <2>3. AsBefore(g, d, Pte(v), Pt(v))
    BY ZenonT(30), AllocPageIs DEF AsBefore
  <2>4. Taken(fr, d, v) = Without(fr, {x, y})
    BY Zenon, <1>4 DEF Taken
  <2>5. Vacant(d, Pt(v))
    BY Zenon, <1>4 DEF NeedsTable, Vacant
  <2> HIDE DEF g, x, y
  <2>6. Parted(Without(fr, {x, y}), Upd(f, s, g))
    BY Zenon, <1>1, <1>2, <2>1, <2>2, <2>3, <2>5, TakeTwo
  <2> QED
    BY Zenon, <2>4, <2>6 DEF g
<1> QED
  BY Zenon, <1>3, <1>4

(* setupkvm, for a space that was empty. *)
LEMMA SetupParted ==
  ASSUME NEW fr, NEW f \in Layout, Parted(fr, f), NEW s \in Space, In(f, s, NoDir), CanSetup(fr)
  PROVE  Parted(Setup(fr), Upd(f, s, setupkvm(fr).page))
<1> DEFINE x == kalloc(fr)
           y == Next2(fr)
           g == setupkvm(fr).page
<1>1. Pgdir \in Entry /\ Kpt \in Entry /\ Pgdir # Kpt
  BY Zenon, Entries
<1>2. x \in FreePages(fr) /\ y \in FreePages(fr) /\ x # y
  BY Zenon, TwoPages DEF CanSetup
<1>3. \A e \in Entry : NoDir.page[e] = 0
  BY DEF NoDir, Dir
<1>4. g[Pgdir] = x /\ g[Kpt] = y
  BY Zenon, <1>1, SetupIs
<1>5. AsBefore(g, NoDir, Pgdir, Kpt)
  BY Zenon, <1>3, SetupIs DEF AsBefore
<1>6. Vacant(NoDir, Pgdir) /\ Vacant(NoDir, Kpt)
  BY Zenon, <1>1, <1>3 DEF Vacant
<1>7. Setup(fr) = Without(fr, {x, y})
  BY Zenon DEF Setup
<1> HIDE DEF g, x, y
<1>8. Parted(Without(fr, {x, y}), Upd(f, s, g))
  BY Zenon, <1>1, <1>2, <1>4, <1>5, <1>6, TakeTwo
<1> QED
  BY Zenon, <1>7, <1>8 DEF g

(* kfree of the pages of entries E. *)
LEMMA FreeIs ==
  ASSUME NEW fr, NEW f, Parted(fr, f), NEW s \in Space, NEW d, In(f, s, d), NEW E \in SUBSET Entry,
         NEW x \in Page
  PROVE  BackAt(fr, f, s, E, kfree(fr, d, E), x)
<1> DEFINE X == {e \in E : d.page[e] = x}
<1>1. kfree(fr, d, E)[x] = fr[x] + Cardinality(X)
  BY Zenon DEF kfree
<1>2. ASSUME NEW e \in E, f[s][e] = x PROVE kfree(fr, d, E)[x] = 1
  <2>1. x # 0
    BY DEF Page
  <2>2. \A g \in E : f[s][g] = x => g = e
    BY <1>2, <2>1, SoleHolder
  <2>3. X = {e}
    BY Zenon, <1>2, <2>2 DEF In
  <2>4. Cardinality(X) = 1
    BY Zenon, <2>3, FS_Singleton
  <2>5. fr[x] = 0
    BY Zenon, <1>2 DEF Parted
  <2>6. 0 + 1 = 1
    OBVIOUS
  <2> QED
    BY Zenon, <1>1, <2>4, <2>5, <2>6
<1>3. ASSUME \A e \in E : f[s][e] # x PROVE kfree(fr, d, E)[x] = fr[x]
  <2>1. X = {}
    BY Zenon, <1>3 DEF In
  <2>2. Cardinality(X) = 0
    BY Zenon, <2>1, FS_EmptySet
  <2>3. fr[x] = 0 \/ fr[x] = 1
    BY Zenon DEF Parted
  <2>4. 0 + 0 = 0 /\ 1 + 0 = 1
    OBVIOUS
  <2> QED
    BY Zenon, <1>1, <2>2, <2>3, <2>4
<1> QED
  BY Zenon, <1>2, <1>3 DEF BackAt

(* g is what is left of d without the entries E. *)
Cleared(g, d, E) == \A e \in Entry : g[e] = IF e \in E THEN 0 ELSE d.page[e]

(* freevm and deallocuvm keep the pages apart. *)
LEMMA FreeParted ==
  ASSUME NEW fr, NEW f \in Layout, Parted(fr, f), NEW s \in Space, NEW d, In(f, s, d),
         NEW E \in SUBSET Entry, NEW g, Cleared(g, d, E)
  PROVE  Parted(kfree(fr, d, E), Upd(f, s, g))
<1> DEFINE f2  == Upd(f, s, g)
           fr2 == kfree(fr, d, E)
<1>1. f2[s] = g /\ \A t \in Space : t # s => f2[t] = f[t]
  BY Zenon DEF Upd, Layout
<1>2. Back(fr, f, s, E, fr2)
  BY Zenon, FreeIs DEF Back
<1>3. \A e \in E : f2[s][e] = 0
  BY Zenon, <1>1 DEF Cleared
<1>4. \A t \in Space, e \in Entry : t # s \/ e \notin E => f2[t][e] = f[t][e]
  BY ZenonT(30), <1>1 DEF Cleared, In
<1>5. Gone(f, s, E, f2)
  BY Zenon, <1>3, <1>4 DEF Gone
<1> HIDE DEF f2, fr2
<1>6. Parted(fr2, f2)
  BY Zenon, <1>2, <1>5, GivePages
<1> QED
  BY Zenon, <1>6 DEF f2, fr2

(* A directory moves to a space that had none. *)
Moved(f, s, t, f2) ==
  /\ \A e \in Entry : f[t][e] = 0 /\ f2[t][e] = f[s][e] /\ f2[s][e] = 0
  /\ \A u \in Space : u # s /\ u # t => f2[u] = f[u]

(* So does handing over a directory. *)
LEMMA MoveParted ==
  ASSUME NEW fr, NEW f, Parted(fr, f), NEW s \in Space, NEW t \in Space, s # t, NEW f2, Moved(f, s, t, f2)
  PROVE  Parted(fr, f2)
<1> DEFINE w(u) == IF u = s THEN t ELSE IF u = t THEN s ELSE u
<1>1. \A u \in Space, e \in Entry : f2[u][e] = f[w(u)][e]
  BY DEF Moved
<1>2. \A u \in Space : w(u) \in Space /\ w(w(u)) = u
  BY Zenon
<1>3. \A u, r \in Space : w(u) = w(r) => u = r
  BY Zenon
<1> HIDE DEF w
<1>4. \A x \in Page : fr[x] = 0 \/ fr[x] = 1
  BY Zenon DEF Parted
<1>5. \A x \in Page : fr[x] = 1 => \A u \in Space, e \in Entry : f2[u][e] # x
  BY <1>1, <1>2 DEF Parted
<1>6. ASSUME NEW x \in Page, fr[x] = 0 PROVE \E u \in Space, e \in Entry : f2[u][e] = x
  <2>1. PICK u \in Space, e \in Entry : f[u][e] = x
    BY Zenon, <1>6 DEF Parted
  <2>2. f2[w(u)][e] = x /\ w(u) \in Space
    BY ZenonT(30), <1>1, <1>2, <2>1
  <2> QED
    BY Zenon, <2>2
<1>7. ASSUME NEW u \in Space, NEW r \in Space, NEW e \in Entry, NEW k \in Entry,
             f2[u][e] = f2[r][k], f2[u][e] # 0
      PROVE  u = r /\ e = k
  <2>1. f[w(u)][e] = f[w(r)][k] /\ f[w(u)][e] # 0
    BY Zenon, <1>1, <1>7
  <2>2. w(u) = w(r) /\ e = k
    BY <1>2, <2>1, SoleHolder
  <2> QED
    BY Zenon, <1>3, <2>2
<1> QED
  BY SMTT(20), <1>4, <1>5, <1>6, <1>7 DEF Parted

-----------------------------------------------------------------------------
(* The directories that the operations make are directories. *)
LEMMA DirTyped ==
  ASSUME NEW page \in [Entry -> Page \cup {0}], NEW guard \in SUBSET VPage, NEW lost \in SUBSET VPage
  PROVE  Dir(page, guard, lost) \in DirType
BY DEF Dir, DirType

(* The parts of a directory have their types. *)
LEMMA DirParts ==
  ASSUME NEW d \in DirType
  PROVE  d.page \in [Entry -> Page \cup {0}] /\ d.guard \in SUBSET VPage /\ d.lost \in SUBSET VPage
BY DEF DirType

(* No directory is one without pages. *)
LEMMA NoDirType ==
  NoDir \in DirType /\ NoDir.guard = {} /\ NoDir.lost = {} /\ \A e \in Entry : NoDir.page[e] = 0
<1>1. [e \in Entry |-> 0] \in [Entry -> Page \cup {0}] /\ {} \in SUBSET VPage
  BY Zenon
<1>2. NoDir \in DirType
  BY Zenon, <1>1, DirTyped DEF NoDir
<1>3. NoDir.guard = {} /\ NoDir.lost = {} /\ NoDir.page = [e \in Entry |-> 0]
  BY DEF NoDir, Dir
<1> QED
  BY Zenon, <1>2, <1>3

(* d2 has a page more than d, at v. *)
OneMore(d2, d, v) ==
  d2 \in DirType /\ d2.guard = d.guard /\ d2.lost = d.lost /\ Present(d2) = Present(d) \cup {v}

(* That is what a turn of allocuvm makes. *)
LEMMA AllocDir ==
  ASSUME NEW fr, NEW d \in DirType, NEW v \in VPage, Enough(fr, d, v)
  PROVE  OneMore(AllocPage(fr, d, v), d, v)
<1> DEFINE g == AllocPage(fr, d, v).page
<1>1. kalloc(fr) \in FreePages(fr) /\ (NeedsTable(d, v) => Next2(fr) \in FreePages(fr))
  <2>1. CASE NeedsTable(d, v)
    BY Zenon, <2>1, TwoPages DEF Enough
  <2>2. CASE ~NeedsTable(d, v)
    BY Zenon, <2>2, OnePage DEF Enough
  <2> QED
    BY Zenon, <2>1, <2>2
<1>2. kalloc(fr) \in Page /\ (NeedsTable(d, v) => Next2(fr) \in Page)
  BY Zenon, <1>1 DEF FreePages
<1>3. d.page \in [Entry -> Page \cup {0}] /\ d.guard \in SUBSET VPage /\ d.lost \in SUBSET VPage
  BY Zenon, DirParts
<1>4. \A e \in Entry : g[e] \in Page \cup {0}
  BY SMTT(20), <1>2, <1>3, AllocPageIs
<1>5. g = [e \in Entry |-> g[e]]
  BY DEF AllocPage, Dir
<1>6. g \in [Entry -> Page \cup {0}]
  BY Zenon, <1>4, <1>5
<1>7. /\ AllocPage(fr, d, v).guard = d.guard /\ AllocPage(fr, d, v).lost = d.lost
      /\ AllocPage(fr, d, v) = Dir(g, d.guard, d.lost)
  BY DEF AllocPage, Dir
<1>8. 0 \notin Page
  BY DEF Page
<1>9. ASSUME NEW w \in VPage PROVE g[Pte(w)] # 0 <=> d.page[Pte(w)] # 0 \/ w = v
  <2>1. Pte(w) \in Entry /\ Pte(w) # Pt(v) /\ (Pte(w) = Pte(v) => w = v)
    BY Zenon, Entries
  <2>2. CASE w = v
    BY ZenonT(30), <1>2, <1>8, <2>1, <2>2, AllocPageIs
  <2>3. CASE w # v
    BY <2>1, <2>3, AllocPageIs
  <2> QED
    BY Zenon, <2>2, <2>3
<1>10. Present(AllocPage(fr, d, v)) = Present(d) \cup {v}
  BY Zenon, <1>9 DEF Present
<1> QED
  BY Zenon, <1>3, <1>6, <1>10, <1>7, DirTyped DEF OneMore

(* setupkvm's directory has no user pages. *)
LEMMA SetupDir ==
  ASSUME NEW fr, CanSetup(fr)
  PROVE  setupkvm(fr) \in DirType /\ setupkvm(fr).guard = {} /\ setupkvm(fr).lost = {} /\ Present(setupkvm(fr)) = {}
<1> DEFINE g == setupkvm(fr).page
<1>1. kalloc(fr) \in FreePages(fr) /\ Next2(fr) \in FreePages(fr)
  BY Zenon, TwoPages DEF CanSetup
<1>2. \A e \in Entry : g[e] \in Page \cup {0}
  BY Zenon, <1>1, SetupIs DEF FreePages
<1>3. g = [e \in Entry |-> g[e]] /\ setupkvm(fr) = Dir(g, {}, {}) /\ {} \in SUBSET VPage
  BY DEF setupkvm, Dir
<1>4. g \in [Entry -> Page \cup {0}]
  BY Zenon, <1>2, <1>3
<1>5. \A w \in VPage : g[Pte(w)] = 0
  BY Zenon, Entries, SetupIs
<1>6. Present(setupkvm(fr)) = {}
  BY Zenon, <1>5 DEF Present
<1>7. setupkvm(fr).guard = {} /\ setupkvm(fr).lost = {}
  BY DEF setupkvm, Dir
<1>8. Dir(g, {}, {}) \in DirType
  BY Zenon, <1>3, <1>4, DirTyped
<1> QED
  BY Zenon, <1>3, <1>6, <1>7, <1>8

(* deallocuvm's has those that it did not free. *)
LEMMA LeftDir ==
  ASSUME NEW d \in DirType, NEW V \in SUBSET VPage
  PROVE  /\ Left(d, V) \in DirType /\ Left(d, V).guard = d.guard \ V /\ Left(d, V).lost = d.lost \ V
         /\ Present(Left(d, V)) = Present(d) \ V
         /\ Ptes(V) \in SUBSET Entry /\ Cleared(Left(d, V).page, d, Ptes(V))
<1> DEFINE g == [e \in Entry |-> IF \E v \in V : e = Pte(v) THEN 0 ELSE d.page[e]]
<1>1. d.page \in [Entry -> Page \cup {0}] /\ d.guard \in SUBSET VPage /\ d.lost \in SUBSET VPage
  BY Zenon, DirParts
<1>2. /\ Left(d, V) = Dir(g, d.guard \ V, d.lost \ V)
      /\ d.guard \ V \in SUBSET VPage /\ d.lost \ V \in SUBSET VPage
  BY Zenon, <1>1 DEF Left
<1>3. g \in [Entry -> Page \cup {0}]
  BY Zenon, <1>1
<1>4. \A w \in VPage : g[Pte(w)] # 0 <=> d.page[Pte(w)] # 0 /\ w \notin V
  BY Zenon, Entries
<1>5. Ptes(V) \in SUBSET Entry
  BY Zenon, Entries DEF Ptes
<1>6. Cleared(g, d, Ptes(V))
  BY Zenon DEF Cleared, Ptes
<1> HIDE DEF g
<1>7. Left(d, V).page = g /\ Left(d, V).guard = d.guard \ V /\ Left(d, V).lost = d.lost \ V
  BY <1>2 DEF Dir
<1>8. Present(Left(d, V)) = Present(d) \ V
  BY Zenon, <1>4, <1>7 DEF Present
<1> QED
  BY ZenonT(30), <1>2, <1>3, <1>5, <1>6, <1>7, <1>8, DirTyped

(* The pages of a directory do not depend on its flags, nor on what was    *)
(* lost.                                                                   *)
LEMMA Reflagged ==
  ASSUME NEW d \in DirType, NEW G \in SUBSET VPage, NEW L \in SUBSET VPage
  PROVE  LET e == Dir(d.page, G, L)
         IN e \in DirType /\ e.page = d.page /\ e.guard = G /\ e.lost = L /\ Present(e) = Present(d)
<1> DEFINE e == Dir(d.page, G, L)
<1>1. e.page = d.page /\ e.guard = G /\ e.lost = L
  BY DEF Dir
<1>2. e \in DirType
  BY Zenon, DirParts, DirTyped
<1> HIDE DEF e
<1>3. Present(e) = Present(d)
  BY Zenon, <1>1 DEF Present
<1> QED
  BY Zenon, <1>1, <1>2, <1>3 DEF e

-----------------------------------------------------------------------------
(* The spaces, when one process's directory changes. *)
LEMMA SpaceTypes ==
  ASSUME NEW D \in [Task -> DirType], NEW N \in [Task -> DirType]
  PROVE  Spaces(D, N) \in Layout
<1>1. \A s \in Space : s[1] \in Task
  BY DEF Space
<1>2. \A q \in Task : D[q].page \in [Entry -> Page \cup {0}] /\ N[q].page \in [Entry -> Page \cup {0}]
  BY Zenon, DirParts
<1> QED
  BY Zenon, <1>1, <1>2 DEF Spaces, Layout

(* The space of a process is its directory's, *)
LEMMA DirAt ==
  ASSUME NEW D, NEW N, NEW q \in Task
  PROVE  <<q, "dir">> \in Space /\ In(Spaces(D, N), <<q, "dir">>, D[q])
BY DEF Space, Spaces, In

(* and its second one that of the directory it builds. *)
LEMMA NewAt ==
  ASSUME NEW D, NEW N, NEW q \in Task
  PROVE  <<q, "new">> \in Space /\ In(Spaces(D, N), <<q, "new">>, N[q])
BY DEF Space, Spaces, In

(* Another directory for a process changes one space. *)
LEMMA DirChanges ==
  ASSUME NEW D \in [Task -> DirType], NEW N \in [Task -> DirType], NEW p \in Task, NEW d \in DirType
  PROVE  Spaces([D EXCEPT ![p] = d], N) = Upd(Spaces(D, N), <<p, "dir">>, d.page)
<1> DEFINE A == Spaces([D EXCEPT ![p] = d], N)
           B == Upd(Spaces(D, N), <<p, "dir">>, d.page)
<1>1. A \in Layout
  <2>1. [D EXCEPT ![p] = d] \in [Task -> DirType]
    BY Zenon
  <2> QED
    BY Zenon, <2>1, SpaceTypes
<1>2. B \in Layout
  <2>1. Spaces(D, N) \in Layout /\ d.page \in [Entry -> Page \cup {0}]
    BY Zenon, SpaceTypes, DirParts
  <2> QED
    BY Zenon, <2>1 DEF Upd, Layout
<1>3. \A s \in Space : A[s] = B[s]
  BY DEF Spaces, Upd, Space
<1> HIDE DEF A, B
<1>4. A = B
  BY SMTT(20), <1>1, <1>2, <1>3 DEF Layout
<1> QED
  BY Zenon, <1>4 DEF A, B

(* So does another one that it builds. *)
LEMMA NewChanges ==
  ASSUME NEW D \in [Task -> DirType], NEW N \in [Task -> DirType], NEW p \in Task, NEW d \in DirType
  PROVE  Spaces(D, [N EXCEPT ![p] = d]) = Upd(Spaces(D, N), <<p, "new">>, d.page)
<1> DEFINE A == Spaces(D, [N EXCEPT ![p] = d])
           B == Upd(Spaces(D, N), <<p, "new">>, d.page)
<1>1. A \in Layout
  <2>1. [N EXCEPT ![p] = d] \in [Task -> DirType]
    BY Zenon
  <2> QED
    BY Zenon, <2>1, SpaceTypes
<1>2. B \in Layout
  <2>1. Spaces(D, N) \in Layout /\ d.page \in [Entry -> Page \cup {0}]
    BY Zenon, SpaceTypes, DirParts
  <2> QED
    BY ZenonT(30), <2>1 DEF Upd, Layout
<1>3. \A s \in Space : A[s] = B[s]
  BY SMTT(20) DEF Spaces, Upd, Space
<1> HIDE DEF A, B
<1>4. A = B
  BY <1>1, <1>2, <1>3 DEF Layout
<1> QED
  BY Zenon, <1>4 DEF A, B

(* exec's directory takes the place of the old one, whose pages were freed. *)
LEMMA Replaced ==
  ASSUME NEW D \in [Task -> DirType], NEW N \in [Task -> DirType], NEW p \in Task, NEW q \in Task,
         NEW d \in DirType, d.page = N[p].page, NEW f \in Layout, f = Upd(Spaces(D, N), <<q, "dir">>, NoDir.page)
  PROVE  Moved(f, <<p, "new">>, <<q, "dir">>, Spaces([D EXCEPT ![q] = d], [N EXCEPT ![p] = NoDir]))
<1> DEFINE D2 == [D EXCEPT ![q] = d]
           N2 == [N EXCEPT ![p] = NoDir]
           f2 == Spaces(D2, N2)
           s  == <<p, "new">>
           t  == <<q, "dir">>
<1>1. s \in Space /\ t \in Space /\ s # t
  BY DEF Space
<1>2. Spaces(D, N) \in Layout
  BY Zenon, SpaceTypes
<1>3. f[t] = NoDir.page /\ \A u \in Space : u # t => f[u] = Spaces(D, N)[u]
  BY Zenon, <1>1, <1>2 DEF Upd, Layout
<1>4. D2[q] = d /\ N2[p] = NoDir
  BY Zenon
<1>5. f2[t] = d.page /\ f2[s] = NoDir.page
  BY <1>4 DEF Spaces, Space
<1>6. Spaces(D, N)[s] = N[p].page
  BY DEF Spaces, Space
<1>7. ASSUME NEW u \in Space, u # s, u # t PROVE f2[u] = f[u]
  <2>1. f2[u] = Spaces(D, N)[u]
    BY <1>7 DEF Spaces, Space
  <2> QED
    BY Zenon, <1>3, <1>7, <2>1
<1>8. \A e \in Entry : NoDir.page[e] = 0
  BY Zenon, NoDirType
<1> HIDE DEF f2, s, t
<1>9. \A e \in Entry : f[t][e] = 0 /\ f2[t][e] = f[s][e] /\ f2[s][e] = 0
  BY ZenonT(30), <1>1, <1>3, <1>5, <1>6, <1>8
<1>10. Moved(f, s, t, f2)
  BY Zenon, <1>7, <1>9 DEF Moved
<1> QED
  BY Zenon, <1>10 DEF f2, s, t

-----------------------------------------------------------------------------
(* The inductive invariant, with what concerns one process as a relation   *)
(* of its values: its address space, and the call that it is in.           *)
Owns(al, c, d, z, st) ==
  /\ ~al => c = "" /\ d = NoDir
  /\ st # 0 => st - 1 \in Below(z)
  /\ d.lost \subseteq Below(z)
  /\ al /\ c # "sbrk" => Present(d) = Below(z) \ d.lost
  /\ al => d.guard = IF st = 0 THEN {} ELSE {st - 1}

Grows(d, ns, td, z) ==
  /\ td # <<>> /\ Head(td) < KERNBASE /\ Present(d) = Below(ns) \ d.lost
  /\ PGROUNDUP(z) <= PGROUNDUP(ns) /\ PGROUNDUP(ns) <= PGROUNDUP(Head(td))

Copies(d, n, ns, z) ==
  Aligned(ns) /\ PGROUNDUP(ns) <= PGROUNDUP(z) /\ n.guard = d.guard \cap Below(ns)

Loads(ns, td) ==
  /\ Aligned(ns)
  /\ td = <<>> => 2 * PGSIZE <= ns /\ ns < KERNBASE
  /\ td # <<>> => Tail(td) = <<>> /\ ns <= Head(td) /\ 2 * PGSIZE <= Head(td) /\ Aligned(Head(td))

Builds(c, d, n, ns, td, z) ==
  /\ c = "" => ns = 0
  /\ c \in {"", "sbrk"} => n = NoDir
  /\ c = "sbrk" => Grows(d, ns, td, z)
  /\ c \in {"fork", "exec", "stack"} => Present(n) = Below(ns) /\ n.lost = {}
  /\ c = "fork" => Copies(d, n, ns, z)
  /\ c \in {"exec", "stack"} => n.guard = {}
  /\ c = "stack" => Loads(ns, td)

Fits(p) == /\ Owns(alive[p], call[p], dir[p], sz[p], stack[p])
           /\ Builds(call[p], dir[p], new[p], nsz[p], todo[p], sz[p])

ChildFree == \A p \in Task : call[p] = "fork" => ~alive[child[p]]

Ind ==
  /\ VmTypeOK /\ Parted(freelist, Spaces(dir, new))
  /\ (\A p \in Task : Fits(p)) /\ ChildFree /\ OneChild

(* The values of one process, and a step that gives it these. *)
Calls == {"", "sbrk", "fork", "exec", "stack"}
Typed(al, c, d, n, ns, td, z, st, ch, ar) ==
  /\ al \in BOOLEAN /\ c \in Calls /\ d \in DirType /\ n \in DirType
  /\ ns \in 0 .. KERNBASE /\ td \in Seq(Nat) /\ z \in 0 .. KERNBASE - 1
  /\ st \in Nat /\ ch \in Task /\ ar \in Nat

Sets(p, al, c, d, n, ns, td, z, st, ch, ar) ==
  /\ alive' = [alive EXCEPT ![p] = al] /\ call' = [call EXCEPT ![p] = c]
  /\ dir' = [dir EXCEPT ![p] = d] /\ new' = [new EXCEPT ![p] = n]
  /\ nsz' = [nsz EXCEPT ![p] = ns] /\ todo' = [todo EXCEPT ![p] = td]
  /\ sz' = [sz EXCEPT ![p] = z] /\ stack' = [stack EXCEPT ![p] = st]
  /\ child' = [child EXCEPT ![p] = ch] /\ args' = [args EXCEPT ![p] = ar]

(* The types of one process's values. *)
LEMMA Values ==
  ASSUME VmTypeOK, NEW p \in Task
  PROVE  Typed(alive[p], call[p], dir[p], new[p], nsz[p], todo[p], sz[p], stack[p], child[p], args[p])
BY Zenon DEF VmTypeOK, Typed, Calls

(* A list of pages that are there at most once is a list. *)
LEMMA ListTyped ==
  ASSUME NEW fr, NEW f, Parted(fr, f)
  PROVE  \A x \in Page : fr[x] \in Nat
<1>1. 0 \in Nat /\ 1 \in Nat
  OBVIOUS
<1> QED
  BY Zenon, <1>1 DEF Parted

(* The types of the lists that kalloc leaves, *)
LEMMA WithoutTyped ==
  ASSUME NEW fr, NEW X, \A x \in Page : Without(fr, X)[x] \in Nat
  PROVE  Without(fr, X) \in [Page -> Nat]
<1>1. ASSUME NEW x \in Page PROVE (IF x \in X THEN fr[x] - 1 ELSE fr[x]) \in Nat
  <2>1. Without(fr, X)[x] = IF x \in X THEN fr[x] - 1 ELSE fr[x]
    BY Zenon DEF Without
  <2> QED
    BY Zenon, <2>1
<1> QED
  BY Zenon, <1>1 DEF Without

(* and of those that kfree leaves. *)
LEMMA FreedTyped ==
  ASSUME NEW fr, NEW d, NEW E, \A x \in Page : kfree(fr, d, E)[x] \in Nat
  PROVE  kfree(fr, d, E) \in [Page -> Nat]
<1>1. ASSUME NEW x \in Page PROVE fr[x] + Cardinality({e \in E : d.page[e] = x}) \in Nat
  <2>1. kfree(fr, d, E)[x] = fr[x] + Cardinality({e \in E : d.page[e] = x})
    BY Zenon DEF kfree
  <2> QED
    BY Zenon, <2>1
<1> QED
  BY Zenon, <1>1 DEF kfree

(* What each process sees of a step of p. *)
LEMMA SetsAt ==
  ASSUME VmTypeOK, NEW p \in Task, NEW al, NEW c, NEW d, NEW n, NEW ns, NEW td, NEW z, NEW st, NEW ch, NEW ar,
         Sets(p, al, c, d, n, ns, td, z, st, ch, ar)
  PROVE  /\ alive'[p] = al /\ call'[p] = c /\ dir'[p] = d /\ new'[p] = n /\ nsz'[p] = ns
         /\ todo'[p] = td /\ sz'[p] = z /\ stack'[p] = st /\ child'[p] = ch /\ args'[p] = ar
BY Zenon DEF VmTypeOK, Sets

(* Nobody else sees a change. *)
LEMMA SetsOthers ==
  ASSUME VmTypeOK, NEW p \in Task, NEW al, NEW c, NEW d, NEW n, NEW ns, NEW td, NEW z, NEW st, NEW ch, NEW ar,
         Sets(p, al, c, d, n, ns, td, z, st, ch, ar), NEW q \in Task, q # p
  PROVE  /\ alive'[q] = alive[q] /\ call'[q] = call[q] /\ dir'[q] = dir[q] /\ new'[q] = new[q]
         /\ nsz'[q] = nsz[q] /\ todo'[q] = todo[q] /\ sz'[q] = sz[q] /\ stack'[q] = stack[q]
         /\ child'[q] = child[q] /\ args'[q] = args[q]
BY ZenonT(30) DEF VmTypeOK, Sets

(* Types are kept by values that have theirs. *)
LEMMA SetsTyped ==
  ASSUME VmTypeOK, NEW p \in Task, NEW al, NEW c, NEW d, NEW n, NEW ns, NEW td, NEW z, NEW st, NEW ch, NEW ar,
         Typed(al, c, d, n, ns, td, z, st, ch, ar), Sets(p, al, c, d, n, ns, td, z, st, ch, ar),
         freelist' \in [Page -> Nat]
  PROVE  VmTypeOK'
BY Zenon DEF VmTypeOK, Sets, Typed, Calls

(* A step of p alone leaves what concerns the others; and p's new values   *)
(* have to fit.                                                            *)
LEMMA Alone ==
  ASSUME Ind, NEW p \in Task, NEW al, NEW c, NEW d, NEW n, NEW ns, NEW td, NEW z, NEW st, NEW ch, NEW ar,
         Typed(al, c, d, n, ns, td, z, st, ch, ar), Sets(p, al, c, d, n, ns, td, z, st, ch, ar),
         freelist' \in [Page -> Nat], Parted(freelist', Spaces(dir', new')),
         Owns(al, c, d, z, st), Builds(c, d, n, ns, td, z), ChildFree', OneChild'
  PROVE  Ind'
<1>1. VmTypeOK
  BY Zenon DEF Ind
<1>2. VmTypeOK'
  BY Zenon, <1>1, SetsTyped
<1>3. /\ alive'[p] = al /\ call'[p] = c /\ dir'[p] = d /\ new'[p] = n /\ nsz'[p] = ns
      /\ todo'[p] = td /\ sz'[p] = z /\ stack'[p] = st /\ child'[p] = ch
  BY ZenonT(30), <1>1, SetsAt
<1>4. \A q \in Task : q # p =>
        /\ alive'[q] = alive[q] /\ call'[q] = call[q] /\ dir'[q] = dir[q] /\ new'[q] = new[q]
        /\ nsz'[q] = nsz[q] /\ todo'[q] = todo[q] /\ sz'[q] = sz[q] /\ stack'[q] = stack[q]
        /\ child'[q] = child[q]
  BY ZenonT(30), <1>1, SetsOthers
<1>5. ASSUME NEW q \in Task PROVE Fits(q)'
  <2>1. CASE q = p
    BY Zenon, <1>3, <2>1 DEF Fits
  <2>2. CASE q # p
    <3>1. Fits(q)
      BY Zenon DEF Ind
    <3> QED
      BY ZenonT(30), <1>4, <2>2, <3>1 DEF Fits
  <2> QED
    BY Zenon, <2>1, <2>2
<1> QED
  BY Zenon, <1>2, <1>5 DEF Ind

(* It makes nobody alive, and starts no fork, if not said otherwise. *)
LEMMA Moves ==
  ASSUME Ind, NEW p \in Task, NEW al, NEW c, NEW d, NEW n, NEW ns, NEW td, NEW z, NEW st, NEW ch, NEW ar,
         Typed(al, c, d, n, ns, td, z, st, ch, ar), Sets(p, al, c, d, n, ns, td, z, st, ch, ar),
         freelist' \in [Page -> Nat], Parted(freelist', Spaces(dir', new')),
         Owns(al, c, d, z, st), Builds(c, d, n, ns, td, z),
         al => alive[p], c = "fork" => call[p] = "fork" /\ ch = child[p]
  PROVE  Ind'
<1>1. VmTypeOK
  BY Zenon DEF Ind
<1>2. alive'[p] = al /\ call'[p] = c /\ child'[p] = ch
  BY ZenonT(30), <1>1, SetsAt
<1>3. \A q \in Task : q # p => alive'[q] = alive[q] /\ call'[q] = call[q] /\ child'[q] = child[q]
  BY ZenonT(30), <1>1, SetsOthers
<1>4. \A q \in Task : alive'[q] => alive[q]
  BY Zenon, <1>2, <1>3
<1>5. \A q \in Task : call'[q] = "fork" => call[q] = "fork" /\ child'[q] = child[q]
  BY Zenon, <1>2, <1>3
<1>6. \A q \in Task : child[q] \in Task
  BY Zenon, <1>1 DEF VmTypeOK
<1>7. ChildFree'
  BY Zenon, <1>4, <1>5, <1>6 DEF Ind, ChildFree
<1>8. OneChild'
  BY ZenonT(30), <1>5 DEF Ind, OneChild
<1> QED
  BY ZenonT(30), <1>7, <1>8, Alone

-----------------------------------------------------------------------------
(* What does not change is set to its old value. *)
LEMMA SetOld ==
  ASSUME NEW S, NEW f \in [Task -> S], NEW p \in Task
  PROVE  f = [f EXCEPT ![p] = f[p]]
OBVIOUS

(* So for each variable. *)
LEMMA Old ==
  ASSUME VmTypeOK, NEW p \in Task
  PROVE  /\ alive = [alive EXCEPT ![p] = alive[p]] /\ call = [call EXCEPT ![p] = call[p]]
         /\ dir = [dir EXCEPT ![p] = dir[p]] /\ new = [new EXCEPT ![p] = new[p]]
         /\ nsz = [nsz EXCEPT ![p] = nsz[p]] /\ todo = [todo EXCEPT ![p] = todo[p]]
         /\ sz = [sz EXCEPT ![p] = sz[p]] /\ stack = [stack EXCEPT ![p] = stack[p]]
         /\ child = [child EXCEPT ![p] = child[p]] /\ args = [args EXCEPT ![p] = args[p]]
BY Zenon, SetOld DEF VmTypeOK

(* The types of sizes: one that allocuvm comes to, *)
LEMMA Sizes ==
  ASSUME NEW n \in 0 .. KERNBASE
  PROVE  n \in Nat /\ n \in Int /\ n <= KERNBASE
BY VmAssumption

(* and one that a process has. *)
LEMMA SizesBelow ==
  ASSUME NEW n \in 0 .. KERNBASE - 1
  PROVE  n \in 0 .. KERNBASE /\ n \in Nat /\ n < KERNBASE /\ n <= KERNBASE
BY VmAssumption

(* What is below KERNBASE is a size. *)
LEMMA SizeFits ==
  ASSUME NEW n \in Nat, n < KERNBASE
  PROVE  n \in 0 .. KERNBASE - 1 /\ n <= KERNBASE
BY VmAssumption

(* allocuvm's first test. *)
LEMMA NotLarge ==
  ASSUME NEW n \in Nat, ~(n >= KERNBASE)
  PROVE  n < KERNBASE /\ n <= KERNBASE
BY VmAssumption

(* The test of its loop. *)
LEMMA NotLess ==
  ASSUME NEW m \in Nat, NEW n \in Nat, ~(m >= n)
  PROVE  m < n
OBVIOUS

(* The invariant's parts, for process p. *)
LEMMA IndAt ==
  ASSUME Ind, NEW p \in Task
  PROVE  /\ VmTypeOK /\ Parted(freelist, Spaces(dir, new)) /\ Spaces(dir, new) \in Layout
         /\ freelist \in [Page -> Nat] /\ dir \in [Task -> DirType] /\ new \in [Task -> DirType]
         /\ Owns(alive[p], call[p], dir[p], sz[p], stack[p])
         /\ Builds(call[p], dir[p], new[p], nsz[p], todo[p], sz[p])
BY Zenon, SpaceTypes DEF Ind, VmTypeOK, Fits

(* Whoever is in a call is there. *)
LEMMA InCall ==
  ASSUME NEW al \in BOOLEAN, NEW c, NEW d, NEW z, NEW st, Owns(al, c, d, z, st), c # ""
  PROVE  al = TRUE
BY Zenon DEF Owns

(* A call other than sbrk leaves the space as it is. *)
LEMMA OwnsStill ==
  ASSUME NEW al, NEW c, NEW d, NEW z, NEW st, Owns(al, c, d, z, st), al, c # "sbrk", NEW c2
  PROVE  Owns(al, c2, d, z, st)
BY Zenon DEF Owns

(* The spaces are as they were. *)
LEMMA NothingMoved ==
  ASSUME Ind, freelist' = freelist, dir' = dir, new' = new
  PROVE  freelist' \in [Page -> Nat] /\ Parted(freelist', Spaces(dir', new'))
BY Zenon DEF Ind, VmTypeOK

(* sbrk with a larger size keeps the invariant. *)
LEMMA GrowStarts ==
  ASSUME Ind, NEW p \in Task, NEW n \in Growth, sbrk_grow(p, n)
  PROVE  Ind'
<1> DEFINE newsz == (sz[p] + n) % VMUINT
<1>1. VmTypeOK /\ Owns(alive[p], call[p], dir[p], sz[p], stack[p])
      /\ Builds(call[p], dir[p], new[p], nsz[p], todo[p], sz[p])
  BY Zenon, IndAt
<1>2. Typed(alive[p], call[p], dir[p], new[p], nsz[p], todo[p], sz[p], stack[p], child[p], args[p])
  BY Zenon, <1>1, Values
<1>3. alive[p] /\ call[p] = ""
  BY Zenon DEF sbrk_grow, AtUser
<1>4. ~(newsz >= KERNBASE) /\ newsz >= sz[p]
  BY Zenon DEF sbrk_grow, TooLarge
<1>5. newsz \in Int /\ sz[p] \in 0 .. KERNBASE - 1 /\ KERNBASE \in Nat
  <2>1. sz[p] \in 0 .. KERNBASE - 1 /\ n \in Int /\ VMUINT \in Nat \ {0} /\ KERNBASE \in Nat
    BY SMTT(20), <1>2, VmAssumption DEF Typed
  <2>2. sz[p] + n \in Int
    BY SMTT(20), <2>1
  <2> QED
    BY ZenonT(30), <2>1, <2>2, Divide
<1> HIDE DEF newsz
<1>6. newsz \in Nat /\ sz[p] <= newsz /\ newsz < KERNBASE /\ sz[p] \in 0 .. KERNBASE /\ sz[p] \in Nat
  BY SMTT(20), <1>5, <1>4
<1>7. Sets(p, alive[p], "sbrk", dir[p], new[p], sz[p], <<newsz>>, sz[p], stack[p], child[p], args[p])
  BY Zenon, <1>1, Old DEF sbrk_grow, Sets, newsz
<1>8. <<newsz>> \in Seq(Nat) /\ <<newsz>> # <<>> /\ Head(<<newsz>>) = newsz
  BY <1>6
<1>9. Typed(alive[p], "sbrk", dir[p], new[p], sz[p], <<newsz>>, sz[p], stack[p], child[p], args[p])
  BY Zenon, <1>2, <1>6, <1>8 DEF Typed, Calls
<1>10. Owns(alive[p], "sbrk", dir[p], sz[p], stack[p])
  BY Zenon, <1>1, <1>3, OwnsStill
<1>11. PGROUNDUP(sz[p]) <= PGROUNDUP(sz[p]) /\ PGROUNDUP(sz[p]) <= PGROUNDUP(newsz)
  <2>1. sz[p] <= sz[p]
    BY <1>6
  <2> QED
    BY Zenon, <1>6, <2>1, Monotone
<1>12. Present(dir[p]) = Below(sz[p]) \ dir[p].lost /\ new[p] = NoDir
  BY Zenon, <1>1, <1>3 DEF Owns, Builds
<1>13. Grows(dir[p], sz[p], <<newsz>>, sz[p])
  BY ZenonT(30), <1>6, <1>8, <1>11, <1>12 DEF Grows
<1>14. Builds("sbrk", dir[p], new[p], sz[p], <<newsz>>, sz[p])
  BY Zenon, <1>12, <1>13 DEF Builds
<1>15. freelist' \in [Page -> Nat] /\ Parted(freelist', Spaces(dir', new'))
  BY Zenon, NothingMoved DEF sbrk_grow
<1> QED
  BY ZenonT(30), <1>3, <1>7, <1>9, <1>10, <1>14, <1>15, Moves

(* A process gives up pages of its own space. *)
LEMMA FreeInDir ==
  ASSUME Ind, NEW p \in Task, NEW d \in DirType, NEW E \in SUBSET Entry, Cleared(d.page, dir[p], E),
         freelist' = kfree(freelist, dir[p], E),
         dir' = [dir EXCEPT ![p] = d], new' = new
  PROVE  freelist' \in [Page -> Nat] /\ Parted(freelist', Spaces(dir', new'))
<1> DEFINE f == Spaces(dir, new)
           s == <<p, "dir">>
<1>1. Parted(freelist, f) /\ f \in Layout /\ dir \in [Task -> DirType] /\ new \in [Task -> DirType]
  BY Zenon, IndAt
<1>2. s \in Space /\ In(f, s, dir[p])
  BY Zenon, DirAt
<1>3. Parted(freelist', Upd(f, s, d.page))
  BY Zenon, <1>1, <1>2, FreeParted
<1>4. Upd(f, s, d.page) = Spaces([dir EXCEPT ![p] = d], new)
  BY ZenonT(30), <1>1, DirChanges
<1>5. Parted(freelist', Spaces(dir', new'))
  BY Zenon, <1>3, <1>4
<1>6. \A x \in Page : freelist'[x] \in Nat
  BY Zenon, <1>3, ListTyped
<1> QED
  BY Zenon, <1>5, <1>6, FreedTyped

(* It gives up those of the space that it built. *)
LEMMA FreeInNew ==
  ASSUME Ind, NEW p \in Task, NEW d \in DirType, NEW E \in SUBSET Entry, Cleared(d.page, new[p], E),
         freelist' = kfree(freelist, new[p], E),
         new' = [new EXCEPT ![p] = d], dir' = dir
  PROVE  freelist' \in [Page -> Nat] /\ Parted(freelist', Spaces(dir', new'))
<1> DEFINE f == Spaces(dir, new)
           s == <<p, "new">>
<1>1. Parted(freelist, f) /\ f \in Layout /\ dir \in [Task -> DirType] /\ new \in [Task -> DirType]
  BY Zenon, IndAt
<1>2. s \in Space /\ In(f, s, new[p])
  BY Zenon, NewAt
<1>3. Parted(freelist', Upd(f, s, d.page))
  BY Zenon, <1>1, <1>2, FreeParted
<1>4. Upd(f, s, d.page) = Spaces(dir, [new EXCEPT ![p] = d])
  BY ZenonT(30), <1>1, NewChanges
<1>5. Parted(freelist', Spaces(dir', new'))
  BY Zenon, <1>3, <1>4
<1>6. \A x \in Page : freelist'[x] \in Nat
  BY Zenon, <1>3, ListTyped
<1> QED
  BY Zenon, <1>5, <1>6, FreedTyped

(* A page more for the process. *)
LEMMA AllocInDir ==
  ASSUME Ind, NEW p \in Task, NEW v \in VPage, v \notin Present(dir[p]), Enough(freelist, dir[p], v), NEW d \in DirType,
         d.page = AllocPage(freelist, dir[p], v).page, freelist' = Taken(freelist, dir[p], v),
         dir' = [dir EXCEPT ![p] = d], new' = new
  PROVE  freelist' \in [Page -> Nat] /\ Parted(freelist', Spaces(dir', new'))
<1> DEFINE f == Spaces(dir, new)
           s == <<p, "dir">>
<1>1. Parted(freelist, f) /\ f \in Layout /\ dir \in [Task -> DirType] /\ new \in [Task -> DirType]
  BY Zenon, IndAt
<1>2. s \in Space /\ In(f, s, dir[p])
  BY Zenon, DirAt
<1>3. Vacant(dir[p], Pte(v))
  BY Zenon DEF Vacant, Present
<1>4. Parted(freelist', Upd(f, s, d.page))
  BY Zenon, <1>1, <1>2, <1>3, AllocParted
<1>5. Upd(f, s, d.page) = Spaces([dir EXCEPT ![p] = d], new)
  BY ZenonT(30), <1>1, DirChanges
<1>6. Parted(freelist', Spaces(dir', new'))
  BY Zenon, <1>4, <1>5
<1>7. \A x \in Page : freelist'[x] \in Nat
  BY Zenon, <1>4, ListTyped
<1> QED
  BY Zenon, <1>6, <1>7, WithoutTyped DEF Taken

(* A page more for what it builds. *)
LEMMA AllocInNew ==
  ASSUME Ind, NEW p \in Task, NEW v \in VPage, v \notin Present(new[p]), Enough(freelist, new[p], v), NEW d \in DirType,
         d.page = AllocPage(freelist, new[p], v).page, freelist' = Taken(freelist, new[p], v),
         new' = [new EXCEPT ![p] = d], dir' = dir
  PROVE  freelist' \in [Page -> Nat] /\ Parted(freelist', Spaces(dir', new'))
<1> DEFINE f == Spaces(dir, new)
           s == <<p, "new">>
<1>1. Parted(freelist, f) /\ f \in Layout /\ dir \in [Task -> DirType] /\ new \in [Task -> DirType]
  BY Zenon, IndAt
<1>2. s \in Space /\ In(f, s, new[p])
  BY Zenon, NewAt
<1>3. Vacant(new[p], Pte(v))
  BY Zenon DEF Vacant, Present
<1>4. Parted(freelist', Upd(f, s, d.page))
  BY Zenon, <1>1, <1>2, <1>3, AllocParted
<1>5. Upd(f, s, d.page) = Spaces(dir, [new EXCEPT ![p] = d])
  BY ZenonT(30), <1>1, NewChanges
<1>6. Parted(freelist', Spaces(dir', new'))
  BY Zenon, <1>4, <1>5
<1>7. \A x \in Page : freelist'[x] \in Nat
  BY Zenon, <1>4, ListTyped
<1> QED
  BY Zenon, <1>6, <1>7, WithoutTyped DEF Taken

(* The start of a new space. *)
LEMMA SetupInNew ==
  ASSUME Ind, NEW p \in Task, new[p] = NoDir, CanSetup(freelist), NEW d \in DirType,
         d = setupkvm(freelist), freelist' = Setup(freelist),
         new' = [new EXCEPT ![p] = d], dir' = dir
  PROVE  freelist' \in [Page -> Nat] /\ Parted(freelist', Spaces(dir', new'))
<1> DEFINE f == Spaces(dir, new)
           s == <<p, "new">>
<1>1. Parted(freelist, f) /\ f \in Layout /\ dir \in [Task -> DirType] /\ new \in [Task -> DirType]
  BY Zenon, IndAt
<1>2. s \in Space /\ In(f, s, new[p])
  BY Zenon, NewAt
<1>3. Parted(freelist', Upd(f, s, d.page))
  BY Zenon, <1>1, <1>2, SetupParted
<1>4. Upd(f, s, d.page) = Spaces(dir, [new EXCEPT ![p] = d])
  BY ZenonT(30), <1>1, NewChanges
<1>5. Parted(freelist', Spaces(dir', new'))
  BY Zenon, <1>3, <1>4
<1>6. \A x \in Page : freelist'[x] \in Nat
  BY Zenon, <1>3, ListTyped
<1> QED
  BY Zenon, <1>5, <1>6, WithoutTyped DEF Setup

(* What is left of a space that is cut to fewer pages. *)
LEMMA Cut ==
  ASSUME NEW m \in Nat, NEW n \in Nat, m <= n
  PROVE  /\ Below(n) \ Below(m) \in SUBSET VPage
         /\ Below(n) \ (Below(n) \ Below(m)) = Below(m)
<1>1. Below(m) \subseteq Below(n)
  BY Zenon, Monotone, BelowGrows
<1>2. Below(n) \subseteq VPage
  BY Zenon DEF Below
<1> QED
  BY Zenon, <1>1, <1>2

(* The directory e that is left of d without the pages V, in a space of    *)
(* size z.                                                                 *)
Shrunk(e, d, V, z) ==
  /\ e \in DirType /\ e.guard = d.guard \ V /\ e.lost \subseteq Below(z) /\ Present(e) = Below(z) \ e.lost
  /\ Ptes(V) \in SUBSET Entry /\ Cleared(e.page, d, Ptes(V))

(* So sbrk leaves it with a smaller size, *)
LEMMA ShrunkDir ==
  ASSUME NEW d \in DirType, NEW m \in Nat, NEW n \in Nat, m <= n,
         d.lost \subseteq Below(n), Present(d) = Below(n) \ d.lost
  PROVE  Shrunk(Left(d, Below(n) \ Below(m)), d, Below(n) \ Below(m), m)
<1> DEFINE V == Below(n) \ Below(m)
           e == Left(d, V)
<1>1. V \in SUBSET VPage /\ Below(n) \ V = Below(m)
  BY Zenon, Cut
<1> HIDE DEF V
<1>2. /\ e \in DirType /\ e.guard = d.guard \ V /\ e.lost = d.lost \ V /\ Present(e) = Present(d) \ V
      /\ Ptes(V) \in SUBSET Entry /\ Cleared(e.page, d, Ptes(V))
  BY Zenon, <1>1, LeftDir
<1> HIDE DEF e
<1>3. e.lost \subseteq Below(m)
  BY Zenon, <1>1, <1>2
<1>4. Present(e) = Below(m) \ e.lost
  BY Zenon, <1>1, <1>2
<1> QED
  BY Zenon, <1>2, <1>3, <1>4 DEF Shrunk, V, e

(* and with size 0. *)
LEMMA EmptiedDir ==
  ASSUME NEW d \in DirType, NEW n \in Nat, Present(d) = Below(n) \ d.lost
  PROVE  Shrunk(Emptied(d, n), d, Below(n), n)
<1> DEFINE V == Below(n)
           l == Left(d, V)
           e == Dir(l.page, l.guard, V)
<1>1. V \in SUBSET VPage
  BY Zenon DEF Below
<1>2. /\ l \in DirType /\ l.guard = d.guard \ V /\ Present(l) = Present(d) \ V
      /\ Ptes(V) \in SUBSET Entry /\ Cleared(l.page, d, Ptes(V))
  BY Zenon, <1>1, LeftDir
<1>3. Emptied(d, n) = e
  BY Zenon DEF Emptied
<1>4. l \in DirType /\ l.guard \in SUBSET VPage
  BY Zenon, <1>2, DirParts
<1> HIDE DEF l, V
<1>5. e \in DirType /\ e.page = l.page /\ e.guard = l.guard /\ e.lost = V /\ Present(e) = Present(l)
  BY ZenonT(30), <1>1, <1>4, Reflagged
<1> HIDE DEF e
<1>6. Present(e) = V \ e.lost /\ e.lost \subseteq V
  BY Zenon, <1>2, <1>5 DEF V
<1>7. Shrunk(e, d, V, n)
  BY Zenon, <1>2, <1>5, <1>6 DEF Shrunk, V
<1> QED
  BY Zenon, <1>3, <1>7 DEF V

(* sbrk with a smaller size keeps the invariant. *)
LEMMA ShrinkSteps ==
  ASSUME Ind, NEW p \in Task, NEW n \in Growth, sbrk_shrink(p, n)
  PROVE  Ind'
<1> DEFINE newsz == (sz[p] + n) % VMUINT
           V  == Below(sz[p]) \ Below(newsz)
           d  == IF newsz # 0 THEN Left(dir[p], V) ELSE Emptied(dir[p], sz[p])
           z  == IF newsz # 0 THEN newsz ELSE sz[p]
           st == IF stack[p] - 1 \in Below(newsz) THEN stack[p] ELSE 0
<1>1. /\ VmTypeOK /\ Owns(alive[p], call[p], dir[p], sz[p], stack[p])
      /\ Builds(call[p], dir[p], new[p], nsz[p], todo[p], sz[p])
  BY Zenon, IndAt
<1>2. Typed(alive[p], call[p], dir[p], new[p], nsz[p], todo[p], sz[p], stack[p], child[p], args[p])
  BY Zenon, <1>1, Values
<1>3. alive[p] /\ call[p] = ""
  BY Zenon DEF sbrk_shrink, AtUser
<1>4. newsz < sz[p]
  BY Zenon DEF sbrk_shrink
<1>5. newsz \in Int /\ 0 <= newsz /\ sz[p] \in 0 .. KERNBASE - 1 /\ KERNBASE \in Nat
  <2>1. sz[p] \in 0 .. KERNBASE - 1 /\ n \in Int /\ VMUINT \in Nat \ {0} /\ KERNBASE \in Nat
    BY <1>2, VmAssumption DEF Typed
  <2>2. sz[p] + n \in Int
    BY <2>1
  <2> QED
    BY ZenonT(30), <2>1, <2>2, Divide
<1>6. /\ dir' = [dir EXCEPT ![p] = d] /\ freelist' = kfree(freelist, dir[p], Ptes(V))
      /\ new' = new /\ sz' = [sz EXCEPT ![p] = z]
  BY Zenon, <1>1, Old DEF sbrk_shrink, callVars
<1>7. Sets(p, alive[p], call[p], d, new[p], nsz[p], todo[p], z, st, child[p], args[p])
  BY Zenon, <1>1, <1>6, Old DEF sbrk_shrink, Sets, callVars
<1> HIDE DEF newsz
<1>8. newsz \in Nat /\ newsz <= sz[p] /\ newsz \in 0 .. KERNBASE - 1 /\ sz[p] \in Nat
  BY SMTT(20), <1>4, <1>5
<1>9. V \in SUBSET VPage /\ Below(sz[p]) \ V = Below(newsz)
  BY ZenonT(30), <1>1, <1>8, Cut
<1>10. dir[p] \in DirType /\ stack[p] \in Nat
  BY Zenon, <1>2 DEF Typed
<1>11. Shrunk(d, dir[p], V, z)
  <2>1. dir[p].lost \subseteq Below(sz[p]) /\ Present(dir[p]) = Below(sz[p]) \ dir[p].lost
    BY Zenon, <1>1, <1>3 DEF Owns
  <2>2. CASE newsz # 0
    <3>1. Shrunk(Left(dir[p], V), dir[p], V, newsz)
      BY Zenon, <1>8, <1>10, <2>1, ShrunkDir
    <3>2. d = Left(dir[p], V) /\ z = newsz
      BY Zenon, <2>2
    <3> HIDE DEF d, z, V
    <3> QED
      BY Zenon, <3>1, <3>2
  <2>3. CASE newsz = 0
    <3>1. Shrunk(Emptied(dir[p], sz[p]), dir[p], Below(sz[p]), sz[p])
      BY Zenon, <1>8, <1>10, <2>1, EmptiedDir
    <3>2. d = Emptied(dir[p], sz[p]) /\ z = sz[p] /\ V = Below(sz[p])
      BY Zenon, <2>3, NoPages
    <3> HIDE DEF d, z, V
    <3> QED
      BY Zenon, <3>1, <3>2
  <2> QED
    BY Zenon, <2>2, <2>3
<1>12. z \in 0 .. KERNBASE - 1 /\ Below(newsz) \subseteq Below(z)
  BY ZenonT(30), <1>5, <1>8, Monotone, BelowGrows
<1>13. st \in Nat /\ (st # 0 => st - 1 \in Below(newsz))
  <2>1. 0 \in Nat
    OBVIOUS
  <2> QED
    BY Zenon, <1>10, <2>1
<1>14. d.guard = IF st = 0 THEN {} ELSE {st - 1}
  <2>1. dir[p].guard = IF stack[p] = 0 THEN {} ELSE {stack[p] - 1}
    BY Zenon, <1>1, <1>3 DEF Owns
  <2>2. stack[p] # 0 => stack[p] - 1 \in Below(sz[p])
    BY Zenon, <1>1 DEF Owns
  <2>3. CASE stack[p] = 0
    BY Zenon, <1>11, <2>1, <2>3 DEF Shrunk
  <2>4. CASE stack[p] # 0 /\ stack[p] - 1 \in Below(newsz)
    BY ZenonT(30), <1>11, <2>1, <2>4 DEF Shrunk
  <2>5. CASE stack[p] # 0 /\ stack[p] - 1 \notin Below(newsz)
    BY ZenonT(30), <1>11, <2>1, <2>2, <2>5 DEF Shrunk
  <2> QED
    BY Zenon, <2>3, <2>4, <2>5
<1> HIDE DEF d, z, st, V
<1>15. Typed(alive[p], call[p], d, new[p], nsz[p], todo[p], z, st, child[p], args[p])
  BY ZenonT(30), <1>2, <1>11, <1>12, <1>13 DEF Typed, Shrunk
<1>16. Owns(alive[p], call[p], d, z, st)
  BY ZenonT(30), <1>3, <1>11, <1>12, <1>13, <1>14 DEF Owns, Shrunk
<1>17. Builds(call[p], d, new[p], nsz[p], todo[p], z)
  BY Zenon, <1>1, <1>3 DEF Builds
<1>18. freelist' \in [Page -> Nat] /\ Parted(freelist', Spaces(dir', new'))
  BY Zenon, <1>6, <1>11, FreeInDir DEF Shrunk
<1>19. call[p] # "fork"
  BY Zenon, <1>3
<1> QED
  BY ZenonT(30), <1>3, <1>7, <1>15, <1>16, <1>17, <1>18, <1>19, Moves

-----------------------------------------------------------------------------
(* A call that is over. *)
LEMMA Returns ==
  ASSUME VmTypeOK, NEW p \in Task, Done(p)
  PROVE  /\ call' = [call EXCEPT ![p] = ""] /\ new' = [new EXCEPT ![p] = NoDir]
         /\ nsz' = [nsz EXCEPT ![p] = 0] /\ todo' = [todo EXCEPT ![p] = <<>>]
         /\ child' = [child EXCEPT ![p] = firstTask] /\ args' = [args EXCEPT ![p] = 0]
BY Zenon DEF Done

(* What then is left fits. *)
LEMMA Idle ==
  ASSUME NEW al \in BOOLEAN, NEW d \in DirType, NEW z \in 0 .. KERNBASE - 1, NEW st \in Nat
  PROVE  Typed(al, "", d, NoDir, 0, <<>>, z, st, firstTask, 0) /\ Builds("", d, NoDir, 0, <<>>, z)
<1>1. 0 \in 0 .. KERNBASE /\ <<>> \in Seq(Nat) /\ firstTask \in Task /\ 0 \in Nat
  BY VmAssumption
<1> QED
  BY Zenon, <1>1, NoDirType DEF Typed, Calls, Builds

(* What p's part of the invariant says in allocuvm for growproc. *)
LEMMA InSbrk ==
  ASSUME Ind, NEW p \in Task, call[p] = "sbrk"
  PROVE  /\ alive[p] /\ new[p] = NoDir /\ todo[p] \in Seq(Nat) /\ todo[p] # <<>>
         /\ Head(todo[p]) \in Nat /\ Head(todo[p]) < KERNBASE
         /\ nsz[p] \in Nat /\ sz[p] \in Nat /\ dir[p] \in DirType
         /\ Present(dir[p]) = Below(nsz[p]) \ dir[p].lost /\ dir[p].lost \subseteq Below(sz[p])
         /\ PGROUNDUP(sz[p]) <= PGROUNDUP(nsz[p]) /\ PGROUNDUP(nsz[p]) <= PGROUNDUP(Head(todo[p]))
<1>1. /\ VmTypeOK /\ Owns(alive[p], call[p], dir[p], sz[p], stack[p])
      /\ Builds(call[p], dir[p], new[p], nsz[p], todo[p], sz[p])
  BY Zenon, IndAt
<1>2. Typed(alive[p], call[p], dir[p], new[p], nsz[p], todo[p], sz[p], stack[p], child[p], args[p])
  BY Zenon, <1>1, Values
<1>3. Grows(dir[p], nsz[p], todo[p], sz[p]) /\ new[p] = NoDir
  BY Zenon, <1>1 DEF Builds
<1>4. call[p] # ""
  OBVIOUS
<1>5. alive[p]
  BY Zenon, <1>1, <1>2, <1>4, InCall DEF Typed
<1>6. nsz[p] \in 0 .. KERNBASE /\ sz[p] \in 0 .. KERNBASE - 1 /\ todo[p] \in Seq(Nat) /\ dir[p] \in DirType
  BY Zenon, <1>2 DEF Typed
<1>7. nsz[p] \in Nat /\ sz[p] \in Nat
  BY Zenon, <1>6, Sizes, SizesBelow
<1>8. todo[p] # <<>>
  BY Zenon, <1>3 DEF Grows
<1>9. Head(todo[p]) \in Nat
  BY SMTT(20), <1>6, <1>8
<1> QED
  BY Zenon, <1>1, <1>3, <1>5, <1>6, <1>7, <1>8, <1>9 DEF Grows, Owns

(* allocuvm has come to the new size. *)
LEMMA GrowEnds ==
  ASSUME Ind, NEW p \in Task, call[p] = "sbrk", PGROUNDUP(nsz[p]) >= PGROUNDUP(Head(todo[p])),
         sz' = [sz EXCEPT ![p] = Head(todo[p])], Done(p), UNCHANGED <<freelist, dir>>, UNCHANGED <<alive, stack>>
  PROVE  Ind'
<1> DEFINE newsz == Head(todo[p])
<1>1. /\ VmTypeOK /\ Owns(alive[p], call[p], dir[p], sz[p], stack[p])
      /\ new \in [Task -> DirType]
  BY Zenon, IndAt
<1>2. Typed(alive[p], call[p], dir[p], new[p], nsz[p], todo[p], sz[p], stack[p], child[p], args[p])
  BY Zenon, <1>1, Values
<1>3. /\ newsz \in Nat /\ newsz < KERNBASE /\ nsz[p] \in Nat
      /\ Present(dir[p]) = Below(nsz[p]) \ dir[p].lost /\ dir[p].lost \subseteq Below(sz[p])
      /\ PGROUNDUP(sz[p]) <= PGROUNDUP(nsz[p]) /\ PGROUNDUP(nsz[p]) <= PGROUNDUP(newsz)
      /\ sz[p] \in Nat
  BY Zenon, InSbrk
<1>4. alive[p] /\ new[p] = NoDir
  BY Zenon, InSbrk
<1>5. Sets(p, alive[p], "", dir[p], NoDir, 0, <<>>, newsz, stack[p], firstTask, 0)
  BY Zenon, <1>1, Returns, Old DEF Sets
<1> HIDE DEF newsz
<1>6. PGROUNDUP(newsz) \in Nat /\ PGROUNDUP(nsz[p]) \in Nat /\ PGROUNDUP(sz[p]) \in Nat
  BY Zenon, <1>3, Rounding
<1>7. PGROUNDUP(nsz[p]) = PGROUNDUP(newsz) /\ PGROUNDUP(sz[p]) <= PGROUNDUP(newsz)
  BY SMTT(20), <1>3, <1>6 DEF newsz
<1>8. Below(nsz[p]) = Below(newsz)
  BY Zenon, <1>7 DEF Below
<1>9. Below(sz[p]) \subseteq Below(newsz)
  BY Zenon, <1>3, <1>7, BelowGrows
<1>10. newsz \in 0 .. KERNBASE - 1
  BY Zenon, <1>3, SizeFits
<1>11. Owns(alive[p], "", dir[p], newsz, stack[p])
  BY Zenon, <1>1, <1>3, <1>4, <1>8, <1>9 DEF Owns
<1>12. /\ Typed(alive[p], "", dir[p], NoDir, 0, <<>>, newsz, stack[p], firstTask, 0)
       /\ Builds("", dir[p], NoDir, 0, <<>>, newsz)
  BY ZenonT(30), <1>2, <1>10, Idle DEF Typed
<1>13. new' = new
  BY ZenonT(30), <1>1, <1>4, Old, Returns
<1>14. freelist' \in [Page -> Nat] /\ Parted(freelist', Spaces(dir', new'))
  BY Zenon, <1>13, NothingMoved
<1> QED
  BY ZenonT(30), <1>4, <1>5, <1>11, <1>12, <1>14, Moves

(* allocuvm takes a page. *)
LEMMA GrowTakes ==
  ASSUME Ind, NEW p \in Task, call[p] = "sbrk", NEW v, v = PGROUNDUP(nsz[p]), v < PGROUNDUP(Head(todo[p])),
         Enough(freelist, dir[p], v), dir' = [dir EXCEPT ![p] = AllocPage(freelist, dir[p], v)],
         nsz' = [nsz EXCEPT ![p] = (v + 1) * PGSIZE], freelist' = Taken(freelist, dir[p], v),
         UNCHANGED <<sz, call, new, todo, child, args>>, UNCHANGED <<alive, stack>>
  PROVE  Ind'
<1> DEFINE newsz == Head(todo[p])
           ns == (v + 1) * PGSIZE
           d  == AllocPage(freelist, dir[p], v)
<1>1. VmTypeOK /\ Owns(alive[p], call[p], dir[p], sz[p], stack[p])
  BY Zenon, IndAt
<1>2. Typed(alive[p], call[p], dir[p], new[p], nsz[p], todo[p], sz[p], stack[p], child[p], args[p])
  BY Zenon, <1>1, Values
<1>3. /\ newsz \in Nat /\ newsz < KERNBASE /\ nsz[p] \in Nat
      /\ Present(dir[p]) = Below(nsz[p]) \ dir[p].lost /\ dir[p].lost \subseteq Below(sz[p])
      /\ PGROUNDUP(sz[p]) <= PGROUNDUP(nsz[p]) /\ sz[p] \in Nat /\ dir[p] \in DirType
  BY Zenon, InSbrk
<1>4. alive[p] /\ new[p] = NoDir /\ todo[p] # <<>>
  BY Zenon, InSbrk
<1>5. Sets(p, alive[p], call[p], d, new[p], ns, todo[p], sz[p], stack[p], child[p], args[p])
  BY Zenon, <1>1, Old DEF Sets
<1>6. newsz <= KERNBASE
  BY Zenon, <1>3, SizeFits
<1>7. /\ v \in VPage /\ v \notin Below(nsz[p]) /\ ns \in 0 .. KERNBASE /\ PGROUNDUP(ns) = v + 1
      /\ PGROUNDUP(ns) <= PGROUNDUP(newsz) /\ Below(ns) = Below(nsz[p]) \cup {v}
  BY ZenonT(30), <1>3, <1>6, NextPage
<1> HIDE DEF newsz, ns
<1>8. PGROUNDUP(sz[p]) <= PGROUNDUP(ns)
  <2>1. PGROUNDUP(sz[p]) \in Nat /\ v \in Nat
    BY Zenon, <1>3, Rounding
  <2>2. PGROUNDUP(sz[p]) <= v /\ PGROUNDUP(ns) = v + 1
    BY Zenon, <1>3, <1>7
  <2>3. \A a, b \in Nat : a <= b => a <= b + 1
    OBVIOUS
  <2> QED
    BY Zenon, <2>1, <2>2, <2>3
<1>9. /\ d \in DirType /\ d.guard = dir[p].guard /\ d.lost = dir[p].lost
      /\ Present(d) = Present(dir[p]) \cup {v}
  <2>1. OneMore(d, dir[p], v)
    BY Zenon, <1>3, <1>7, AllocDir
  <2> QED
    BY Zenon, <2>1 DEF OneMore
<1>10. v \notin Present(dir[p])
  BY Zenon, <1>3, <1>7
<1>11. freelist' \in [Page -> Nat] /\ Parted(freelist', Spaces(dir', new'))
  BY ZenonT(30), <1>7, <1>9, <1>10, AllocInDir
<1> HIDE DEF d
<1>12. Typed(alive[p], call[p], d, new[p], ns, todo[p], sz[p], stack[p], child[p], args[p])
  BY ZenonT(30), <1>2, <1>7, <1>9 DEF Typed
<1>13. Owns(alive[p], call[p], d, sz[p], stack[p])
  BY ZenonT(30), <1>1, <1>4, <1>9 DEF Owns
<1>14. Grows(d, ns, todo[p], sz[p])
  <2>1. Below(sz[p]) \subseteq Below(nsz[p])
    BY Zenon, <1>3, BelowGrows
  <2>2. v \notin dir[p].lost
    BY Zenon, <1>3, <1>7, <2>1
  <2>3. Present(d) = Below(ns) \ d.lost
    BY ZenonT(30), <1>3, <1>7, <1>9, <2>2
  <2> QED
    BY ZenonT(30), <1>3, <1>4, <1>7, <1>8, <2>3 DEF Grows, newsz
<1>15. Builds(call[p], d, new[p], ns, todo[p], sz[p])
  BY Zenon, <1>4, <1>14 DEF Builds
<1> QED
  BY ZenonT(30), <1>4, <1>5, <1>11, <1>12, <1>13, <1>15, Moves

(* A page that could not be mapped is given back. *)
LEMMA ShortSame ==
  ASSUME NEW fr
  PROVE  Short(fr) = fr
BY Zenon DEF Short, Unmapped

(* What grew is taken back. *)
LEMMA Regrown ==
  ASSUME NEW z \in Nat, NEW ns \in Nat, NEW m \in Nat, PGROUNDUP(z) <= PGROUNDUP(ns),
         PGROUNDUP(ns) <= PGROUNDUP(m)
  PROVE  Below(m) \ Below(z) \in SUBSET VPage /\ Below(ns) \ (Below(m) \ Below(z)) = Below(z)
<1>1. Below(z) \subseteq Below(ns) /\ Below(ns) \subseteq Below(m)
  BY Zenon, BelowGrows
<1>2. Below(m) \subseteq VPage
  BY Zenon DEF Below
<1> QED
  BY Zenon, <1>1, <1>2

(* allocuvm finds no page, and deallocuvm undoes its work. *)
LEMMA GrowFails ==
  ASSUME Ind, NEW p \in Task, call[p] = "sbrk", NEW V, V = Below(Head(todo[p])) \ Below(sz[p]),
         dir' = [dir EXCEPT ![p] = Left(dir[p], V)], freelist' = kfree(Short(freelist), dir[p], Ptes(V)),
         Done(p), UNCHANGED sz, UNCHANGED <<alive, stack>>
  PROVE  Ind'
<1> DEFINE newsz == Head(todo[p])
           d == Left(dir[p], V)
<1>1. VmTypeOK /\ Owns(alive[p], call[p], dir[p], sz[p], stack[p])
  BY Zenon, IndAt
<1>2. Typed(alive[p], call[p], dir[p], new[p], nsz[p], todo[p], sz[p], stack[p], child[p], args[p])
  BY Zenon, <1>1, Values
<1>3. /\ newsz \in Nat /\ nsz[p] \in Nat /\ sz[p] \in Nat
      /\ Present(dir[p]) = Below(nsz[p]) \ dir[p].lost /\ dir[p].lost \subseteq Below(sz[p])
      /\ PGROUNDUP(sz[p]) <= PGROUNDUP(nsz[p]) /\ PGROUNDUP(nsz[p]) <= PGROUNDUP(newsz)
      /\ dir[p] \in DirType
  BY Zenon, InSbrk
<1>4. alive[p] /\ new[p] = NoDir
  BY Zenon, InSbrk
<1>5. Sets(p, alive[p], "", d, NoDir, 0, <<>>, sz[p], stack[p], firstTask, 0)
  BY ZenonT(30), <1>1, Returns, Old DEF Sets
<1>6. V \in SUBSET VPage /\ Below(nsz[p]) \ V = Below(sz[p])
  <2>1. /\ newsz \in Nat /\ nsz[p] \in Nat /\ sz[p] \in Nat
        /\ PGROUNDUP(sz[p]) <= PGROUNDUP(nsz[p]) /\ PGROUNDUP(nsz[p]) <= PGROUNDUP(newsz)
    BY Zenon, <1>3
  <2> HIDE DEF newsz
  <2>2. /\ Below(newsz) \ Below(sz[p]) \in SUBSET VPage
        /\ Below(nsz[p]) \ (Below(newsz) \ Below(sz[p])) = Below(sz[p])
    BY Zenon, <2>1, Regrown
  <2>3. V = Below(newsz) \ Below(sz[p])
    BY Zenon DEF newsz
  <2> QED
    BY Zenon, <2>2, <2>3
<1>7. /\ d \in DirType /\ d.guard = dir[p].guard \ V /\ d.lost = dir[p].lost \ V
      /\ Present(d) = Present(dir[p]) \ V
      /\ Ptes(V) \in SUBSET Entry /\ Cleared(d.page, dir[p], Ptes(V))
  BY ZenonT(30), <1>3, <1>6, LeftDir
<1>8. Present(d) = Below(sz[p]) \ d.lost /\ d.lost \subseteq Below(sz[p])
  <2>1. d.lost = dir[p].lost
    BY Zenon, <1>3, <1>7
  <2> QED
    BY ZenonT(30), <1>3, <1>6, <1>7, <2>1
<1>9. dir[p].guard \subseteq Below(sz[p])
  BY Zenon, <1>1, <1>4 DEF Owns
<1>10. d.guard = dir[p].guard
  BY Zenon, <1>7, <1>9
<1>11. new' = new
  BY ZenonT(30), <1>1, <1>4, Old, Returns
<1>12. freelist' = kfree(freelist, dir[p], Ptes(V))
  BY Zenon, ShortSame
<1>13. freelist' \in [Page -> Nat] /\ Parted(freelist', Spaces(dir', new'))
  BY ZenonT(30), <1>7, <1>11, <1>12, FreeInDir
<1> HIDE DEF d
<1>14. Owns(alive[p], "", d, sz[p], stack[p])
  BY ZenonT(30), <1>1, <1>4, <1>8, <1>10 DEF Owns
<1>15. /\ Typed(alive[p], "", d, NoDir, 0, <<>>, sz[p], stack[p], firstTask, 0)
       /\ Builds("", d, NoDir, 0, <<>>, sz[p])
  BY ZenonT(30), <1>2, <1>7, Idle DEF Typed
<1> QED
  BY ZenonT(30), <1>4, <1>5, <1>13, <1>14, <1>15, Moves

(* One turn of allocuvm for growproc keeps the invariant. *)
LEMMA GrowSteps ==
  ASSUME Ind, NEW p \in Task, sbrk_page(p)
  PROVE  Ind'
<1> DEFINE newsz == Head(todo[p])
           v == PGROUNDUP(nsz[p])
           V == Below(newsz) \ Below(sz[p])
<1>1. call[p] = "sbrk" /\ UNCHANGED <<alive, stack>>
  BY Zenon DEF sbrk_page
<1>2. CASE /\ v >= PGROUNDUP(newsz) /\ sz' = [sz EXCEPT ![p] = newsz] /\ Done(p)
           /\ UNCHANGED <<freelist, dir>>
  BY Zenon, <1>1, <1>2, GrowEnds
<1>3. CASE /\ v < PGROUNDUP(newsz) /\ Enough(freelist, dir[p], v)
           /\ dir' = [dir EXCEPT ![p] = AllocPage(freelist, dir[p], v)]
           /\ nsz' = [nsz EXCEPT ![p] = (v + 1) * PGSIZE]
           /\ freelist' = Taken(freelist, dir[p], v)
           /\ UNCHANGED <<sz, call, new, todo, child, args>>
  BY Zenon, <1>1, <1>3, GrowTakes
<1>4. CASE /\ v < PGROUNDUP(newsz) /\ ~Enough(freelist, dir[p], v)
           /\ dir' = [dir EXCEPT ![p] = Left(dir[p], V)]
           /\ freelist' = kfree(Short(freelist), dir[p], Ptes(V))
           /\ Done(p) /\ UNCHANGED sz
  BY Zenon, <1>1, <1>4, GrowFails
<1> QED
  BY Zenon, <1>2, <1>3, <1>4 DEF sbrk_page

=============================================================================
