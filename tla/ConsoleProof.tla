---------------------------- MODULE ConsoleProof ----------------------------
(***************************************************************************)
(* The ring of console.c is a line discipline: the invariant of Console,   *)
(* the proof that Console implements LineInput, and that each end of file  *)
(* is seen, for every size of the ring, every width of its indices that the*)
(* size divides, and any number of processes.                              *)
(***************************************************************************)
EXTENDS Console, TLAPS

(* Remainders: counters that wrap where an unsigned int does, and index    *)
(* the ring modulo its size; and what it is to read the ring in two parts. *)

(* Division with remainder. *)
LEMMA Divide ==
  ASSUME NEW U \in Nat \ {0}, NEW x \in Int
  PROVE  /\ x = U * (x \div U) + (x % U) /\ x \div U \in Int /\ x % U \in Int
         /\ 0 <= x % U /\ x % U < U
BY SMTT(10)

(* There is one remainder. *)
LEMMA Remainder ==
  ASSUME NEW U \in Nat \ {0}, NEW x \in Int, NEW q \in Int, NEW r \in Int, 0 <= r, r < U, x = U * q + r
  PROVE  x % U = r
<1> DEFINE d == x \div U
           m == x % U
<1>1. d \in Int /\ m \in Int /\ 0 <= m /\ m < U /\ U * d + m = U * q + r
  BY Divide
<1> HIDE DEF d, m
<1>2. U * (d - q) = r - m
  BY <1>1, SMTT(10)
<1>3. ~(d - q >= 1)
  <2> SUFFICES ASSUME d - q >= 1 PROVE FALSE
    OBVIOUS
  <2>1. U * (d - q) >= U * 1
    BY <1>1, SMTT(10)
  <2> QED
    BY <1>1, <1>2, <2>1
<1>4. ~(d - q <= -1)
  <2> SUFFICES ASSUME d - q <= -1 PROVE FALSE
    OBVIOUS
  <2>1. U * (d - q) <= U * (-1)
    BY <1>1, SMTT(10)
  <2> QED
    BY <1>1, <1>2, <2>1
<1>5. d = q
  BY <1>1, <1>3, <1>4
<1>6. m = r
  BY <1>1, <1>5
<1> QED
  BY <1>6 DEF m

(* One turn more or less makes no difference. *)
LEMMA Turns ==
  ASSUME NEW U \in Nat \ {0}, NEW r \in Int, 0 <= r, r < U
  PROVE  r % U = r /\ (r + U) % U = r /\ (r - U) % U = r
<1>1. r = U * 0 + r /\ r + U = U * 1 + r /\ r - U = U * (-1) + r
  OBVIOUS
<1>2. r + U \in Int /\ r - U \in Int /\ 0 \in Int /\ 1 \in Int /\ -1 \in Int
  OBVIOUS
<1> QED
  BY Zenon, <1>1, <1>2, Remainder

(* Nor do many. *)
LEMMA ManyTurns ==
  ASSUME NEW U \in Nat \ {0}, NEW x \in Int, NEW m \in Int
  PROVE  (x + U * m) % U = x % U
<1>1. PICK q \in Int, r \in Int : x = U * q + r /\ 0 <= r /\ r < U /\ r = x % U
  BY Divide
<1>2. x = U * q + r /\ 0 <= r /\ r < U
  BY Zenon, <1>1
<1>3. PICK y \in Int, n \in Int : y = x + U * m /\ n = q + m
  OBVIOUS
<1>4. y = U * n + r
  BY <1>2, <1>3
<1>5. y % U = r
  BY Zenon, <1>2, <1>4, Remainder
<1> QED
  BY Zenon, <1>1, <1>3, <1>5

Same(U, P, x, y) == ((x % U) + y) % P = (x + y) % P

(* A counter that has wrapped at U indexes an array of P, which divides U, *)
(* as if it had not.                                                       *)
LEMMA Wrapped ==
  ASSUME NEW U \in Nat \ {0}, NEW P \in Nat \ {0}, U % P = 0, NEW x \in Int, NEW y \in Int
  PROVE  Same(U, P, x, y)
<1>1. PICK m \in Int : U = P * m
  BY Divide
<1>2. PICK q \in Int, r \in Int : x = U * q + r /\ r = x % U
  BY Zenon, Divide
<1>3. x + y = (r + y) + P * (m * q)
  <2>1. x = U * q + r
    BY Zenon, <1>2
  <2> QED
    BY <1>1, <2>1, SMTT(10)
<1>4. m * q \in Int /\ r + y \in Int
  BY <1>1
<1>5. ((r + y) + P * (m * q)) % P = (r + y) % P
  BY Zenon, <1>4, ManyTurns
<1> QED
  BY Zenon, <1>2, <1>3, <1>5 DEF Same

(* Neighbours within one turn have places of their own. *)
LEMMA Distinct ==
  ASSUME NEW U \in Nat \ {0}, NEW x \in Int, NEW y \in Int, x < y, y < x + U
  PROVE  x % U # y % U
<1> SUFFICES ASSUME x % U = y % U PROVE FALSE
  OBVIOUS
<1>1. PICK a \in Int, r \in Int : x = U * a + r /\ r = x % U
  BY Zenon, Divide
<1>2. PICK b \in Int : y = U * b + (y % U)
  BY Zenon, Divide
<1>3. x = U * a + r /\ y = U * b + r
  BY Zenon, <1>1, <1>2
<1>4. y - x = U * (b - a)
  BY <1>3, SMTT(10)
<1>5. CASE b - a >= 1
  <2>1. U * (b - a) >= U * 1
    BY <1>5, SMTT(10)
  <2> QED
    BY <1>4, <2>1
<1>6. CASE b - a <= 0
  <2>1. U * (b - a) <= 0
    BY <1>6, SMTT(10)
  <2> QED
    BY <1>4, <2>1
<1> QED
  BY <1>5, <1>6

(* A function on the places of a sequence, with its values, is the sequence*)
LEMMA Listed ==
  ASSUME NEW B, NEW s \in Seq(B), NEW D, D = [k \in 1 .. Len(s) |-> D[k]],
         \A k \in 1 .. Len(s) : D[k] = s[k]
  PROVE  D = s
<1>1. s = [k \in 1 .. Len(s) |-> s[k]]
  OBVIOUS
<1> QED
  BY Zenon, <1>1

(* D holds what C holds, which has c elements, and then what t holds. *)
Extends(B, c, C, D, t) ==
  /\ c \in Nat /\ t \in Seq(B)
  /\ C = [i \in 1 .. c |-> C[i]] /\ \A i \in 1 .. c : C[i] \in B
  /\ D = [i \in 1 .. c + Len(t) |-> D[i]]
  /\ \A i \in 1 .. c : D[i] = C[i]
  /\ \A m \in 1 .. Len(t) : D[c + m] = t[m]

(* Then D is their concatenation. *)
LEMMA Joined ==
  ASSUME NEW B, NEW c, NEW C, NEW D, NEW t, Extends(B, c, C, D, t)
  PROVE  D = C \o t
<1> USE DEF Extends
<1>1. C \in Seq(B) /\ Len(C) = c
  BY SMTT(60)
<1>2. \A i \in 1 .. c + Len(t) : D[i] = IF i <= c THEN C[i] ELSE t[i - c]
  <2> SUFFICES ASSUME NEW i \in 1 .. c + Len(t) PROVE D[i] = IF i <= c THEN C[i] ELSE t[i - c]
    OBVIOUS
  <2>1. CASE i <= c
    BY SMTT(60), <2>1
  <2>2. CASE ~(i <= c)
    <3>1. i - c \in 1 .. Len(t) /\ i = c + (i - c)
      BY <2>2
    <3> QED
      BY Zenon, <2>2, <3>1
  <2> QED
    BY <2>1, <2>2
<1> DEFINE Q == C \o t
<1>3. /\ Q \in Seq(B) /\ Len(Q) = c + Len(t)
      /\ \A i \in 1 .. c + Len(t) : Q[i] = IF i <= c THEN C[i] ELSE t[i - c]
  BY <1>1
<1> HIDE DEF Q
<1>4. D = [i \in 1 .. Len(Q) |-> D[i]] /\ \A i \in 1 .. Len(Q) : D[i] = Q[i]
  BY Zenon, <1>2, <1>3
<1>5. D = Q
  BY ZenonT(30), <1>3, <1>4, Listed
<1> QED
  BY SMTT(20), <1>5 DEF Q

-----------------------------------------------------------------------------

(* The size of the ring and the width of its indices. *)
LEMMA Sizes ==
  /\ UINT \in Nat \ {0} /\ INPUT_BUF \in Nat \ {0} /\ INPUT_BUF < UINT
  /\ UINT % INPUT_BUF = 0 /\ UINT % UINT = 0 /\ 0 \in Index /\ 1 \in Index
<1>1. UINT \in Nat \ {0} /\ INPUT_BUF \in Nat \ {0} /\ INPUT_BUF < UINT /\ UINT % INPUT_BUF = 0
  BY ConsoleAssumption
<1>2. 0 + UINT = UINT /\ 0 \in Int /\ 0 <= 0 /\ 0 < UINT
  BY <1>1
<1>3. (0 + UINT) % UINT = 0
  BY Zenon, <1>1, <1>2, Turns
<1> QED
  BY <1>1, <1>2, <1>3 DEF Index

(* The same without the remainders. *)
LEMMA Bounds ==
  /\ UINT \in Nat /\ INPUT_BUF \in Nat /\ 0 < INPUT_BUF /\ INPUT_BUF < UINT
  /\ \A i : i \in Index <=> i \in Int /\ 0 <= i /\ i < UINT
BY ConsoleAssumption DEF Index

(* An index moved along its ring. *)
LEMMA Along ==
  ASSUME NEW i \in Int, NEW a \in Int
  PROVE  Plus(i, a) \in Index /\ Plus(i, a) \in Int
<1>1. PICK x \in Int : x = i + a
  OBVIOUS
<1>2. x % UINT \in Int /\ 0 <= x % UINT /\ x % UINT < UINT
  BY Zenon, Sizes, Divide
<1> QED
  BY Zenon, <1>1, <1>2, Bounds DEF Plus

(* In one step or in two. *)
LEMMA Twice ==
  ASSUME NEW i \in Int, NEW a \in Int, NEW b \in Int
  PROVE  Plus(Plus(i, a), b) = Plus(i, a + b)
<1>1. PICK x \in Int : x = i + a
  OBVIOUS
<1>2. Same(UINT, UINT, x, b)
  BY Zenon, Sizes, Wrapped
<1>3. x + b = i + (a + b)
  BY <1>1
<1> QED
  BY Zenon, <1>1, <1>2, <1>3 DEF Same, Plus

(* Nowhere to go. *)
LEMMA Still ==
  ASSUME NEW i \in Index
  PROVE  i \in Int /\ Plus(i, 0) = i
<1>1. i \in Int /\ 0 <= i /\ i < UINT /\ i + 0 = i
  BY Bounds
<1>2. i % UINT = i
  BY Zenon, <1>1, Sizes, Turns
<1> QED
  BY Zenon, <1>1, <1>2 DEF Plus

(* How far j is ahead of i, whichever of them has wrapped. *)
LEMMA Gap ==
  ASSUME NEW i \in Index, NEW j \in Index
  PROVE  /\ Between(i, j) \in Index /\ Between(i, j) \in Nat
         /\ j = Plus(i, Between(i, j)) /\ (Between(i, j) = 0 <=> i = j)
<1>1. i \in Int /\ j \in Int /\ 0 <= j /\ j < UINT
  BY Bounds
<1>2. PICK x \in Int : x = j - i
  BY <1>1
<1>3. x % UINT \in Int /\ 0 <= x % UINT /\ x % UINT < UINT
  BY Zenon, Sizes, Divide
<1>4. x % UINT \in Index /\ x % UINT \in Nat
  BY <1>3, Bounds
<1>5. Same(UINT, UINT, x, i)
  BY Zenon, <1>1, Sizes, Wrapped
<1>6. x + i = j /\ (x % UINT) + i = i + (x % UINT) /\ (i = j => x = 0)
  BY <1>1, <1>2, <1>3
<1>7. j % UINT = j /\ 0 % UINT = 0
  <2>1. 0 \in Int /\ 0 <= 0 /\ 0 < UINT
    BY Sizes
  <2> QED
    BY Zenon, <1>1, <2>1, Sizes, Turns
<1>8. j = Plus(i, x % UINT)
  BY Zenon, <1>5, <1>6, <1>7 DEF Same, Plus
<1>9. x % UINT = 0 <=> i = j
  BY Zenon, <1>6, <1>7, <1>8, Still
<1> QED
  BY Zenon, <1>2, <1>4, <1>8, <1>9 DEF Between

(* The way there, when it is shorter than a turn. *)
LEMMA Ahead ==
  ASSUME NEW i \in Index, NEW k \in Index
  PROVE  Between(i, Plus(i, k)) = k
<1>1. i \in Int /\ k \in Int /\ 0 <= k /\ k < UINT /\ -i \in Int
  BY Bounds
<1>2. PICK x \in Int : x = i + k
  BY <1>1
<1>3. Same(UINT, UINT, x, -i)
  BY Zenon, <1>1, Sizes, Wrapped
<1>4. x % UINT \in Int
  BY Zenon, Sizes, Divide
<1>5. x + (-i) = k /\ (x % UINT) + (-i) = (x % UINT) - i
  BY <1>1, <1>2, <1>4
<1>6. k % UINT = k
  BY Zenon, <1>1, Sizes, Turns
<1> QED
  BY Zenon, <1>2, <1>3, <1>5, <1>6 DEF Same, Plus, Between

(* The gap from i to j, cut m ahead of i. *)
LEMMA Cut ==
  ASSUME NEW i \in Index, NEW j \in Index, NEW m \in 0 .. Between(i, j)
  PROVE  /\ Plus(i, m) \in Index /\ Between(i, Plus(i, m)) = m
         /\ Between(Plus(i, m), j) = Between(i, j) - m
<1>1. PICK g \in Nat : g = Between(i, j) /\ g \in Index /\ j = Plus(i, g)
  BY Zenon, Gap
<1>2. PICK h \in Int : h = g - m
  BY <1>1
<1>3. m \in Index /\ m \in Int /\ h \in Index /\ m + h = g /\ i \in Int
  <2>1. m \in 0 .. g /\ g \in Index
    BY Zenon, <1>1
  <2>2. m \in Int /\ h \in Int /\ i \in Int /\ 0 <= m /\ m <= g /\ g < UINT /\ h = g - m
    BY <1>2, <2>1, Bounds
  <2>3. m + h = g /\ 0 <= h /\ h < UINT /\ m < UINT
    BY <2>2, Bounds
  <2> QED
    BY Zenon, <2>2, <2>3, Bounds
<1>4. Plus(i, m) \in Index /\ Plus(Plus(i, m), h) = Plus(i, m + h)
  BY ZenonT(30), <1>3, Along, Twice
<1>5. Between(Plus(i, m), Plus(Plus(i, m), h)) = h /\ Between(i, Plus(i, m)) = m
  BY Zenon, <1>3, <1>4, Ahead
<1> QED
  BY Zenon, <1>1, <1>2, <1>3, <1>4, <1>5

(* Two gaps that follow each other. *)
LEMMA Sum ==
  ASSUME NEW i \in Index, NEW j \in Index, NEW k \in Index, Between(i, j) + Between(j, k) < UINT
  PROVE  Between(i, k) = Between(i, j) + Between(j, k)
<1> DEFINE a == Between(i, j)
           b == Between(j, k)
<1>1. a \in Nat /\ b \in Nat /\ j = Plus(i, a) /\ k = Plus(j, b)
  BY Zenon, Gap
<1> HIDE DEF a, b
<1>2. a + b < UINT
  BY Zenon DEF a, b
<1>3. i \in Int /\ a \in Int /\ b \in Int /\ a + b \in Index
  BY <1>1, <1>2, Bounds
<1>4. Plus(Plus(i, a), b) = Plus(i, a + b)
  BY ZenonT(30), <1>3, Along, Twice
<1>5. Between(i, Plus(i, a + b)) = a + b
  BY Zenon, <1>3, Ahead
<1> QED
  BY Zenon, <1>1, <1>4, <1>5 DEF a, b

-----------------------------------------------------------------------------
(* Where the k-th character behind index i is kept; the characters between *)
(* two indices of a buffer.                                                *)
Place(i, k) == Plus(i, k - 1) % INPUT_BUF
Held(b, i, j) == [k \in 1 .. Between(i, j) |-> b[Place(i, k)]]
Buffer == [0 .. INPUT_BUF - 1 -> Char]

(* Nobody sees the indices wrap. *)
LEMMA Unwrapped ==
  ASSUME NEW i \in Int, NEW n \in Int
  PROVE  Place(i, n) = (i + n - 1) % INPUT_BUF
<1>1. PICK x \in Int : x = i + (n - 1)
  OBVIOUS
<1>2. 0 \in Int
  OBVIOUS
<1>3. Same(UINT, INPUT_BUF, x, 0)
  BY Zenon, <1>2, Sizes, Wrapped
<1>4. x % UINT \in Int
  BY Zenon, Sizes, Divide
<1>5. (x % UINT) + 0 = x % UINT /\ x + 0 = i + n - 1
  BY <1>1, <1>4
<1> QED
  BY Zenon, <1>1, <1>3, <1>5 DEF Same, Place, Plus

(* Places are in the ring. *)
LEMMA Inside ==
  ASSUME NEW i \in Int, NEW k \in Int
  PROVE  Place(i, k) \in 0 .. INPUT_BUF - 1
<1>1. PICK x \in Int : x = i + k - 1
  OBVIOUS
<1>2. x % INPUT_BUF \in Int /\ 0 <= x % INPUT_BUF /\ x % INPUT_BUF < INPUT_BUF
  BY Zenon, Sizes, Divide
<1>3. x % INPUT_BUF \in 0 .. INPUT_BUF - 1
  BY <1>2, Bounds
<1> QED
  BY Zenon, <1>1, <1>3, Unwrapped

(* They are counted from anywhere. *)
LEMMA Shifted ==
  ASSUME NEW i \in Int, NEW m \in Int, NEW k \in Int
  PROVE  Place(Plus(i, m), k) = Place(i, m + k)
<1>1. PICK d \in Int : d = k - 1
  OBVIOUS
<1>2. m + d = (m + k) - 1
  BY <1>1
<1>3. Plus(Plus(i, m), d) = Plus(i, m + d)
  BY ZenonT(30), Twice
<1> QED
  BY Zenon, <1>1, <1>2, <1>3 DEF Place

(* And two that are not a ring apart are different. *)
LEMMA Apart ==
  ASSUME NEW i \in Int, NEW k \in Int, NEW n \in Int, k < n, n < k + INPUT_BUF
  PROVE  Place(i, k) # Place(i, n)
<1>1. PICK x \in Int, y \in Int : x = i + k - 1 /\ y = i + n - 1
  OBVIOUS
<1>2. x < y /\ y < x + INPUT_BUF
  BY <1>1, Bounds
<1>3. x % INPUT_BUF # y % INPUT_BUF
  BY Zenon, <1>2, Sizes, Distinct
<1> QED
  BY ZenonT(30), <1>1, <1>3, Unwrapped

(* H has the n characters behind index i of b. *)
Lists(b, i, n, H) ==
  /\ H \in Seq(Char) /\ Len(H) = n /\ H = [k \in 1 .. n |-> H[k]]
  /\ \A k \in 1 .. n : H[k] = b[Place(i, k)] /\ H[k] \in Char

(* The characters between two indices are a sequence. *)
LEMMA Reads ==
  ASSUME NEW b \in Buffer, NEW i \in Index, NEW j \in Index, NEW n, n = Between(i, j)
  PROVE  Lists(b, i, n, Held(b, i, j))
<1> DEFINE H == Held(b, i, j)
<1>1. n \in Nat /\ i \in Int
  BY Zenon, Gap, Still
<1>2. \A k \in 1 .. n : b[Place(i, k)] \in Char
  <2>1. \A k \in 1 .. n : k \in Int
    OBVIOUS
  <2> QED
    BY Zenon, <1>1, <2>1, Inside DEF Buffer
<1>3. H = [k \in 1 .. n |-> b[Place(i, k)]]
  BY Zenon DEF Held
<1> HIDE DEF H
<1>4. H = [k \in 1 .. n |-> H[k]] /\ \A k \in 1 .. n : H[k] = b[Place(i, k)] /\ H[k] \in Char
  BY Zenon, <1>2, <1>3
<1>5. H \in Seq(Char) /\ Len(H) = n
  BY <1>1, <1>4
<1> QED
  BY Zenon, <1>4, <1>5 DEF H, Lists

(* Taken from their end. *)
LEMMA Prefix ==
  ASSUME NEW b \in Buffer, NEW i \in Index, NEW j \in Index, NEW m \in 0 .. Between(i, j)
  PROVE  Held(b, i, Plus(i, m)) = SubSeq(Held(b, i, j), 1, m)
<1> DEFINE H == Held(b, i, j)
           D == Held(b, i, Plus(i, m))
           Q == SubSeq(H, 1, m)
<1>1. Plus(i, m) \in Index /\ Between(i, Plus(i, m)) = m
  BY ZenonT(30), Cut
<1>2. Lists(b, i, Between(i, j), H)
  BY Zenon, Reads
<1>3. Lists(b, i, m, D)
  BY Zenon, <1>1, Reads
<1> HIDE DEF H, D
<1>4. H \in Seq(Char) /\ Len(H) = Between(i, j)
  BY Zenon, <1>2 DEF Lists
<1>5. m \in Nat /\ m <= Len(H)
  BY <1>4
<1>6. Q \in Seq(Char) /\ Len(Q) = m /\ \A k \in 1 .. m : Q[k] = H[k] /\ k \in 1 .. Len(H)
  BY <1>4, <1>5
<1> HIDE DEF Q
<1>7. \A k \in 1 .. m : D[k] = Q[k]
  BY Zenon, <1>2, <1>3, <1>6 DEF Lists
<1>8. D = [k \in 1 .. m |-> D[k]]
  BY Zenon, <1>3 DEF Lists
<1>9. D = Q
  BY Zenon, <1>6, <1>7, <1>8, Listed
<1> QED
  BY Zenon, <1>9 DEF D, Q, H

(* Taken from their front. *)
LEMMA Suffix ==
  ASSUME NEW b \in Buffer, NEW i \in Index, NEW j \in Index, NEW m \in 0 .. Between(i, j)
  PROVE  Held(b, Plus(i, m), j) = SubSeq(Held(b, i, j), m + 1, Len(Held(b, i, j)))
<1> DEFINE H == Held(b, i, j)
           D == Held(b, Plus(i, m), j)
           Q == SubSeq(H, m + 1, Len(H))
<1>1. Plus(i, m) \in Index /\ Between(Plus(i, m), j) = Between(i, j) - m
  BY Zenon, Cut
<1>2. Lists(b, i, Between(i, j), H)
  BY Zenon, Reads
<1>3. Lists(b, Plus(i, m), Between(i, j) - m, D)
  BY Zenon, <1>1, Reads
<1> HIDE DEF H, D
<1>4. H \in Seq(Char) /\ Len(H) = Between(i, j)
  BY Zenon, <1>2 DEF Lists
<1>5. m \in Nat /\ m <= Len(H)
  BY <1>4
<1>6. \A k \in 1 .. Len(H) - m : m + k \in 1 .. Len(H) /\ k \in Int /\ m \in Int /\ i \in Int
  BY <1>4, <1>5, Bounds
<1>7. Q \in Seq(Char) /\ Len(Q) = Len(H) - m /\ \A k \in 1 .. Len(H) - m : Q[k] = H[m + k]
  BY SMTT(20), <1>4, <1>5
<1> HIDE DEF Q
<1>8. \A k \in 1 .. Len(H) - m : Place(Plus(i, m), k) = Place(i, m + k)
  BY Zenon, <1>6, Shifted
<1>9. \A k \in 1 .. Len(H) - m : D[k] = Q[k]
  BY ZenonT(30), <1>2, <1>3, <1>4, <1>6, <1>7, <1>8 DEF Lists
<1>10. D = [k \in 1 .. Len(H) - m |-> D[k]]
  BY Zenon, <1>3, <1>4 DEF Lists
<1>11. D = Q
  BY Zenon, <1>7, <1>9, <1>10, Listed
<1> QED
  BY Zenon, <1>11 DEF D, Q, H

(* Read in two parts. *)
LEMMA Parts ==
  ASSUME NEW b \in Buffer, NEW i \in Index, NEW j \in Index, NEW k \in Index,
         Between(i, j) + Between(j, k) < UINT
  PROVE  Held(b, i, k) = Held(b, i, j) \o Held(b, j, k)
<1> DEFINE c == Between(i, j)
           C == Held(b, i, j)
           D == Held(b, i, k)
           t == Held(b, j, k)
           d == Between(j, k)
<1>1. c \in Nat /\ j = Plus(i, c) /\ d \in Nat /\ Between(i, k) = c + d
  <2>1. c \in Nat /\ j = Plus(i, c) /\ d \in Nat
    BY Zenon, Gap
  <2>2. Between(i, k) = c + d
    BY ZenonT(30), Sum
  <2> QED
    BY Zenon, <2>1, <2>2
<1>2. Lists(b, j, d, t) /\ Lists(b, i, c, C)
  BY Zenon, Reads
<1>3. Lists(b, i, c + d, D)
  BY Zenon, <1>1, Reads
<1> HIDE DEF c, d, C, D, t
<1>4. /\ \A n \in 1 .. c : n \in 1 .. c + d
      /\ \A m \in 1 .. d : c + m \in 1 .. c + d /\ m \in Int /\ c \in Int /\ i \in Int
  BY <1>1, Bounds
<1>5. \A m \in 1 .. d : Place(j, m) = Place(i, c + m)
  <2>1. \A m \in 1 .. d : Place(Plus(i, c), m) = Place(i, c + m)
    BY Zenon, <1>4, Shifted
  <2>2. j = Plus(i, c)
    BY Zenon, <1>1
  <2> QED
    BY Zenon, <2>1, <2>2
<1>6. \A m \in 1 .. d : D[c + m] = t[m]
  <2>1. \A m \in 1 .. d : t[m] = b[Place(j, m)]
    BY Zenon, <1>2 DEF Lists
  <2>2. \A n \in 1 .. c + d : D[n] = b[Place(i, n)]
    BY Zenon, <1>3 DEF Lists
  <2> QED
    BY Zenon, <1>4, <1>5, <2>1, <2>2
<1>7. \A n \in 1 .. c : D[n] = C[n]
  BY Zenon, <1>2, <1>3, <1>4 DEF Lists
<1>8. Extends(Char, c, C, D, t)
  BY Zenon, <1>1, <1>2, <1>3, <1>6, <1>7 DEF Extends, Lists
<1>9. D = C \o t
  BY Zenon, <1>8, Joined
<1> QED
  BY Zenon, <1>9 DEF C, D, t

(* B holds c behind what b holds between i and e. *)
Adds(b, i, e, c, B) ==
  /\ B \in Buffer /\ Between(i, Plus(e, 1)) = Between(i, e) + 1
  /\ Held(B, i, Plus(e, 1)) = Append(Held(b, i, e), c)
  /\ \A j \in Index : Between(i, j) <= Between(i, e) => Held(B, i, j) = Held(b, i, j)

(* consoleintr stores a character in a free place, behind the others. *)
LEMMA Store ==
  ASSUME NEW b \in Buffer, NEW i \in Index, NEW e \in Index, NEW c \in Char,
         Between(i, e) < INPUT_BUF, NEW B, B = [b EXCEPT ![e % INPUT_BUF] = c]
  PROVE  Adds(b, i, e, c, B)
<1> DEFINE g == Between(i, e)
           z == Place(i, g + 1)
<1>1. g \in Nat /\ e = Plus(i, g) /\ g < INPUT_BUF
  BY Zenon, Gap
<1> HIDE DEF g
<1>2. g + 1 \in Index /\ i \in Int /\ g \in Int /\ 1 \in Int /\ g + 1 \in Int /\ (g + 1) - 1 = g
  BY <1>1, Bounds
<1>3. z = e % INPUT_BUF /\ z \in 0 .. INPUT_BUF - 1
  BY Zenon, <1>1, <1>2, Inside DEF Place
<1>4. \A k \in 1 .. g : k \in Int /\ k < g + 1 /\ g + 1 < k + INPUT_BUF /\ k \in 1 .. g + 1
  BY <1>1, Bounds
<1>5. \A k \in 1 .. g : Place(i, k) # z /\ Place(i, k) \in 0 .. INPUT_BUF - 1
  BY Zenon, <1>2, <1>4, Inside, Apart
<1> HIDE DEF z
<1>6. B \in Buffer /\ B[z] = c /\ \A k \in 1 .. g : B[Place(i, k)] = b[Place(i, k)]
  BY Zenon, <1>3, <1>5 DEF Buffer
<1>7. Plus(e, 1) \in Index /\ Between(i, Plus(e, 1)) = g + 1
  <2>1. Plus(Plus(i, g), 1) = Plus(i, g + 1)
    BY ZenonT(30), <1>2, Twice
  <2>2. Plus(i, g + 1) \in Index
    BY Zenon, <1>2, Along
  <2>3. Between(i, Plus(i, g + 1)) = g + 1
    BY Zenon, <1>2, Ahead
  <2> QED
    BY Zenon, <1>1, <2>1, <2>2, <2>3
<1>8. ASSUME NEW j \in Index, Between(i, j) <= g PROVE Held(B, i, j) = Held(b, i, j)
  <2>1. Between(i, j) \in Nat
    BY Zenon, Gap
  <2>2. \A k \in 1 .. Between(i, j) : k \in 1 .. g
    BY <1>1, <1>8, <2>1
  <2> QED
    BY Zenon, <1>6, <2>2 DEF Held
<1>9. Held(B, i, Plus(e, 1)) = Append(Held(b, i, e), c)
  <2> DEFINE H == Held(b, i, e)
             D == Held(B, i, Plus(e, 1))
             Q == Append(H, c)
  <2>1. Lists(b, i, g, H)
    BY Zenon, Reads DEF g
  <2>2. Lists(B, i, g + 1, D)
    BY Zenon, <1>6, <1>7, Reads
  <2> HIDE DEF H, D
  <2>3. Q \in Seq(Char) /\ Len(Q) = g + 1 /\ Q[g + 1] = c /\ \A k \in 1 .. g : Q[k] = H[k]
    <3>1. H \in Seq(Char) /\ Len(H) = g
      BY Zenon, <2>1 DEF Lists
    <3> QED
      BY <3>1, <1>1
  <2> HIDE DEF Q
  <2>4. \A k \in 1 .. g + 1 : k \in 1 .. g \/ k = g + 1
    BY <1>1
  <2>5. D[g + 1] = c /\ \A k \in 1 .. g : D[k] = H[k]
    <3>1. g + 1 \in 1 .. g + 1
      BY <1>1
    <3> QED
      BY Zenon, <1>4, <1>6, <2>1, <2>2, <3>1 DEF z, Lists
  <2>6. \A k \in 1 .. g + 1 : D[k] = Q[k]
    BY Zenon, <2>3, <2>4, <2>5
  <2>7. D = [k \in 1 .. g + 1 |-> D[k]]
    BY Zenon, <2>2 DEF Lists
  <2>8. D = Q
    BY Zenon, <2>3, <2>6, <2>7, Listed
  <2> QED
    BY Zenon, <2>8 DEF D, Q, H
<1> QED
  BY Zenon, <1>6, <1>7, <1>8, <1>9 DEF g, Adds

-----------------------------------------------------------------------------
(* What readers may have, and what may still be edited. *)
Ready == Held(input.buf, input.r, input.w)
Line  == Held(input.buf, input.w, input.e)

(* The part of the invariant that is about the ring. *)
RingInv ==
  /\ InputOK /\ Between(input.r, input.w) + Between(input.w, input.e) <= INPUT_BUF
  /\ FullIsReadable /\ LineOpen

(* The texts of the abstract console are these. *)
LEMMA Texts ==
  /\ Chars(input.r, input.w) = Ready /\ Chars(input.w, input.e) = Line
  /\ Chars(input.r, input.w)' = Ready' /\ Chars(input.w, input.e)' = Line'
BY Zenon DEF Chars, Ready, Line, Held, Place

(* The indices in order. *)
LEMMA Order ==
  ASSUME InputOK, Between(input.r, input.w) + Between(input.w, input.e) <= INPUT_BUF
  PROVE  /\ input.buf \in Buffer /\ input.r \in Index /\ input.w \in Index /\ input.e \in Index
         /\ Between(input.r, input.w) \in Nat /\ Between(input.w, input.e) \in Nat
         /\ Between(input.r, input.e) = Between(input.r, input.w) + Between(input.w, input.e)
         /\ Len(Ready) = Between(input.r, input.w) /\ Len(Line) = Between(input.w, input.e)
         /\ Ready \in Seq(Char) /\ Line \in Seq(Char)
<1>1. input.buf \in Buffer /\ input.r \in Index /\ input.w \in Index /\ input.e \in Index
  BY DEF InputOK, Buffer
<1>2. Between(input.r, input.w) \in Nat /\ Between(input.w, input.e) \in Nat
  BY Zenon, <1>1, Gap
<1>3. Between(input.r, input.w) + Between(input.w, input.e) < UINT
  BY <1>2, Bounds
<1>4. Between(input.r, input.e) = Between(input.r, input.w) + Between(input.w, input.e)
  BY ZenonT(30), <1>1, <1>3, Sum
<1>5. /\ Lists(input.buf, input.r, Between(input.r, input.w), Ready)
      /\ Lists(input.buf, input.w, Between(input.w, input.e), Line)
  BY Zenon, <1>1, Reads DEF Ready, Line
<1> QED
  BY Zenon, <1>1, <1>2, <1>4, <1>5 DEF Lists

(* A full ring is one whose newest index is a ring ahead of the oldest. *)
LEMMA Full ==
  ASSUME NEW i \in Index, NEW j \in Index
  PROVE  j = Plus(i, INPUT_BUF) <=> Between(i, j) = INPUT_BUF
<1>1. INPUT_BUF \in Index
  BY Bounds
<1>2. Between(i, Plus(i, INPUT_BUF)) = INPUT_BUF
  BY Zenon, <1>1, Ahead
<1>3. j = Plus(i, Between(i, j))
  BY Zenon, Gap
<1> QED
  BY Zenon, <1>2, <1>3

(* Appending to a concatenation. *)
LEMMA Behind ==
  ASSUME NEW s \in Seq(Char), NEW t \in Seq(Char), NEW c \in Char
  PROVE  Append(s \o t, c) = s \o Append(t, c)
<1> DEFINE n == Len(s)
           D == Append(s \o t, c)
           u == Append(t, c)
<1>1. n \in Nat /\ s = [i \in 1 .. n |-> s[i]] /\ \A i \in 1 .. n : s[i] \in Char
  OBVIOUS
<1>2. u \in Seq(Char) /\ Len(u) = Len(t) + 1 /\ u[Len(t) + 1] = c /\ \A m \in 1 .. Len(t) : u[m] = t[m]
  OBVIOUS
<1>3. D \in Seq(Char) /\ Len(D) = n + (Len(t) + 1)
  OBVIOUS
<1>4. \A i \in 1 .. n : D[i] = s[i]
  OBVIOUS
<1>5. \A m \in 1 .. Len(t) : D[n + m] = t[m]
  OBVIOUS
<1>6. D[n + (Len(t) + 1)] = c
  OBVIOUS
<1>7. \A m \in 1 .. Len(t) + 1 : m \in 1 .. Len(t) \/ m = Len(t) + 1
  OBVIOUS
<1> HIDE DEF n, D, u
<1>8. D = [i \in 1 .. n + (Len(t) + 1) |-> D[i]]
  <2>1. D = [i \in 1 .. Len(D) |-> D[i]]
    BY <1>3
  <2> QED
    BY Zenon, <1>3, <2>1
<1>9. \A m \in 1 .. Len(t) + 1 : D[n + m] = u[m]
  BY Zenon, <1>2, <1>5, <1>6, <1>7
<1>10. Extends(Char, n, s, D, u)
  BY Zenon, <1>1, <1>2, <1>8, <1>4, <1>9 DEF Extends
<1> QED
  BY Zenon, <1>10, Joined DEF D, u

(* consoleintr adds a character to the line, or ends the line with it. *)
LEMMA Typed ==
  ASSUME RingInv, Room, NEW c \in Char, NEW e, e = Plus(input.e, 1),
         input' = [input EXCEPT !.buf[input.e % INPUT_BUF] = c, !.e = e, !.w = IF EndsLine(c, e) THEN e ELSE @]
  PROVE  /\ RingInv' /\ LineDiscipline!Type(c) /\ input'.r = input.r
         /\ ~EndsLine(c, e) => input'.w = input.w
<1> DEFINE b == input.buf
           r == input.r
           w == input.w
           B == [b EXCEPT ![input.e % INPUT_BUF] = c]
           R == Between(r, w)
           L == Between(w, input.e)
<1>1. /\ b \in Buffer /\ r \in Index /\ w \in Index /\ input.e \in Index /\ R \in Nat /\ L \in Nat
      /\ Between(r, input.e) = R + L /\ Len(Ready) = R /\ Len(Line) = L
      /\ Ready \in Seq(Char) /\ Line \in Seq(Char)
  BY Zenon, Order DEF RingInv
<1>2. /\ input'.buf = B /\ input'.r = r /\ input'.e = e
      /\ input'.w = IF EndsLine(c, e) THEN e ELSE w
      /\ input' = [buf |-> input'.buf, r |-> input'.r, w |-> input'.w, e |-> input'.e]
  BY Zenon DEF RingInv, InputOK
<1>3. R + L < INPUT_BUF /\ L < INPUT_BUF /\ R <= R + L
  <2>1. R + L < INPUT_BUF
    BY Zenon, <1>1 DEF Room
  <2> QED
    BY SMTT(20), <1>1, <2>1, Bounds
<1> HIDE DEF b, r, w, B, R, L
<1>4. /\ B \in Buffer /\ Between(r, e) = R + L + 1
      /\ Held(B, r, e) = Append(Held(b, r, input.e), c)
      /\ Held(B, r, w) = Held(b, r, w)
  <2>1. Between(r, input.e) < INPUT_BUF /\ Between(r, w) <= Between(r, input.e)
    BY Zenon, <1>1, <1>3 DEF R
  <2>2. Adds(b, r, input.e, c, B)
    BY Zenon, <1>1, <2>1, Store DEF B
  <2> QED
    BY Zenon, <1>1, <2>1, <2>2 DEF Adds
<1>5. Between(w, e) = L + 1 /\ Held(B, w, e) = Append(Held(b, w, input.e), c)
  <2>1. Adds(b, w, input.e, c, B)
    BY Zenon, <1>1, <1>3, Store DEF B, L
  <2> QED
    BY Zenon, <2>1 DEF Adds, L
<1>6. Held(b, r, input.e) = Ready \o Line
  <2>1. R + L < UINT
    BY SMTT(20), <1>1, <1>3, Bounds
  <2> QED
    BY ZenonT(30), <1>1, <2>1, Parts DEF R, L, b, r, w, Ready, Line
<1>7. e \in Index /\ Between(e, e) = 0
  <2>1. e \in Index
    <3>1. input.e \in Int /\ 1 \in Int
      BY SMTT(20), <1>1, Bounds
    <3> QED
      BY Zenon, <3>1, Along
  <2> QED
    BY Zenon, <2>1, Gap
<1>8. InputOK'
  <2>1. input'.w \in Index
    BY Zenon, <1>1, <1>2, <1>7
  <2> QED
    BY Zenon, <1>1, <1>2, <1>4, <1>7, <2>1 DEF InputOK, Buffer
<1>9. EndsLine(c, e) <=> c \in {"\n", "^D"} \/ R + L + 1 = INPUT_BUF
  BY Zenon, <1>1, <1>4, <1>7, Full DEF EndsLine, r
<1>10. CASE EndsLine(c, e)
  <2>1. input'.w = e
    BY Zenon, <1>2, <1>10
  <2>2. Line' = <<>>
    <3>1. Lists(B, e, 0, Held(B, e, e))
      BY Zenon, <1>4, <1>7, Reads
    <3>2. Held(B, e, e) = <<>>
      BY <3>1 DEF Lists
    <3> QED
      BY Zenon, <1>2, <2>1, <3>2 DEF Line
  <2>3. Ready' = Ready \o Append(Line, c)
    <3>1. Ready' = Append(Ready \o Line, c)
      BY Zenon, <1>2, <1>4, <1>6, <2>1 DEF Ready
    <3> QED
      BY Zenon, <1>1, <3>1, Behind
  <2>4. RingInv'
    <3>1. Between(input'.r, input'.w) + Between(input'.w, input'.e) <= INPUT_BUF
      <4>1. R + L + 1 + 0 <= INPUT_BUF
        BY SMTT(20), <1>1, <1>3, Bounds
      <4> QED
        BY Zenon, <1>2, <1>4, <1>7, <2>1, <4>1
    <3>2. FullIsReadable'
      BY Zenon, <1>2, <2>1 DEF FullIsReadable
    <3>3. LineOpen'
      <4>1. Between(input'.w, input'.e) = 0
        BY Zenon, <1>2, <1>7, <2>1
      <4> QED
        BY <4>1 DEF LineOpen
    <3> QED
      BY Zenon, <1>8, <3>1, <3>2, <3>3 DEF RingInv
  <2>5. LineDiscipline!Type(c)
    BY Zenon, <1>1, <1>3, <1>9, <1>10, <2>2, <2>3, Texts DEF LineDiscipline!Type
  <2> QED
    BY Zenon, <1>2, <1>10, <2>4, <2>5 DEF r
<1>11. CASE ~EndsLine(c, e)
  <2>1. input'.w = w
    BY Zenon, <1>2, <1>11
  <2>2. Line' = Append(Line, c)
    BY Zenon, <1>2, <1>5, <2>1 DEF Line, b, w
  <2>3. Ready' = Ready
    BY Zenon, <1>2, <1>4, <2>1 DEF Ready, b, r, w
  <2>4. RingInv'
    <3>1. Between(input'.r, input'.w) + Between(input'.w, input'.e) <= INPUT_BUF
      <4>1. R + (L + 1) <= INPUT_BUF
        BY SMTT(20), <1>1, <1>3, Bounds
      <4> QED
        BY Zenon, <1>2, <1>5, <2>1, <4>1 DEF R
    <3>2. FullIsReadable'
      BY Zenon, <1>2, <1>4, <1>9, <1>11 DEF FullIsReadable
    <3>3. LineOpen'
      <4>1. \A k \in 1 .. L : Line[k] \notin {"\n", "^D"}
        BY Zenon, Texts DEF RingInv, LineOpen, L, w
      <4>2. \A k \in 1 .. L + 1 : Append(Line, c)[k] \notin {"\n", "^D"}
        BY SMTT(20), <1>1, <1>9, <1>11, <4>1
      <4>3. Between(input'.w, input'.e) = L + 1
        BY Zenon, <1>2, <1>5, <2>1
      <4> QED
        BY Zenon, <2>2, <4>2, <4>3, Texts DEF LineOpen
    <3> QED
      BY Zenon, <1>8, <3>1, <3>2, <3>3 DEF RingInv
  <2>5. LineDiscipline!Type(c)
    BY Zenon, <1>1, <1>3, <1>9, <1>11, <2>2, <2>3, Texts DEF LineDiscipline!Type
  <2> QED
    BY Zenon, <1>2, <1>11, <2>1, <2>4, <2>5 DEF r, w
<1> QED
  BY Zenon, <1>10, <1>11

(* Backspace and control-U shorten the line. *)
LEMMA Erased ==
  ASSUME RingInv, input.e # input.w, NEW k \in {0, Between(input.w, input.e) - 1},
         input' = [input EXCEPT !.e = Plus(input.w, k)]
  PROVE  RingInv' /\ LineDiscipline!Erase /\ input'.r = input.r /\ input'.w = input.w
<1> DEFINE b == input.buf
           r == input.r
           w == input.w
           e == Plus(w, k)
           R == Between(r, w)
           L == Between(w, input.e)
<1>1. /\ b \in Buffer /\ r \in Index /\ w \in Index /\ input.e \in Index /\ R \in Nat /\ L \in Nat
      /\ Len(Line) = L /\ Line \in Seq(Char) /\ R + L <= INPUT_BUF
  BY Zenon, Order DEF RingInv
<1>2. /\ input'.buf = b /\ input'.r = r /\ input'.w = w /\ input'.e = e
      /\ input' = [buf |-> input'.buf, r |-> input'.r, w |-> input'.w, e |-> input'.e]
  BY DEF RingInv, InputOK
<1>3. L # 0 /\ k \in {0, L - 1}
  BY Zenon, <1>1, Gap
<1> HIDE DEF b, r, w, e, R, L
<1>4. k \in 0 .. L /\ k \in Nat /\ k < L /\ R + k < INPUT_BUF /\ R + k < UINT
  BY SMTT(20), <1>1, <1>3, Bounds
<1>5. e \in Index /\ Between(w, e) = k
  BY ZenonT(30), <1>1, <1>4, Cut DEF e, L
<1>6. Line' = SubSeq(Line, 1, k)
  <2>1. Held(b, w, e) = SubSeq(Held(b, w, input.e), 1, k)
    BY Zenon, <1>1, <1>4, Prefix DEF e, L
  <2> QED
    BY Zenon, <1>2, <2>1 DEF Line, b, w
<1>7. Ready' = Ready
  BY Zenon, <1>2 DEF Ready, b, r, w
<1>8. Between(r, e) = R + k
  BY ZenonT(30), <1>1, <1>4, <1>5, Sum DEF R
<1>9. InputOK'
  BY <1>1, <1>2, <1>5 DEF InputOK, Buffer
<1>10. Between(input'.r, input'.w) + Between(input'.w, input'.e) <= INPUT_BUF
  <2>1. R + k <= INPUT_BUF
    BY SMTT(20), <1>1, <1>4, Bounds
  <2> QED
    BY Zenon, <1>2, <1>5, <2>1 DEF R
<1>11. FullIsReadable'
  <2>1. R + k # INPUT_BUF
    BY <1>1, <1>4, Bounds
  <2> QED
    BY Zenon, <1>2, <1>8, <2>1 DEF FullIsReadable
<1>12. LineOpen'
  <2>1. \A j \in 1 .. L : Line[j] \notin {"\n", "^D"}
    BY Zenon, Texts DEF RingInv, LineOpen, L, w
  <2>2. \A j \in 1 .. k : j \in 1 .. L /\ SubSeq(Line, 1, k)[j] = Line[j]
    BY SMTT(20), <1>1, <1>4
  <2>3. \A j \in 1 .. k : Line'[j] \notin {"\n", "^D"}
    BY Zenon, <1>6, <2>1, <2>2
  <2>4. Between(input'.w, input'.e) = k
    BY Zenon, <1>2, <1>5
  <2> QED
    BY Zenon, <2>3, <2>4, Texts DEF LineOpen
<1>13. LineDiscipline!Erase
  <2>1. k >= 0
    BY <1>4
  <2>2. k \in {0, Len(Line) - 1}
    BY Zenon, <1>1, <1>3
  <2> QED
    BY Zenon, <1>6, <1>7, <2>1, <2>2, Texts DEF LineDiscipline!Erase
<1>14. RingInv'
  BY Zenon, <1>9, <1>10, <1>11, <1>12 DEF RingInv
<1> QED
  BY Zenon, <1>2, <1>13, <1>14 DEF r, w

(* consoleread takes characters from the front of what is ready. *)
LEMMA Taken ==
  ASSUME RingInv, NEW m \in 0 .. Between(input.r, input.w),
         input' = [input EXCEPT !.r = Plus(input.r, m)]
  PROVE  /\ RingInv' /\ (LineDiscipline!Take \/ (Ready' = Ready /\ Line' = Line))
         /\ Between(input.r, input'.r) = m /\ input'.w = input.w
         /\ m = Between(input.r, input.w) => input'.r = input'.w
         /\ m = 0 => input'.r = input.r
<1> DEFINE b == input.buf
           r == input.r
           w == input.w
           e == input.e
           q == Plus(r, m)
           R == Between(r, w)
           L == Between(w, e)
<1>1. /\ b \in Buffer /\ r \in Index /\ w \in Index /\ e \in Index /\ R \in Nat /\ L \in Nat
      /\ Len(Ready) = R /\ R + L <= INPUT_BUF /\ m \in 0 .. R /\ Between(r, e) = R + L
  BY Zenon, Order DEF RingInv
<1>2. /\ input'.buf = b /\ input'.r = q /\ input'.w = w /\ input'.e = e
      /\ input' = [buf |-> input'.buf, r |-> input'.r, w |-> input'.w, e |-> input'.e]
  BY DEF RingInv, InputOK
<1> HIDE DEF b, r, w, e, q, R, L
<1>3. PICK d \in Int : d = R - m
  BY <1>1
<1>4. d \in Nat /\ d + L <= INPUT_BUF /\ d + L < UINT /\ (m = R <=> d = 0) /\ (d + L = INPUT_BUF => m = 0)
  BY SMTT(60), <1>1, <1>3, Bounds
<1>5. q \in Index /\ Between(r, q) = m /\ Between(q, w) = d
  BY ZenonT(30), <1>1, <1>3, Cut DEF q, R
<1>6. Between(q, e) = d + L
  BY ZenonT(30), <1>1, <1>4, <1>5, Sum DEF L
<1>7. (m = R => q = w) /\ (m = 0 => q = r)
  BY Zenon, <1>1, <1>4, <1>5, Gap
<1>8. Ready' = SubSeq(Ready, m + 1, Len(Ready))
  <2>1. Held(b, q, w) = SubSeq(Held(b, r, w), m + 1, Len(Held(b, r, w)))
    BY Zenon, <1>1, Suffix DEF q, R
  <2> QED
    BY Zenon, <1>2, <2>1 DEF Ready, b, r, w
<1>9. Line' = Line
  BY Zenon, <1>2 DEF Line, b, w, e
<1>10. InputOK'
  BY <1>1, <1>2, <1>5 DEF InputOK, Buffer
<1>11. Between(input'.r, input'.w) + Between(input'.w, input'.e) <= INPUT_BUF
  BY Zenon, <1>2, <1>4, <1>5 DEF L
<1>12. FullIsReadable'
  <2>1. ASSUME d + L = INPUT_BUF PROVE w = e
    <3>1. q = r
      BY Zenon, <1>4, <1>7, <2>1
    <3> QED
      BY Zenon, <1>6, <2>1, <3>1 DEF RingInv, FullIsReadable, r, w, e
  <2> QED
    BY Zenon, <1>2, <1>6, <2>1 DEF FullIsReadable
<1>13. LineOpen'
  <2>1. input'.w = input.w /\ input'.e = input.e
    BY Zenon, <1>2 DEF w, e
  <2> QED
    BY Zenon, <1>9, <2>1, Texts DEF RingInv, LineOpen
<1>14. LineDiscipline!Take \/ (Ready' = Ready /\ Line' = Line)
  <2>1. CASE m = 0
    <3>1. Ready' = Ready
      BY Zenon, <1>2, <1>7, <2>1 DEF Ready, b, r, w
    <3> QED
      BY Zenon, <1>9, <3>1
  <2>2. CASE m # 0
    <3>1. m \in 1 .. Len(Ready)
      BY <1>1, <2>2
    <3> QED
      BY Zenon, <1>8, <1>9, <3>1, Texts DEF LineDiscipline!Take
  <2> QED
    BY Zenon, <2>1, <2>2
<1>15. RingInv'
  BY Zenon, <1>10, <1>11, <1>12, <1>13 DEF RingInv
<1> QED
  BY Zenon, <1>2, <1>5, <1>7, <1>14, <1>15 DEF r, w, q, R

-----------------------------------------------------------------------------
(* What one call leaves of its process. *)
Calls == [pc : TtyPc, n : Nat, target : Nat, result : Int]

(* The invariant is about the ring, about calls, and about who sleeps. *)
LEMMA Conjuncts ==
  /\ ConsoleInv <=> RingInv /\ CallsOK /\ InputWakesReaders
  /\ ConsoleInv' <=> RingInv' /\ CallsOK' /\ InputWakesReaders'
BY Zenon DEF ConsoleInv, ConsoleTypeOK, RingInv

(* A step of one call. *)
LEMMA Moved ==
  ASSUME CallsOK, NEW p \in Tty, NEW t \in Calls, t.n <= t.target,
         tty' = [tty EXCEPT ![p] = t], ttylock' \in Tty \cup {NoTty}, dead' = dead
  PROVE  CallsOK' /\ tty'[p] = t /\ \A q \in Tty \ {p} : tty'[q] = tty[q]
<1>1. tty \in [Tty -> Calls] /\ \A q \in Tty : tty[q].n <= tty[q].target
  BY Zenon DEF CallsOK, Calls
<1>2. tty' \in [Tty -> Calls] /\ tty'[p] = t /\ \A q \in Tty \ {p} : tty'[q] = tty[q]
  BY Zenon, <1>1
<1>3. \A q \in Tty : tty'[q].n <= tty'[q].target
  BY Zenon, <1>1, <1>2
<1> QED
  BY Zenon, <1>2, <1>3 DEF CallsOK, Calls

(* Steps that leave the ring alone. *)
LEMMA Kept ==
  ASSUME RingInv, input' = input
  PROVE  RingInv' /\ Ready' = Ready /\ Line' = Line /\ UsedUp = {}
<1>1. RingInv'
  BY Zenon DEF RingInv, InputOK, FullIsReadable, LineOpen, Chars
<1>2. Ready' = Ready /\ Line' = Line
  BY Zenon DEF Ready, Line
<1>3. Between(input.r, input'.r) = 0
  BY Zenon, Order, Gap DEF RingInv
<1>4. UsedUp = {}
  BY <1>3 DEF UsedUp
<1> QED
  BY Zenon, <1>1, <1>2, <1>4

(* A step of the interrupt takes nothing. *)
LEMMA NothingTaken ==
  ASSUME RingInv, input'.r = input.r
  PROVE  UsedUp = {}
<1>1. Between(input.r, input'.r) = 0
  BY ZenonT(30), Order, Gap DEF RingInv
<1> QED
  BY <1>1 DEF UsedUp

(* The step is one of the abstract console, or none. *)
Refines ==
  \/ \E c \in Char : LineDiscipline!Type(c)
  \/ LineDiscipline!Erase \/ LineDiscipline!Take
  \/ Ready' = Ready /\ Line' = Line

(* The end of a file is used up by a read of nothing. *)
EofSeen == UsedUp # {} => \E p \in Tty : tty[p].pc = "read" /\ tty'[p].pc = "ilock" /\ tty'[p].result = 0

(* A character is typed. *)
LEMMA TypeStep ==
  ASSUME ConsoleInv, NEW c \in Char, consoleintr(c)
  PROVE  ConsoleInv' /\ Refines /\ EofSeen
<1> DEFINE e == Plus(input.e, 1)
<1>1. RingInv /\ CallsOK /\ InputWakesReaders
  BY Zenon, Conjuncts
<1>2. /\ Room /\ \A q \in Tty : tty[q].pc # "sleep"
      /\ input' = [input EXCEPT !.buf[input.e % INPUT_BUF] = c, !.e = e, !.w = IF EndsLine(c, e) THEN e ELSE @]
      /\ tty' = IF EndsLine(c, e) THEN WakeReaders(tty) ELSE tty
      /\ ttylock' = ttylock /\ dead' = dead
  BY Zenon DEF consoleintr, ConsFree
<1>3. /\ RingInv' /\ LineDiscipline!Type(c) /\ input'.r = input.r
      /\ ~EndsLine(c, e) => input'.w = input.w
  BY Zenon, <1>1, <1>2, Typed
<1> HIDE DEF e
<1>4. /\ tty \in [Tty -> Calls] /\ ttylock \in Tty \cup {NoTty} /\ dead \subseteq Tty
      /\ \A q \in Tty : tty[q].n <= tty[q].target
  BY Zenon, <1>1 DEF CallsOK, Calls
<1>5. CASE EndsLine(c, e)
  <2>1. tty' = WakeReaders(tty)
    BY Zenon, <1>2, <1>5
  <2>2. \A q \in Tty : tty'[q] = IF tty[q].pc = "asleep" THEN [tty[q] EXCEPT !.pc = "read"] ELSE tty[q]
    BY Zenon, <2>1 DEF WakeReaders
  <2>3. \A q \in Tty : /\ tty'[q] \in Calls /\ tty'[q].n <= tty'[q].target
                       /\ tty'[q].pc \notin {"sleep", "asleep"}
    BY ZenonT(30), <1>2, <1>4, <2>2 DEF Calls, TtyPc
  <2>4. tty' \in [Tty -> Calls]
    BY Zenon, <2>1, <2>3 DEF WakeReaders
  <2>5. CallsOK'
    BY Zenon, <1>2, <1>4, <2>3, <2>4 DEF CallsOK, Calls
  <2>6. InputWakesReaders'
    BY Zenon, <2>3 DEF InputWakesReaders
  <2> QED
    BY Zenon, <1>1, <1>3, <2>5, <2>6, Conjuncts, NothingTaken DEF Refines, EofSeen
<1>6. CASE ~EndsLine(c, e)
  <2>1. tty' = tty
    BY Zenon, <1>2, <1>6
  <2>2. CallsOK'
    BY Zenon, <1>1, <1>2, <2>1 DEF CallsOK
  <2>3. InputWakesReaders'
    BY Zenon, <1>1, <1>3, <1>6, <2>1 DEF InputWakesReaders
  <2> QED
    BY Zenon, <1>1, <1>3, <2>2, <2>3, Conjuncts, NothingTaken DEF Refines, EofSeen
<1> QED
  BY Zenon, <1>5, <1>6

(* A character is erased, or all of them. *)
LEMMA EraseStep ==
  ASSUME ConsoleInv, consoleintr_erase \/ consoleintr_kill
  PROVE  ConsoleInv' /\ Refines /\ EofSeen
<1> DEFINE L == Between(input.w, input.e)
<1>1. RingInv /\ CallsOK /\ InputWakesReaders
  BY Zenon, Conjuncts
<1>2. input.e # input.w /\ tty' = tty /\ ttylock' = ttylock /\ dead' = dead
  BY Zenon DEF consoleintr_erase, consoleintr_kill
<1>3. /\ input.w \in Index /\ input.e \in Index /\ L \in Nat /\ Len(Line) = L
      /\ input.e = Plus(input.w, L)
  BY Zenon, <1>1, Order, Gap DEF RingInv
<1>4. \E k \in {0, L - 1} : input' = [input EXCEPT !.e = Plus(input.w, k)]
  <2>1. CASE consoleintr_erase
    <3>1. input' = [input EXCEPT !.e = Plus(input.e, -1)]
      BY <2>1 DEF consoleintr_erase
    <3>2. input.w \in Int /\ L \in Int /\ -1 \in Int /\ L + (-1) = L - 1
      BY <1>3, Bounds
    <3>3. Plus(Plus(input.w, L), -1) = Plus(input.w, L + (-1))
      BY ZenonT(30), <3>2, Twice
    <3>4. Plus(input.e, -1) = Plus(input.w, L - 1)
      BY Zenon, <1>3, <3>2, <3>3
    <3> QED
      BY Zenon, <3>1, <3>4
  <2>2. CASE consoleintr_kill
    <3>1. PICK k \in 0 .. Len(Line) : /\ k > 0 => Line[k] = "\n"
                                      /\ input' = [input EXCEPT !.e = Plus(input.w, k)]
      BY Zenon, <2>2, Texts DEF consoleintr_kill
    <3>2. \A j \in 1 .. L : Line[j] \notin {"\n", "^D"}
      BY Zenon, <1>1, Texts DEF RingInv, LineOpen
    <3>3. k = 0 \/ (k > 0 /\ k \in 1 .. L)
      BY <1>3
    <3>4. k = 0
      BY Zenon, <3>1, <3>2, <3>3
    <3> QED
      BY Zenon, <3>1, <3>4
  <2> QED
    BY Zenon, <2>1, <2>2
<1>5. RingInv' /\ LineDiscipline!Erase /\ input'.r = input.r /\ input'.w = input.w
  BY Zenon, <1>1, <1>2, <1>4, Erased
<1>6. CallsOK'
  BY Zenon, <1>1, <1>2 DEF CallsOK
<1>7. InputWakesReaders'
  BY Zenon, <1>1, <1>2, <1>5 DEF InputWakesReaders
<1> QED
  BY Zenon, <1>1, <1>5, <1>6, <1>7, Conjuncts, NothingTaken DEF Refines, EofSeen

(* A step of one call that does not touch the ring, and after which its    *)
(* process sleeps only if it was about to.                                 *)
LEMMA CallStep ==
  ASSUME ConsoleInv, NEW p \in Tty, NEW t \in Calls, t.n <= t.target,
         tty' = [tty EXCEPT ![p] = t], ttylock' \in Tty \cup {NoTty}, dead' = dead, input' = input,
         t.pc \in {"sleep", "asleep"} => tty[p].pc = "sleep"
  PROVE  ConsoleInv' /\ Refines /\ EofSeen
<1>1. RingInv /\ CallsOK /\ InputWakesReaders
  BY Zenon, Conjuncts
<1>2. RingInv' /\ Ready' = Ready /\ Line' = Line /\ UsedUp = {}
  BY Zenon, <1>1, Kept
<1>3. CallsOK' /\ tty'[p] = t /\ \A q \in Tty \ {p} : tty'[q] = tty[q]
  BY Zenon, <1>1, Moved
<1>4. InputWakesReaders'
  BY Zenon, <1>1, <1>3 DEF InputWakesReaders
<1> QED
  BY Zenon, <1>2, <1>3, <1>4, Conjuncts DEF Refines, EofSeen

(* A call that goes on elsewhere. *)
LEMMA Records ==
  ASSUME NEW u \in Calls, u.n <= u.target, NEW l \in TtyPc
  PROVE  /\ [u EXCEPT !.pc = l] \in Calls /\ [u EXCEPT !.pc = l].pc = l
         /\ [u EXCEPT !.pc = l].n <= [u EXCEPT !.pc = l].target
BY DEF Calls

(* What Call makes. *)
LEMMA Made ==
  ASSUME NEW l \in TtyPc, NEW a \in Nat, NEW b \in Nat, a <= b, NEW z \in Int
  PROVE  /\ Call(l, a, b, z) \in Calls /\ Call(l, a, b, z).n <= Call(l, a, b, z).target
         /\ Call(l, a, b, z).pc = l /\ Call(l, a, b, z).result = z
BY DEF Calls, Call

(* A call begins. *)
LEMMA BeginStep ==
  ASSUME ConsoleInv, NEW p \in Tty, consolecall(p)
  PROVE  ConsoleInv' /\ Refines /\ EofSeen
<1>1. ttylock' = p /\ input' = input /\ dead' = dead
  BY Zenon DEF consolecall
<1>2. CASE tty' = [tty EXCEPT ![p] = Call("consolewrite", 0, 0, 0)]
  <2> DEFINE t == Call("consolewrite", 0, 0, 0)
  <2>1. t \in Calls /\ t.n <= t.target /\ t.pc = "consolewrite"
    BY DEF Call, Calls, TtyPc
  <2>2. tty' = [tty EXCEPT ![p] = t]
    BY Zenon, <1>2
  <2> HIDE DEF t
  <2> QED
    BY Zenon, <1>1, <2>1, <2>2, CallStep
<1>3. ASSUME NEW n \in ReadSizes,
             tty' = [tty EXCEPT ![p] = Call("consoleread", n, n, 0)]
      PROVE  ConsoleInv' /\ Refines /\ EofSeen
  <2> DEFINE t == Call("consoleread", n, n, 0)
  <2>1. n \in Nat /\ n <= n /\ 0 \in Int /\ "consoleread" \in TtyPc
    <3>1. n \in Nat
      BY Zenon, ConsoleAssumption
    <3> QED
      BY <3>1 DEF TtyPc
  <2>2. t \in Calls /\ t.n <= t.target /\ t.pc = "consoleread"
    BY <2>1, Made
  <2>3. tty' = [tty EXCEPT ![p] = t]
    BY Zenon, <1>3
  <2> HIDE DEF t
  <2> QED
    BY Zenon, <1>1, <2>2, <2>3, CallStep
<1> QED
  BY Zenon, <1>2, <1>3 DEF consolecall

(* iunlock, and the descent into sleep. *)
LEMMA GotoStep ==
  ASSUME ConsoleInv, NEW p \in Tty, consoleread_start(p) \/ sleep(p)
  PROVE  ConsoleInv' /\ Refines /\ EofSeen
<1>1. CallsOK
  BY Zenon, Conjuncts
<1>2. tty \in [Tty -> Calls] /\ tty[p] \in Calls /\ tty[p].n <= tty[p].target /\ ttylock \in Tty \cup {NoTty}
  BY Zenon, <1>1 DEF CallsOK, Calls
<1>3. PICK l \in TtyPc : /\ Goto(p, l) /\ (l \in {"sleep", "asleep"} => tty[p].pc = "sleep")
                         /\ input' = input /\ dead' = dead /\ ttylock' \in Tty \cup {NoTty}
  <2>1. CASE consoleread_start(p)
    <3> DEFINE l == IF tty[p].pc = "consoleread" THEN "read" ELSE "ilock"
    <3>1. l \in TtyPc /\ l \notin {"sleep", "asleep"}
      BY DEF TtyPc
    <3>2. Goto(p, l) /\ input' = input /\ dead' = dead /\ ttylock' = NoTty
      BY Zenon, <2>1 DEF consoleread_start, iunlock
    <3> HIDE DEF l
    <3> QED
      BY Zenon, <3>1, <3>2
  <2>2. CASE sleep(p)
    <3>1. "asleep" \in TtyPc
      BY DEF TtyPc
    <3> QED
      BY Zenon, <1>2, <2>2, <3>1 DEF sleep
  <2> QED
    BY Zenon, <2>1, <2>2
<1> DEFINE t == [tty[p] EXCEPT !.pc = l]
<1>4. tty' = [tty EXCEPT ![p] = t]
  BY Zenon, <1>3 DEF Goto
<1>5. t \in Calls /\ t.n <= t.target /\ t.pc = l
  BY Zenon, <1>2, Records
<1> HIDE DEF t
<1> QED
  BY Zenon, <1>3, <1>4, <1>5, CallStep

(* A call ends. *)
LEMMA EndStep ==
  ASSUME ConsoleInv, NEW p \in Tty, consoleread_end(p)
  PROVE  ConsoleInv' /\ Refines /\ EofSeen
<1>1. tty' = [tty EXCEPT ![p] = AtRest] /\ input' = input /\ dead' = dead /\ ttylock' = NoTty
  BY Zenon DEF consoleread_end
<1>2. AtRest \in Calls /\ AtRest.n <= AtRest.target /\ AtRest.pc = "user"
  BY DEF Calls, Call, AtRest, TtyPc
<1> QED
  BY Zenon, <1>1, <1>2, CallStep

(* A process is killed. *)
LEMMA KillStep ==
  ASSUME ConsoleInv, NEW p \in Tty, kill_tty(p)
  PROVE  ConsoleInv' /\ Refines /\ EofSeen
<1>1. RingInv /\ CallsOK /\ InputWakesReaders
  BY Zenon, Conjuncts
<1>2. /\ tty \in [Tty -> Calls] /\ tty[p] \in Calls /\ tty[p].n <= tty[p].target
      /\ ttylock \in Tty \cup {NoTty} /\ dead \subseteq Tty /\ \A q \in Tty : tty[q].n <= tty[q].target
  BY Zenon, <1>1 DEF CallsOK, Calls
<1>3. RingInv' /\ Ready' = Ready /\ Line' = Line /\ UsedUp = {} /\ input' = input
  BY Zenon, <1>1, Kept DEF kill_tty
<1>4. dead' \subseteq Tty /\ ttylock' = ttylock
  BY Zenon, <1>2 DEF kill_tty
<1>5. /\ tty' \in [Tty -> Calls] /\ \A q \in Tty : tty'[q].n <= tty'[q].target
      /\ \A q \in Tty : tty'[q] = tty[q] \/ tty'[q].pc = "read"
  <2>1. CASE tty[p].pc = "asleep"
    <3> DEFINE t == [tty[p] EXCEPT !.pc = "read"]
    <3>1. tty' = [tty EXCEPT ![p] = t]
      BY Zenon, <2>1 DEF kill_tty
    <3>2. t \in Calls /\ t.n <= t.target /\ t.pc = "read"
      BY <1>2 DEF Calls, TtyPc
    <3> HIDE DEF t
    <3> QED
      BY Zenon, <1>2, <3>1, <3>2
  <2>2. CASE tty[p].pc # "asleep"
    BY Zenon, <1>2, <2>2 DEF kill_tty
  <2> QED
    BY Zenon, <2>1, <2>2
<1>6. CallsOK'
  BY Zenon, <1>2, <1>4, <1>5 DEF CallsOK, Calls
<1>7. InputWakesReaders'
  <2>1. "read" \notin {"sleep", "asleep"}
    OBVIOUS
  <2> QED
    BY Zenon, <1>1, <1>3, <1>5, <2>1 DEF InputWakesReaders
<1> QED
  BY Zenon, <1>3, <1>6, <1>7, Conjuncts DEF Refines, EofSeen

(* consoleread takes what is ready, up to where it stops: it sleeps only   *)
(* when it has taken everything, and uses up a control-D only when there is*)
(* nothing before it.                                                      *)
LEMMA ReadStep ==
  ASSUME ConsoleInv, NEW p \in Tty, consoleread(p)
  PROVE  ConsoleInv' /\ Refines /\ EofSeen
<1> DEFINE R == Between(input.r, input.w)
           n == tty[p].n
           g == tty[p].target
<1>1. RingInv /\ CallsOK /\ InputWakesReaders
  BY Zenon, Conjuncts
<1>2. /\ tty \in [Tty -> Calls] /\ tty[p] \in Calls /\ n <= g /\ ttylock \in Tty \cup {NoTty}
  BY Zenon, <1>1 DEF CallsOK, Calls
<1>3. n \in Nat /\ g \in Nat
  BY <1>2 DEF Calls
<1>4. R \in Nat /\ Len(Ready) = R
  BY Zenon, <1>1, Order DEF RingInv
<1>5. ttylock' = ttylock /\ dead' = dead /\ tty[p].pc = "read" /\ \A q \in Tty : tty[q].pc # "sleep"
  BY Zenon DEF consoleread, ConsFree
<1>6. ASSUME NEW m \in 0 .. R, NEW t \in Calls, t.n <= t.target,
             input' = [input EXCEPT !.r = Plus(input.r, m)], tty' = [tty EXCEPT ![p] = t],
             t.pc = "asleep" \/ t.pc = "sleep" => m = R,
             ASSUME NEW j \in 1 .. m, Ready[j] = "^D" PROVE t.pc = "ilock" /\ t.result = 0
      PROVE  ConsoleInv' /\ Refines /\ EofSeen
  <2>1. /\ RingInv' /\ (LineDiscipline!Take \/ (Ready' = Ready /\ Line' = Line))
        /\ Between(input.r, input'.r) = m /\ input'.w = input.w
        /\ m = R => input'.r = input'.w
        /\ m = 0 => input'.r = input.r
    BY Zenon, <1>1, <1>6, Taken
  <2>2. CallsOK' /\ tty'[p] = t /\ \A q \in Tty \ {p} : tty'[q] = tty[q]
    BY Zenon, <1>1, <1>2, <1>5, <1>6, Moved
  <2>3. ASSUME input.r = input.w PROVE input'.r = input'.w
    <3>1. R = 0
      BY ZenonT(30), <1>1, <2>3, Order, Gap DEF RingInv
    <3>2. m = R
      BY <3>1
    <3> QED
      BY Zenon, <2>1, <3>2
  <2>4. InputWakesReaders'
    <3> SUFFICES ASSUME NEW q \in Tty, tty'[q].pc \in {"sleep", "asleep"} PROVE input'.r = input'.w
      BY Zenon DEF InputWakesReaders
    <3>1. CASE q = p
      BY Zenon, <1>6, <2>1, <2>2, <3>1
    <3>2. CASE q # p
      <4>1. tty[q].pc \in {"sleep", "asleep"}
        BY Zenon, <2>2, <3>2
      <4> QED
        BY Zenon, <1>1, <2>3, <4>1 DEF InputWakesReaders
    <3> QED
      BY Zenon, <3>1, <3>2
  <2>5. EofSeen
    <3> SUFFICES ASSUME UsedUp # {} PROVE tty'[p].pc = "ilock" /\ tty'[p].result = 0
      BY Zenon, <1>5 DEF EofSeen
    <3>1. PICK j \in 1 .. m : Ready[j] = "^D"
      BY Zenon, <2>1, Texts DEF UsedUp
    <3> QED
      BY Zenon, <1>6, <2>2, <3>1
  <2> QED
    BY Zenon, <2>1, <2>2, <2>4, <2>5, Conjuncts DEF Refines
<1>7. CASE /\ Stops(Ready, n) = {} /\ input' = [input EXCEPT !.r = Plus(@, Len(Ready))]
           /\ tty' = [tty EXCEPT ![p] = IF p \in dead THEN Call("ilock", n - Len(Ready), g, -1)
                                                     ELSE Call("sleep", n - Len(Ready), g, 0)]
  <2> DEFINE t == IF p \in dead THEN Call("ilock", n - R, g, -1) ELSE Call("sleep", n - R, g, 0)
  <2>1. (\A j \in 1 .. R : Ready[j] # "^D") /\ ~(R >= n)
    BY Zenon, <1>4, <1>7 DEF Stops
  <2>2. n - R \in Nat /\ n - R <= g /\ R \in 0 .. R
    BY <1>2, <1>3, <1>4, <2>1
  <2>3. t \in Calls /\ t.n <= t.target
    <3>1. "ilock" \in TtyPc /\ "sleep" \in TtyPc /\ -1 \in Int /\ 0 \in Int
      BY DEF TtyPc
    <3> QED
      BY ZenonT(30), <1>3, <2>2, <3>1, Made
  <2>4. tty' = [tty EXCEPT ![p] = t]
    BY <1>2, <1>4, <1>7
  <2>5. input' = [input EXCEPT !.r = Plus(input.r, R)]
    BY <1>4, <1>7
  <2> HIDE DEF t
  <2> QED
    BY Zenon, <1>6, <2>1, <2>2, <2>3, <2>4, <2>5
<1>8. ASSUME NEW k \in First(Stops(Ready, n)), NEW eof, eof = (k > 0 /\ Ready[k] = "^D"),
             input' = [input EXCEPT !.r = Plus(@, IF eof /\ PutBack(n - (k - 1), g) THEN k - 1 ELSE k)],
             tty' = [tty EXCEPT ![p] = Call("ilock", 0, 0, g - n + (IF eof THEN k - 1 ELSE k))]
      PROVE  ConsoleInv' /\ Refines /\ EofSeen
  <2> DEFINE m == IF eof /\ PutBack(n - (k - 1), g) THEN k - 1 ELSE k
             z == g - n + (IF eof THEN k - 1 ELSE k)
             t == Call("ilock", 0, 0, z)
  <2>1. k \in Stops(Ready, n) /\ \A j \in Stops(Ready, n) : k <= j
    BY Zenon DEF First
  <2>2. k \in Nat /\ k <= R
    BY <1>3, <1>4, <2>1 DEF Stops
  <2>3. m \in 0 .. R /\ m \in Nat /\ m <= k /\ z \in Int
    <3>1. CASE ~eof
      BY <1>3, <1>4, <2>2, <3>1
    <3>2. CASE eof
      <4>1. k > 0
        BY Zenon, <1>8, <3>2
      <4>2. k - 1 \in 0 .. R /\ k \in 0 .. R /\ k - 1 \in Nat /\ k - 1 <= k /\ k <= k
        BY <1>4, <2>2, <4>1
      <4>3. g - n + (k - 1) \in Int
        BY <1>3, <2>2
      <4> QED
        BY Zenon, <2>2, <3>2, <4>2, <4>3
    <3> QED
      BY Zenon, <3>1, <3>2
  <2>4. t \in Calls /\ t.n <= t.target /\ t.pc = "ilock" /\ t.result = z
    <3>1. "ilock" \in TtyPc /\ 0 \in Nat /\ 0 <= 0
      BY DEF TtyPc
    <3> HIDE DEF z
    <3> QED
      BY SMTT(20), <2>3, <3>1, Made
  <2>5. ASSUME NEW j \in 1 .. m, Ready[j] = "^D" PROVE z = 0
    <3>1. j \in Stops(Ready, n)
      <4>1. j \in 1 .. R
        BY <1>4, <2>3
      <4> QED
        BY Zenon, <1>4, <2>5, <4>1 DEF Stops
    <3>2. k <= j
      BY Zenon, <2>1, <3>1
    <3>3. j = k /\ m = k /\ k > 0
      BY <2>2, <2>3, <3>2
    <3>4. eof
      BY Zenon, <1>8, <2>5, <3>3
    <3>5. ~PutBack(n - (k - 1), g)
      BY SMTT(20), <2>2, <3>3, <3>4
    <3>6. k = 1 /\ n = g
      BY <1>2, <1>3, <2>2, <3>3, <3>5 DEF PutBack
    <3> QED
      BY <1>3, <3>4, <3>6
  <2>6. input' = [input EXCEPT !.r = Plus(input.r, m)] /\ tty' = [tty EXCEPT ![p] = t]
    BY <1>8
  <2> HIDE DEF t, m, z
  <2>7. t.pc # "asleep" /\ t.pc # "sleep"
    BY <2>4
  <2> QED
    BY Zenon, <1>6, <2>3, <2>4, <2>5, <2>6, <2>7
<1> QED
  BY Zenon, <1>7, <1>8, Texts DEF consoleread

(* Every step keeps the invariant, is a step of the abstract console or    *)
(* none, and uses up no end of file unseen.                                *)
LEMMA NextStep ==
  ASSUME ConsoleInv, [ConsoleNext]_consVars
  PROVE  ConsoleInv' /\ Refines /\ EofSeen
<1>1. CASE UNCHANGED consVars
  <2>1. input' = input /\ ttylock' = ttylock /\ tty' = tty /\ dead' = dead
    BY Zenon, <1>1 DEF consVars
  <2>2. RingInv /\ CallsOK /\ InputWakesReaders
    BY Zenon, Conjuncts
  <2>3. RingInv' /\ Ready' = Ready /\ Line' = Line /\ UsedUp = {}
    BY Zenon, <2>1, <2>2, Kept
  <2>4. CallsOK' /\ InputWakesReaders'
    BY Zenon, <2>1, <2>2 DEF CallsOK, InputWakesReaders
  <2> QED
    BY Zenon, <2>3, <2>4, Conjuncts DEF Refines, EofSeen
<1>2. CASE ConsoleNext
  BY Zenon, <1>2, TypeStep, EraseStep, BeginStep, GotoStep, ReadStep, EndStep, KillStep DEF ConsoleNext
<1> QED
  BY Zenon, <1>1, <1>2

(* The console begins with nothing typed and nobody in a call. *)
LEMMA InitHolds ==
  ASSUME ConsoleInit
  PROVE  ConsoleInv /\ LineDiscipline!Init
<1>1. /\ input.r = 0 /\ input.w = 0 /\ input.e = 0 /\ input.buf \in Buffer
      /\ input = [buf |-> input.buf, r |-> 0, w |-> 0, e |-> 0]
  BY DEF ConsoleInit, Buffer, Char
<1>2. Between(0, 0) = 0
  BY Zenon, Sizes, Gap
<1>3. InputOK
  BY <1>1, Sizes DEF InputOK, Buffer
<1>4. Between(input.r, input.w) + Between(input.w, input.e) <= INPUT_BUF
  <2>1. 0 + 0 <= INPUT_BUF
    BY Bounds
  <2> QED
    BY Zenon, <1>1, <1>2, <2>1
<1>5. FullIsReadable
  BY Zenon, <1>1 DEF FullIsReadable
<1>6. LineOpen
  <2>1. Between(input.w, input.e) = 0
    BY Zenon, <1>1, <1>2
  <2> QED
    BY <2>1 DEF LineOpen
<1>7. CallsOK /\ InputWakesReaders
  <2>1. AtRest \in Calls /\ AtRest.n <= AtRest.target
    BY DEF Calls, Call, AtRest, TtyPc
  <2>2. tty \in [Tty -> Calls] /\ \A p \in Tty : tty[p].n <= tty[p].target
    BY Zenon, <2>1 DEF ConsoleInit
  <2>3. ttylock \in Tty \cup {NoTty} /\ dead \subseteq Tty
    BY Zenon DEF ConsoleInit
  <2> QED
    BY Zenon, <1>1, <2>2, <2>3 DEF CallsOK, Calls, InputWakesReaders
<1>8. ConsoleInv
  BY Zenon, <1>3, <1>4, <1>5, <1>6, <1>7, Conjuncts DEF RingInv
<1>9. Ready = <<>> /\ Line = <<>>
  <2>1. Ready \in Seq(Char) /\ Line \in Seq(Char) /\ Len(Ready) = 0 /\ Len(Line) = 0
    BY Zenon, <1>1, <1>2, <1>3, <1>4, Order
  <2> QED
    BY <2>1
<1> QED
  BY Zenon, <1>8, <1>9, Texts DEF LineDiscipline!Init

(* What console.c keeps between interrupts and reads (ConsoleInv) holds in *)
(* every reachable state.                                                  *)
THEOREM ConsoleSound == ConsoleSpec => []ConsoleInv
<1>1. ConsoleInit => ConsoleInv
  BY Zenon, InitHolds
<1>2. ConsoleInv /\ [ConsoleNext]_consVars => ConsoleInv'
  BY Zenon, NextStep
<1> QED
  BY <1>1, <1>2, PTL DEF ConsoleSpec

(* The ring with its three wrapping indices implements the line discipline:*)
(* consoleread returns whole lines, in order, and no erased character.     *)
THEOREM ConsoleRefines == ConsoleSpec => ConsoleImplements
<1> DEFINE Step == (\E c \in Char : LineDiscipline!Type(c)) \/ LineDiscipline!Erase \/ LineDiscipline!Take
           Shown == <<Chars(input.r, input.w), Chars(input.w, input.e)>>
<1>1. ConsoleInit => LineDiscipline!Init
  BY Zenon, InitHolds
<1>2. ConsoleInv /\ [ConsoleNext]_consVars => [Step]_Shown
  BY Zenon, NextStep, Texts DEF Refines
<1> QED
  BY <1>1, <1>2, ConsoleSound, PTL DEF ConsoleSpec, ConsoleImplements, LineDiscipline!Spec

(* A control-D is used up only by a consoleread that returns 0: no end of  *)
(* file is swallowed by a read of other characters, whoever reads.         *)
THEOREM EveryEofIsSeen == ConsoleSpec => EofIsZeroRead
<1>1. ConsoleInv /\ [ConsoleNext]_consVars => [EofSeen]_consVars
  BY Zenon, NextStep
<1> QED
  BY <1>1, ConsoleSound, PTL DEF ConsoleSpec, EofIsZeroRead, EofSeen
=============================================================================
