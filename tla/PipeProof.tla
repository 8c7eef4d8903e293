----------------------------- MODULE PipeProof ------------------------------
(***************************************************************************)
(* The ring of pipe.c is a queue: the invariant of Pipe, and the proof that*)
(* Pipe implements Fifo, for every size of the ring, every width of its    *)
(* counters that the size divides, and any number of processes.            *)
(***************************************************************************)
EXTENDS Pipe, TLAPS

(* Remainders: counters that wrap where an unsigned int does, and index    *)
(* the ring modulo its size; and what it is to read the ring in two parts. *)

(* Division with remainder. *)
LEMMA Divide ==
  ASSUME NEW U \in Nat \ {0}, NEW x \in Int
  PROVE  /\ x = U * (x \div U) + (x % U) /\ x \div U \in Int /\ x % U \in Int
         /\ 0 <= x % U /\ x % U < U
BY SMTT(10)

(* There is one remainder. *)
LEMMA Remainder ==
  ASSUME NEW U \in Nat \ {0}, NEW x \in Int, NEW q \in Int, NEW r \in Int, 0 <= r, r < U, x = U * q + r
  PROVE  x % U = r
<1> DEFINE d == x \div U
           m == x % U
<1>1. d \in Int /\ m \in Int /\ 0 <= m /\ m < U /\ U * d + m = U * q + r
  BY Divide
<1> HIDE DEF d, m
<1>2. U * (d - q) = r - m
  BY <1>1, SMTT(10)
<1>3. ~(d - q >= 1)
  <2> SUFFICES ASSUME d - q >= 1 PROVE FALSE
    OBVIOUS
  <2>1. U * (d - q) >= U * 1
    BY <1>1, SMTT(10)
  <2> QED
    BY <1>1, <1>2, <2>1
<1>4. ~(d - q <= -1)
  <2> SUFFICES ASSUME d - q <= -1 PROVE FALSE
    OBVIOUS
  <2>1. U * (d - q) <= U * (-1)
    BY <1>1, SMTT(10)
  <2> QED
    BY <1>1, <1>2, <2>1
<1>5. d = q
  BY <1>1, <1>3, <1>4
<1>6. m = r
  BY <1>1, <1>5
<1> QED
  BY <1>6 DEF m

(* One turn more or less makes no difference. *)
LEMMA Turns ==
  ASSUME NEW U \in Nat \ {0}, NEW r \in Int, 0 <= r, r < U
  PROVE  r % U = r /\ (r + U) % U = r /\ (r - U) % U = r
<1>1. r = U * 0 + r /\ r + U = U * 1 + r /\ r - U = U * (-1) + r
  OBVIOUS
<1>2. r + U \in Int /\ r - U \in Int /\ 0 \in Int /\ 1 \in Int /\ -1 \in Int
  OBVIOUS
<1> QED
  BY Zenon, <1>1, <1>2, Remainder

(* Nor do many. *)
LEMMA ManyTurns ==
  ASSUME NEW U \in Nat \ {0}, NEW x \in Int, NEW m \in Int
  PROVE  (x + U * m) % U = x % U
<1>1. PICK q \in Int, r \in Int : x = U * q + r /\ 0 <= r /\ r < U /\ r = x % U
  BY Divide
<1>2. x = U * q + r /\ 0 <= r /\ r < U
  BY Zenon, <1>1
<1>3. PICK y \in Int, n \in Int : y = x + U * m /\ n = q + m
  OBVIOUS
<1>4. y = U * n + r
  BY <1>2, <1>3
<1>5. y % U = r
  BY Zenon, <1>2, <1>4, Remainder
<1> QED
  BY Zenon, <1>1, <1>3, <1>5

Same(U, P, x, y) == ((x % U) + y) % P = (x + y) % P

(* A counter that has wrapped at U indexes an array of P, which divides U, *)
(* as if it had not.                                                       *)
LEMMA Wrapped ==
  ASSUME NEW U \in Nat \ {0}, NEW P \in Nat \ {0}, U % P = 0, NEW x \in Int, NEW y \in Int
  PROVE  Same(U, P, x, y)
<1>1. PICK m \in Int : U = P * m
  BY Divide
<1>2. PICK q \in Int, r \in Int : x = U * q + r /\ r = x % U
  BY Zenon, Divide
<1>3. x + y = (r + y) + P * (m * q)
  <2>1. x = U * q + r
    BY Zenon, <1>2
  <2> QED
    BY <1>1, <2>1, SMTT(10)
<1>4. m * q \in Int /\ r + y \in Int
  BY <1>1
<1>5. ((r + y) + P * (m * q)) % P = (r + y) % P
  BY Zenon, <1>4, ManyTurns
<1> QED
  BY Zenon, <1>2, <1>3, <1>5 DEF Same

(* Neighbours within one turn have places of their own. *)
LEMMA Distinct ==
  ASSUME NEW U \in Nat \ {0}, NEW x \in Int, NEW y \in Int, x < y, y < x + U
  PROVE  x % U # y % U
<1> SUFFICES ASSUME x % U = y % U PROVE FALSE
  OBVIOUS
<1>1. PICK a \in Int, r \in Int : x = U * a + r /\ r = x % U
  BY Zenon, Divide
<1>2. PICK b \in Int : y = U * b + (y % U)
  BY Zenon, Divide
<1>3. x = U * a + r /\ y = U * b + r
  BY Zenon, <1>1, <1>2
<1>4. y - x = U * (b - a)
  BY <1>3, SMTT(10)
<1>5. CASE b - a >= 1
  <2>1. U * (b - a) >= U * 1
    BY <1>5, SMTT(10)
  <2> QED
    BY <1>4, <2>1
<1>6. CASE b - a <= 0
  <2>1. U * (b - a) <= 0
    BY <1>6, SMTT(10)
  <2> QED
    BY <1>4, <2>1
<1> QED
  BY <1>5, <1>6

(* A function on the places of a sequence, with its values, is the sequence*)
LEMMA Listed ==
  ASSUME NEW B, NEW s \in Seq(B), NEW D, D = [k \in 1 .. Len(s) |-> D[k]],
         \A k \in 1 .. Len(s) : D[k] = s[k]
  PROVE  D = s
<1>1. s = [k \in 1 .. Len(s) |-> s[k]]
  OBVIOUS
<1> QED
  BY Zenon, <1>1

(* D holds what C holds, which has c elements, and then what t holds. *)
Extends(B, c, C, D, t) ==
  /\ c \in Nat /\ t \in Seq(B)
  /\ C = [i \in 1 .. c |-> C[i]] /\ \A i \in 1 .. c : C[i] \in B
  /\ D = [i \in 1 .. c + Len(t) |-> D[i]]
  /\ \A i \in 1 .. c : D[i] = C[i]
  /\ \A m \in 1 .. Len(t) : D[c + m] = t[m]

(* Then D is their concatenation. *)
LEMMA Joined ==
  ASSUME NEW B, NEW c, NEW C, NEW D, NEW t, Extends(B, c, C, D, t)
  PROVE  D = C \o t
<1> USE DEF Extends
<1>1. C \in Seq(B) /\ Len(C) = c
  BY SMTT(60)
<1>2. \A i \in 1 .. c + Len(t) : D[i] = IF i <= c THEN C[i] ELSE t[i - c]
  <2> SUFFICES ASSUME NEW i \in 1 .. c + Len(t) PROVE D[i] = IF i <= c THEN C[i] ELSE t[i - c]
    OBVIOUS
  <2>1. CASE i <= c
    BY SMTT(60), <2>1
  <2>2. CASE ~(i <= c)
    <3>1. i - c \in 1 .. Len(t) /\ i = c + (i - c)
      BY <2>2
    <3> QED
      BY Zenon, <2>2, <3>1
  <2> QED
    BY <2>1, <2>2
<1> DEFINE Q == C \o t
<1>3. /\ Q \in Seq(B) /\ Len(Q) = c + Len(t)
      /\ \A i \in 1 .. c + Len(t) : Q[i] = IF i <= c THEN C[i] ELSE t[i - c]
  BY <1>1
<1> HIDE DEF Q
<1>4. D = [i \in 1 .. Len(Q) |-> D[i]] /\ \A i \in 1 .. Len(Q) : D[i] = Q[i]
  BY Zenon, <1>2, <1>3
<1>5. D = Q
  BY ZenonT(30), <1>3, <1>4, Listed
<1> QED
  BY SMTT(20), <1>5 DEF Q

-----------------------------------------------------------------------------

(* The smaller of two numbers, as the loops of pipewrite and piperead stop.*)
LEMMA Smaller ==
  ASSUME NEW a \in Int, NEW b \in Int
  PROVE  Min({a, b}) = IF a <= b THEN a ELSE b
<1> DEFINE m == IF a <= b THEN a ELSE b
<1>1. m \in {a, b} /\ \A y \in {a, b} : m <= y
  OBVIOUS
<1>2. \A x \in {a, b} : (\A y \in {a, b} : x <= y) => x = m
  OBVIOUS
<1>3. Min({a, b}) = m
  BY Zenon, <1>1, <1>2 DEF Min
<1> QED
  BY <1>3

(* How far nwrite is ahead of nread. *)
LEMMA Ahead ==
  ASSUME RingOK
  PROVE  /\ Count \in 0 .. UINT - 1
         /\ nwrite = nread + Count \/ nwrite = nread + Count - UINT
         /\ nwrite = (nread + Count) % UINT
         /\ Count = 0 <=> nread = nwrite
<1>1. /\ UINT \in Nat \ {0} /\ nwrite \in Int /\ nread \in Int
      /\ 0 <= nread /\ nread < UINT /\ 0 <= nwrite /\ nwrite < UINT
  BY PipeAssumption DEF RingOK
<1>2. CASE nread <= nwrite
  <2>1. PICK d \in Int : d = nwrite - nread
    BY <1>1
  <2>2. 0 <= d /\ d < UINT
    BY <1>1, <1>2, <2>1
  <2>3. d % UINT = d
    BY Zenon, <1>1, <2>2, Turns
  <2>4. Count = d
    BY Zenon, <2>1, <2>3 DEF Count
  <2>5. nwrite % UINT = nwrite
    BY Zenon, <1>1, Turns
  <2>6. nread + d = nwrite
    BY <1>1, <2>1
  <2> QED
    BY <1>1, <2>1, <2>2, <2>4, <2>5, <2>6
<1>3. CASE nread > nwrite
  <2>1. PICK d \in Int : d = nwrite - nread + UINT
    BY <1>1
  <2>2. 0 <= d /\ d < UINT
    BY <1>1, <1>3, <2>1
  <2>3. (d - UINT) % UINT = d
    BY Zenon, <1>1, <2>2, Turns
  <2>4. d - UINT = nwrite - nread
    BY <1>1, <2>1
  <2>5. Count = d
    BY Zenon, <2>4, <2>3 DEF Count
  <2>6. (nwrite + UINT) % UINT = nwrite
    BY Zenon, <1>1, Turns
  <2>7. nread + d = nwrite + UINT
    BY <1>1, <2>1
  <2> QED
    BY <1>1, <1>3, <2>1, <2>2, <2>5, <2>6, <2>7
<1> QED
  BY <1>1, <1>2, <1>3

(* nwrite behind k bytes more, nread behind k bytes less. *)
LEMMA Moves ==
  ASSUME RingOK, NEW k \in Nat
  PROVE  /\ Advance(nwrite, k) \in 0 .. UINT - 1 /\ Advance(nread, k) \in 0 .. UINT - 1
         /\ Count + k <= PIPESIZE => (Advance(nwrite, k) - nread) % UINT = Count + k
         /\ k <= Count => (nwrite - Advance(nread, k)) % UINT = Count - k
<1>1. /\ UINT \in Nat \ {0} /\ nwrite \in Int /\ nread \in Int
      /\ 0 <= nread /\ nread < UINT /\ 0 <= nwrite /\ nwrite < UINT
  BY PipeAssumption DEF RingOK
<1>2. PICK c \in Int : /\ c = Count /\ 0 <= c /\ c < UINT
                       /\ nwrite = nread + c \/ nwrite = nread + c - UINT
  <2>1. Count \in Int /\ 0 <= Count /\ Count < UINT
    BY <1>1, Ahead
  <2> QED
    BY Zenon, <2>1, Ahead
<1>3. \A n \in Int : (n + k) % UINT \in Int /\ 0 <= (n + k) % UINT /\ (n + k) % UINT < UINT
  <2>1. \A n \in Int : n + k \in Int
    OBVIOUS
  <2> QED
    BY Zenon, <1>1, <2>1, Divide
<1>4. ASSUME NEW n \in Int, 0 <= n, n < UINT, k < UINT
      PROVE  Advance(n, k) = n + k \/ Advance(n, k) = n + k - UINT
  <2>1. CASE n + k < UINT
    BY <1>1, <1>4, <2>1, Turns DEF Advance
  <2>2. CASE n + k >= UINT
    <3>1. PICK r \in Int : r = n + k - UINT /\ 0 <= r /\ r < UINT
      BY <1>1, <1>4, <2>2
    <3>2. (r + UINT) % UINT = r
      BY Zenon, <1>1, <3>1, Turns
    <3> QED
      BY <1>1, <3>1, <3>2 DEF Advance
  <2> QED
    BY <1>1, <1>4, <2>1, <2>2
<1>5. ASSUME c + k <= PIPESIZE PROVE (Advance(nwrite, k) - nread) % UINT = c + k
  <2>1. k < UINT /\ c + k \in Int /\ 0 <= c + k /\ c + k < UINT
    BY PipeAssumption, <1>1, <1>2, <1>5
  <2>2. Advance(nwrite, k) = nwrite + k \/ Advance(nwrite, k) = nwrite + k - UINT
    BY Zenon, <1>1, <1>4, <2>1
  <2>3. 0 <= Advance(nwrite, k) /\ Advance(nwrite, k) < UINT
    BY Zenon, <1>1, <1>3 DEF Advance
  <2>4. \/ Advance(nwrite, k) - nread = c + k
        \/ Advance(nwrite, k) - nread = (c + k) - UINT
        \/ Advance(nwrite, k) - nread = (c + k) + UINT
    BY <1>1, <1>2, <2>1, <2>2, <2>3
  <2> QED
    BY Zenon, <1>1, <2>1, <2>4, Turns
<1>6. ASSUME k <= c PROVE (nwrite - Advance(nread, k)) % UINT = c - k
  <2>1. k < UINT /\ c - k \in Int /\ 0 <= c - k /\ c - k < UINT
    BY <1>1, <1>2, <1>6
  <2>2. Advance(nread, k) = nread + k \/ Advance(nread, k) = nread + k - UINT
    BY Zenon, <1>1, <1>4, <2>1
  <2>3. 0 <= Advance(nread, k) /\ Advance(nread, k) < UINT
    BY Zenon, <1>1, <1>3 DEF Advance
  <2>4. \/ nwrite - Advance(nread, k) = c - k
        \/ nwrite - Advance(nread, k) = (c - k) - UINT
        \/ nwrite - Advance(nread, k) = (c - k) + UINT
    BY <1>1, <1>2, <2>1, <2>2, <2>3
  <2> QED
    BY Zenon, <1>1, <2>1, <2>4, Turns
<1>7. \A n \in Int : Advance(n, k) \in 0 .. UINT - 1
  BY <1>1, <1>3 DEF Advance
<1> QED
  BY <1>1, <1>2, <1>5, <1>6, <1>7

(* Where the m-th byte behind nwrite is stored, and where the i-th of those*)
(* behind a new nread was: nobody sees the counters wrap.                  *)
LEMMA Slots ==
  ASSUME RingOK, NEW m \in Int
  PROVE  /\ (nwrite + m - 1) % PIPESIZE = (nread + Count + m - 1) % PIPESIZE
         /\ \A k \in Nat : (Advance(nread, k) + m - 1) % PIPESIZE = (nread + k + m - 1) % PIPESIZE
<1>1. UINT \in Nat \ {0} /\ PIPESIZE \in Nat \ {0} /\ UINT % PIPESIZE = 0 /\ nread \in Int /\ nwrite \in Int
  BY PipeAssumption DEF RingOK
<1>2. Count \in Int
  BY <1>1, Ahead
<1>3. PICK d \in Int : d = m - 1
  OBVIOUS
<1>4. ASSUME NEW x \in Int PROVE ((x % UINT) + m - 1) % PIPESIZE = (x + m - 1) % PIPESIZE
  <2>1. Same(UINT, PIPESIZE, x, d)
    BY Zenon, <1>1, Wrapped
  <2>2. x % UINT \in Int
    BY Zenon, <1>1, Divide
  <2>3. (x % UINT) + m - 1 = (x % UINT) + d
    BY <1>3, <2>2
  <2>4. x + m - 1 = x + d
    BY <1>3
  <2> QED
    BY Zenon, <2>1, <2>3, <2>4 DEF Same
<1>5. nread + Count \in Int /\ \A k \in Nat : nread + k \in Int
  BY <1>1, <1>2
<1>6. nwrite = (nread + Count) % UINT
  BY Zenon, Ahead
<1> QED
  BY Zenon, <1>4, <1>5, <1>6 DEF Advance

(* pipewrite stores its bytes in free places, and each in its own. *)
LEMMA StoredAt ==
  ASSUME RingOK, NEW s \in Seq(Byte), NEW k \in Nat, k <= Len(s), Count + k <= PIPESIZE
  PROVE  /\ Stored(s, k) \in [0 .. PIPESIZE - 1 -> Byte]
         /\ \A i \in 1 .. Count : Stored(s, k)[(nread + i - 1) % PIPESIZE] = data[(nread + i - 1) % PIPESIZE]
         /\ \A m \in 1 .. k : Stored(s, k)[(nread + Count + m - 1) % PIPESIZE] = s[m]
<1> DEFINE At(m) == (nwrite + m - 1) % PIPESIZE
           Old(i) == (nread + i - 1) % PIPESIZE
           New(m) == (nread + Count + m - 1) % PIPESIZE
<1>1. PIPESIZE \in Nat \ {0} /\ nread \in Int /\ nwrite \in Int /\ Count \in Int
  BY PipeAssumption, Ahead DEF RingOK
<1>2. \A m \in Int : At(m) = New(m)
  BY Zenon, Slots
<1>3. \A x \in Int : x % PIPESIZE \in 0 .. PIPESIZE - 1
  BY <1>1, Divide
<1>4. \A m \in 1 .. k : New(m) \in 0 .. PIPESIZE - 1
  <2>1. \A m \in 1 .. k : nread + Count + m - 1 \in Int
    BY <1>1
  <2> QED
    BY Zenon, <1>3, <2>1
<1>5. \A i \in 1 .. Count : Old(i) \in 0 .. PIPESIZE - 1
  <2>1. \A i \in 1 .. Count : nread + i - 1 \in Int
    BY <1>1
  <2> QED
    BY Zenon, <1>3, <2>1
<1>6. ASSUME NEW i \in 1 .. Count, NEW m \in 1 .. k PROVE Old(i) # New(m)
  <2>1. PICK x \in Int, y \in Int : x = nread + i - 1 /\ y = nread + Count + m - 1
    BY <1>1
  <2>2. x < y /\ y < x + PIPESIZE
    BY <1>1, <2>1
  <2> QED
    BY Zenon, <1>1, <2>1, <2>2, Distinct
<1>7. ASSUME NEW m \in 1 .. k, NEW n \in 1 .. k, m < n PROVE New(m) # New(n)
  <2>1. PICK x \in Int, y \in Int : x = nread + Count + m - 1 /\ y = nread + Count + n - 1
    BY <1>1
  <2>2. x < y /\ y < x + PIPESIZE
    <3>1. Count >= 0
      BY Ahead
    <3> QED
      BY <1>1, <1>7, <2>1, <3>1
  <2> QED
    BY Zenon, <1>1, <2>1, <2>2, Distinct
<1>8. \A m, n \in 1 .. k : New(m) = New(n) => m = n
  <2>1. \A m, n \in 1 .. k : m < n \/ n < m \/ m = n
    OBVIOUS
  <2> QED
    BY Zenon, <1>7, <2>1
<1>9. 1 .. k \subseteq Int /\ 1 .. k \subseteq 1 .. Len(s)
  OBVIOUS
<1> DEFINE Which(j) == CHOOSE m \in 1 .. k : At(m) = j
<1>10. \A j : (\E m \in 1 .. k : At(m) = j) => Which(j) \in 1 .. k /\ At(Which(j)) = j
  BY Zenon
<1>11. \A m \in 1 .. k : Which(New(m)) = m
  BY Zenon, <1>2, <1>8, <1>9, <1>10
<1>12. \A j : Which(j) = CHOOSE m \in 1 .. k : (nwrite + m - 1) % PIPESIZE = j
  BY Zenon
<1>13. \A j \in 0 .. PIPESIZE - 1 :
          Stored(s, k)[j] = IF \E m \in 1 .. k : At(m) = j THEN s[Which(j)] ELSE data[j]
  BY Zenon DEF Stored
<1> HIDE DEF At, Old, New, Which
<1>14. \A i \in 1 .. Count : Stored(s, k)[Old(i)] = data[Old(i)]
  <2> SUFFICES ASSUME NEW i \in 1 .. Count PROVE Stored(s, k)[Old(i)] = data[Old(i)]
    OBVIOUS
  <2>1. ~ \E m \in 1 .. k : At(m) = Old(i)
    BY Zenon, <1>2, <1>6, <1>9
  <2> QED
    BY Zenon, <1>5, <1>13, <2>1
<1>15. \A m \in 1 .. k : Stored(s, k)[New(m)] = s[m]
  BY Zenon, <1>2, <1>4, <1>9, <1>11, <1>13
<1>16. \A j \in 0 .. PIPESIZE - 1 : Stored(s, k)[j] \in Byte
  <2>1. \A m \in 1 .. k : s[m] \in Byte
    BY <1>9
  <2>2. \A j \in 0 .. PIPESIZE - 1 : data[j] \in Byte
    BY DEF RingOK
  <2> QED
    BY Zenon, <1>10, <1>13, <2>1, <2>2
<1>17. Stored(s, k) = [j \in 0 .. PIPESIZE - 1 |-> Stored(s, k)[j]]
  BY Zenon DEF Stored
<1>18. Stored(s, k) \in [0 .. PIPESIZE - 1 -> Byte]
  BY <1>16, <1>17
<1> QED
  BY Zenon, <1>14, <1>15, <1>18 DEF Old, New

(* pipewrite adds its bytes to the end of the queue. *)
LEMMA Puts ==
  ASSUME RingOK, NEW s \in Seq(Byte), NEW k \in Nat, k <= Len(s), Count + k <= PIPESIZE,
         data' = Stored(s, k), nwrite' = Advance(nwrite, k), nread' = nread
  PROVE  RingOK' /\ Count' = Count + k /\ Contents' = Contents \o SubSeq(s, 1, k)
<1>1. PIPESIZE \in Nat \ {0} /\ nread \in Int /\ Count \in Nat
  BY PipeAssumption, Ahead DEF RingOK
<1>2. Count' = Count + k
  BY Zenon, Moves DEF Count
<1>3. RingOK'
  BY Zenon, Moves, StoredAt DEF RingOK
<1>4. SubSeq(s, 1, k) \in Seq(Byte) /\ Len(SubSeq(s, 1, k)) = k /\ \A m \in 1 .. k : SubSeq(s, 1, k)[m] = s[m]
  OBVIOUS
<1>5. /\ \A i \in 1 .. Count : data'[(nread + i - 1) % PIPESIZE] = data[(nread + i - 1) % PIPESIZE]
      /\ \A m \in 1 .. k : data'[(nread + Count + m - 1) % PIPESIZE] = s[m]
  BY ZenonT(30), StoredAt
<1>6. ASSUME NEW i \in 1 .. Count PROVE Contents'[i] = Contents[i]
  <2>1. i \in 1 .. Count + k
    BY <1>1
  <2> QED
    BY Zenon, <1>2, <1>5, <2>1 DEF Contents
<1>7. ASSUME NEW m \in 1 .. k PROVE Contents'[Count + m] = s[m]
  <2>1. Count + m \in 1 .. Count + k /\ nread + (Count + m) - 1 = nread + Count + m - 1
    BY <1>1
  <2>2. Contents'[Count + m] = data'[(nread' + (Count + m) - 1) % PIPESIZE]
    BY Zenon, <1>2, <2>1 DEF Contents
  <2> QED
    BY Zenon, <1>5, <2>1, <2>2
<1>8. Contents' = [i \in 1 .. Count + k |-> Contents'[i]] /\ Contents = [i \in 1 .. Count |-> Contents[i]]
  BY Zenon, <1>2 DEF Contents
<1>9. \A i \in 1 .. Count : Contents[i] \in Byte
  <2>1. \A i \in 1 .. Count : (nread + i - 1) % PIPESIZE \in 0 .. PIPESIZE - 1
    <3>1. \A i \in 1 .. Count : nread + i - 1 \in Int
      BY <1>1
    <3>2. \A x \in Int : x % PIPESIZE \in 0 .. PIPESIZE - 1
      BY <1>1, Divide
    <3> QED
      BY Zenon, <3>1, <3>2
  <2> QED
    BY Zenon, <2>1 DEF Contents, RingOK
<1>10. Contents' = Contents \o SubSeq(s, 1, k)
  <2>1. Extends(Byte, Count, Contents, Contents', SubSeq(s, 1, k))
    BY Zenon, <1>1, <1>4, <1>6, <1>7, <1>8, <1>9 DEF Extends
  <2> QED
    BY Zenon, <2>1, Joined
<1> QED
  BY Zenon, <1>2, <1>3, <1>10

(* piperead takes bytes from its front. *)
LEMMA Gets ==
  ASSUME RingOK, NEW k \in Nat, k <= Count, nread' = Advance(nread, k), data' = data, nwrite' = nwrite
  PROVE  RingOK' /\ Count' = Count - k /\ Contents' = SubSeq(Contents, k + 1, Len(Contents))
<1>1. PIPESIZE \in Nat \ {0} /\ nread \in Int /\ Count \in Nat
  BY PipeAssumption, Ahead DEF RingOK
<1>2. Count' = Count - k
  BY Zenon, Moves DEF Count
<1>3. RingOK'
  BY Zenon, Moves DEF RingOK
<1>4. ASSUME NEW i \in 1 .. Count - k PROVE Contents'[i] = Contents[k + i]
  <2>1. k + i \in 1 .. Count /\ nread + (k + i) - 1 = nread + k + i - 1 /\ i \in Int
    BY <1>1
  <2>2. Contents[k + i] = data[(nread + (k + i) - 1) % PIPESIZE]
    BY Zenon, <2>1 DEF Contents
  <2>3. Contents'[i] = data[(Advance(nread, k) + i - 1) % PIPESIZE]
    BY Zenon, <1>2 DEF Contents
  <2> QED
    BY Zenon, <2>1, <2>2, <2>3, Slots
<1> DEFINE c == Count
           C == Contents
           D == Contents'
<1>5. D = [i \in 1 .. c - k |-> D[i]] /\ C = [i \in 1 .. c |-> C[i]]
  BY Zenon, <1>2 DEF Contents
<1>6. c \in Nat /\ k <= c /\ \A i \in 1 .. c - k : D[i] = C[k + i]
  BY Zenon, <1>1, <1>4
<1> HIDE DEF c, C, D
<1>7. C \in Seq(Range(C)) /\ Len(C) = c
  BY SMTT(20), <1>5, <1>6 DEF Range
<1>8. SubSeq(C, k + 1, c) = [i \in 1 .. c - k |-> C[k + i]]
  BY <1>6, <1>7
<1>9. D = SubSeq(C, k + 1, Len(C))
  BY Zenon, <1>5, <1>6, <1>7, <1>8
<1> QED
  BY Zenon, <1>2, <1>3, <1>9 DEF c, C, D

-----------------------------------------------------------------------------
(* Nothing moves in the ring. *)
LEMMA RingFrame ==
  ASSUME RingOK, UNCHANGED ring
  PROVE  RingOK' /\ Count' = Count /\ Contents' = Contents
BY Zenon DEF RingOK, ring, Count, Contents

(* A process is in the call that its place says, and in none elsewhere. *)
LEMMA Places ==
  ASSUME PipeInv, NEW q \in Proc
  PROVE  /\ pc[q] = "user" \/ pc[q] \in Writing \/ pc[q] \in Reading
         /\ q \notin rfd \cup wfd => pc[q] = "user"
<1>1. pc[q] \in Pcs
  BY DEF PipeInv, TypeOK, CallOK
<1>2. pc[q] = "user" \/ pc[q] \in Writing \/ pc[q] \in Reading
  BY <1>1 DEF Pcs, Writing, Reading
<1> QED
  BY Zenon, <1>2 DEF PipeInv, FreedOnce

(* The bytes that pipewrite(p) stores, and those that stay. *)
Fit(p)  == Min({Len(call[p].rest), Space})
Left(p) == SubSeq(call[p].rest, Fit(p) + 1, Len(call[p].rest))

(* pipewrite stops at the end of its bytes or at a full pipe. *)
LEMMA Fits ==
  ASSUME PipeInv, NEW p \in Proc, pc[p] = "write"
  PROVE  /\ call[p] \in WriteCall /\ call[p].rest \in Seq(Byte) /\ Fit(p) \in Nat
         /\ Fit(p) <= Len(call[p].rest) /\ Count + Fit(p) <= PIPESIZE
         /\ Left(p) \in Seq(Byte)
         /\ Left(p) # <<>> => Count + Fit(p) = PIPESIZE
<1>1. call[p] \in WriteCall
  BY DEF PipeInv, InCall, Writing
<1>2. call[p].rest \in Seq(Byte)
  BY <1>1 DEF WriteCall
<1>3. Count \in Nat /\ Count <= PIPESIZE /\ PIPESIZE \in Nat /\ Len(call[p].rest) \in Nat
  <2>1. Count \in 0 .. UINT - 1
    BY Zenon, Ahead DEF PipeInv, TypeOK
  <2> QED
    BY PipeAssumption, <1>2, <2>1 DEF PipeInv, SleepersWait
<1>4. Fit(p) = IF Len(call[p].rest) <= Space THEN Len(call[p].rest) ELSE Space
  BY SMTT(60), <1>3, Smaller DEF Fit, Space
<1>5. Fit(p) \in Nat /\ Fit(p) <= Len(call[p].rest) /\ Count + Fit(p) <= PIPESIZE
  BY <1>3, <1>4 DEF Space
<1>6. Left(p) \in Seq(Byte)
  BY <1>2, <1>5 DEF Left
<1>7. ASSUME Fit(p) = Len(call[p].rest) PROVE Left(p) = <<>>
  BY <1>2, <1>5, <1>7 DEF Left
<1>8. Left(p) # <<>> => Count + Fit(p) = PIPESIZE
  BY <1>3, <1>4, <1>7 DEF Space
<1> QED
  BY Zenon, <1>1, <1>2, <1>5, <1>6, <1>8

(* What pipewrite does to the ring. *)
LEMMA WriteRing ==
  ASSUME PipeInv, NEW p \in Proc, pipewrite(p)
  PROVE  RingOK' /\ Count' = Count + Fit(p) /\ Contents' = Contents \o SubSeq(call[p].rest, 1, Fit(p))
<1>1. pc[p] = "write" /\ data' = Stored(call[p].rest, Fit(p)) /\ nwrite' = Advance(nwrite, Fit(p)) /\ nread' = nread
  BY Zenon DEF pipewrite, Fit
<1> QED
  BY Zenon, <1>1, Fits, Puts DEF PipeInv, TypeOK

(* What a read takes. *)
Take(p) == Min({call[p].n, Count})

(* What piperead does to the ring when it takes bytes. *)
LEMMA ReadRing ==
  ASSUME PipeInv, NEW p \in Proc, pc[p] = "read",
         nread' = Advance(nread, Take(p)), data' = data, nwrite' = nwrite
  PROVE  RingOK' /\ Take(p) \in Nat /\ Take(p) <= Count /\ Count' = Count - Take(p)
         /\ Contents' = SubSeq(Contents, Take(p) + 1, Len(Contents))
<1>1. call[p] \in ReadCall
  BY DEF PipeInv, InCall, Reading
<1>2. Count \in 0 .. UINT - 1
  BY Zenon, Ahead DEF PipeInv, TypeOK
<1>3. call[p].n \in Nat /\ Count \in Nat
  BY PipeAssumption, <1>1, <1>2 DEF ReadCall
<1>4. Take(p) \in Nat /\ Take(p) <= Count
  BY <1>3, Smaller DEF Take
<1> QED
  BY Zenon, <1>4, Gets DEF PipeInv, TypeOK
-----------------------------------------------------------------------------
(* Init satisfies the invariant. *)
LEMMA InitHolds == Init => PipeInv
<1> SUFFICES ASSUME Init PROVE PipeInv
  OBVIOUS
<1>1. RingOK
  BY PipeAssumption DEF Init, RingOK
<1>2. EndsOK /\ FreedOnce
  BY Zenon DEF Init, EndsOK, FreedOnce, Writing, Reading
<1>3. CallOK /\ InCall
  BY DEF Init, CallOK, InCall, Pcs, Writing, Reading
<1>4. Count = 0
  BY SMTT(20), <1>1, Ahead DEF Init
<1>5. SleepersWait
  BY PipeAssumption, <1>4 DEF Init, SleepersWait
<1> QED
  BY Zenon, <1>1, <1>2, <1>3, <1>5 DEF PipeInv, TypeOK


(* pipealloc finds nobody in a call: the last pipe is closed. *)
LEMMA AllocHolds ==
  ASSUME PipeInv, NEW p \in Proc, pipealloc(p)
  PROVE  PipeInv'
<1>1. rfd = {} /\ wfd = {}
  BY Zenon DEF PipeInv, FreedOnce, pipealloc
<1>2. \A q \in Proc : pc[q] = "user"
  BY Zenon, <1>1, Places
<1>3. RingOK'
  BY PipeAssumption DEF pipealloc, RingOK
<1>4. Count' = 0
  <2>1. 0 % UINT = 0 /\ 0 - 0 = 0
    BY PipeAssumption, Turns
  <2> QED
    BY Zenon, <2>1 DEF pipealloc, Count
<1>5. EndsOK' /\ CallOK'
  BY SMTT(20) DEF PipeInv, TypeOK, EndsOK, CallOK, pipealloc
<1>6. FreedOnce' /\ InCall'
  BY <1>2 DEF PipeInv, FreedOnce, InCall, Writing, Reading, pipealloc
<1>7. SleepersWait'
  BY PipeAssumption, <1>2, <1>4 DEF SleepersWait, pipealloc
<1> QED
  BY Zenon, <1>3, <1>5, <1>6, <1>7 DEF PipeInv, TypeOK

(* fork gives ends to a process that is in no call. *)
LEMMA ForkHolds ==
  ASSUME PipeInv, NEW p \in Proc, NEW q \in Proc, fork(p, q)
  PROVE  PipeInv'
<1>1. RingOK' /\ Count' = Count
  BY Zenon, RingFrame DEF PipeInv, TypeOK, fork, pipe
<1>2. EndsOK' /\ CallOK'
  BY DEF PipeInv, TypeOK, EndsOK, CallOK, fork, pipe
<1>3. FreedOnce'
  BY DEF PipeInv, FreedOnce, fork, pipe
<1>4. InCall' /\ SleepersWait'
  BY Zenon, <1>1 DEF PipeInv, InCall, SleepersWait, fork, pipe
<1> QED
  BY Zenon, <1>1, <1>2, <1>3, <1>4 DEF PipeInv, TypeOK

(* pipeclose wakes the writers when the other end is gone. *)
LEMMA CloseReadHolds ==
  ASSUME PipeInv, NEW p \in Proc, pipeclose_read(p)
  PROVE  PipeInv'
<1>1. RingOK' /\ Count' = Count
  BY Zenon, RingFrame DEF PipeInv, TypeOK, pipeclose_read
<1>2. \A q \in Proc : pc[q] \notin {"wsleep", "rsleep"}
  BY PipeAssumption DEF PipeInv, InCall, pipeclose_read
<1>3. EndsOK' /\ CallOK'
  BY Zenon DEF PipeInv, TypeOK, EndsOK, CallOK, Pcs, pipeclose_read, WakeWriters
<1>4. FreedOnce'
  BY DEF PipeInv, TypeOK, EndsOK, CallOK, FreedOnce, FreeWhen, Writing, Reading, pipeclose_read, WakeWriters
<1>5. InCall'
  BY ZenonT(30), <1>2 DEF PipeInv, InCall, Writing, Reading, pipeclose_read, WakeWriters
<1>6. SleepersWait'
  BY Zenon, <1>1, <1>2 DEF PipeInv, SleepersWait, pipeclose_read, WakeWriters
<1> QED
  BY Zenon, <1>1, <1>3, <1>4, <1>5, <1>6 DEF PipeInv, TypeOK

(* pipeclose wakes the readers when the other end is gone. *)
LEMMA CloseWriteHolds ==
  ASSUME PipeInv, NEW p \in Proc, pipeclose_write(p)
  PROVE  PipeInv'
<1>1. RingOK' /\ Count' = Count
  BY Zenon, RingFrame DEF PipeInv, TypeOK, pipeclose_write
<1>2. \A q \in Proc : pc[q] \notin {"wsleep", "rsleep"}
  BY PipeAssumption DEF PipeInv, InCall, pipeclose_write
<1>3. EndsOK' /\ CallOK'
  BY Zenon DEF PipeInv, TypeOK, EndsOK, CallOK, Pcs, pipeclose_write, WakeReaders
<1>4. FreedOnce'
  BY DEF PipeInv, TypeOK, EndsOK, CallOK, FreedOnce, FreeWhen, Writing, Reading, pipeclose_write, WakeReaders
<1>5. InCall'
  BY ZenonT(30), <1>2 DEF PipeInv, InCall, Writing, Reading, pipeclose_write, WakeReaders
<1>6. SleepersWait'
  BY Zenon, <1>1, <1>2 DEF PipeInv, SleepersWait, pipeclose_write, WakeReaders
<1> QED
  BY Zenon, <1>1, <1>3, <1>4, <1>5, <1>6 DEF PipeInv, TypeOK

(* A write starts. *)
LEMMA SysWriteHolds ==
  ASSUME PipeInv, NEW p \in Proc, NEW s \in Messages, sys_write(p, s)
  PROVE  PipeInv'
<1>1. RingOK' /\ Count' = Count
  BY Zenon, RingFrame DEF PipeInv, TypeOK, sys_write, Start, pipe
<1>2. Write(s) \in WriteCall
  BY SMTT(20), PipeAssumption DEF Write, WriteCall
<1>3. EndsOK' /\ CallOK'
  BY <1>2 DEF PipeInv, TypeOK, EndsOK, CallOK, Pcs, sys_write, Start, pipe, fds
<1>4. FreedOnce'
  BY DEF PipeInv, TypeOK, CallOK, FreedOnce, Writing, Reading, sys_write, Start, pipe, fds
<1>5. InCall'
  BY <1>2 DEF PipeInv, TypeOK, CallOK, InCall, Writing, Reading, sys_write, Start
<1>6. SleepersWait'
  BY <1>1 DEF PipeInv, TypeOK, CallOK, SleepersWait, sys_write, Start, pipe
<1> QED
  BY Zenon, <1>1, <1>3, <1>4, <1>5, <1>6 DEF PipeInv, TypeOK

(* A read starts. *)
LEMMA SysReadHolds ==
  ASSUME PipeInv, NEW p \in Proc, NEW n \in 0 .. MaxN, sys_read(p, n)
  PROVE  PipeInv'
<1>1. RingOK' /\ Count' = Count
  BY Zenon, RingFrame DEF PipeInv, TypeOK, sys_read, Start, pipe
<1>2. Read(n) \in ReadCall
  BY PipeAssumption DEF Read, ReadCall
<1>3. EndsOK' /\ CallOK'
  BY <1>2 DEF PipeInv, TypeOK, EndsOK, CallOK, Pcs, sys_read, Start, pipe, fds
<1>4. FreedOnce'
  BY SMTT(20) DEF PipeInv, TypeOK, CallOK, FreedOnce, Writing, Reading, sys_read, Start, pipe, fds
<1>5. InCall'
  BY SMTT(20), <1>2 DEF PipeInv, TypeOK, CallOK, InCall, Writing, Reading, sys_read, Start
<1>6. SleepersWait'
  BY <1>1 DEF PipeInv, TypeOK, CallOK, SleepersWait, sys_read, Start, pipe
<1> QED
  BY Zenon, <1>1, <1>3, <1>4, <1>5, <1>6 DEF PipeInv, TypeOK
(* pipewrite fills the ring, and sleeps only when it is full. *)
LEMMA WriteHolds ==
  ASSUME PipeInv, NEW p \in Proc, pipewrite(p)
  PROVE  PipeInv'
<1>1. pc[p] = "write" /\ plock = NoProc
  BY DEF pipewrite
<1>2. /\ Fit(p) \in Nat /\ Count + Fit(p) <= PIPESIZE /\ Left(p) \in Seq(Byte)
      /\ Left(p) # <<>> => Count + Fit(p) = PIPESIZE
  BY Zenon, <1>1, Fits
<1>3. RingOK' /\ Count' = Count + Fit(p)
  BY Zenon, WriteRing
<1>4. Count \in Nat /\ PIPESIZE \in Nat
  BY PipeAssumption, Ahead DEF PipeInv, TypeOK
<1>5. /\ UNCHANGED <<nread, readopen, writeopen, alloc, rfd, wfd, killed>>
      /\ \/ /\ pc' = WakeReaders([pc EXCEPT ![p] = "user"]) \/ pc' = [pc EXCEPT ![p] = "user"]
            /\ call' = [call EXCEPT ![p] = Idle] /\ plock' = plock
         \/ /\ Left(p) # <<>> /\ readopen /\ pc' = WakeReaders([pc EXCEPT ![p] = "wsleep"])
            /\ call' = [call EXCEPT ![p] = Write(Left(p))] /\ plock' = p
  BY Zenon DEF pipewrite, Fit, Left, Return, fds
<1>6. Write(Left(p)) \in WriteCall
  BY <1>2 DEF Write, WriteCall
<1>7. \A q \in Proc : pc[q] \notin {"wsleep", "rsleep"}
  BY PipeAssumption, <1>1 DEF PipeInv, InCall
<1>8. EndsOK'
  BY Zenon, <1>5 DEF PipeInv, TypeOK, EndsOK
<1>9. CallOK'
  BY SMTT(20), <1>5, <1>6 DEF PipeInv, TypeOK, CallOK, Pcs, WakeReaders
<1>10. FreedOnce'
  BY SMTT(20), <1>1, <1>5 DEF PipeInv, TypeOK, CallOK, FreedOnce, Writing, Reading, WakeReaders
<1>11. InCall'
  BY SMTT(20), <1>1, <1>5, <1>6, <1>7 DEF PipeInv, TypeOK, CallOK, InCall, Writing, Reading, WakeReaders
<1>12. \A q \in Proc : /\ pc'[q] \in {"wsleep", "wasleep"} => (q = p /\ Left(p) # <<>> /\ readopen) \/ pc[q] = "wasleep"
                       /\ pc'[q] # "rsleep"
  BY SMTT(20), <1>5, <1>7 DEF PipeInv, TypeOK, CallOK, WakeReaders
<1>13. SleepersWait'
  BY <1>2, <1>3, <1>4, <1>5, <1>12 DEF PipeInv, SleepersWait
<1> QED
  BY Zenon, <1>3, <1>8, <1>9, <1>10, <1>11, <1>13 DEF PipeInv, TypeOK

(* piperead sleeps only on an empty ring, and wakes the writers when it    *)
(* takes bytes.                                                            *)
LEMMA ReadHolds ==
  ASSUME PipeInv, NEW p \in Proc, piperead(p)
  PROVE  PipeInv'
<1>1. pc[p] = "read" /\ plock = NoProc /\ UNCHANGED <<data, nwrite, readopen, writeopen, alloc, rfd, wfd, killed>>
  BY SMTT(20) DEF piperead, fds
<1>2. \A q \in Proc : pc[q] \notin {"wsleep", "rsleep"}
  BY PipeAssumption, <1>1 DEF PipeInv, InCall
<1>3. EndsOK'
  BY Zenon, <1>1 DEF PipeInv, TypeOK, EndsOK
<1>4. /\ \/ /\ pc' = [pc EXCEPT ![p] = "user"] \/ pc' = WakeWriters([pc EXCEPT ![p] = "user"])
            /\ call' = [call EXCEPT ![p] = Idle] /\ plock' = plock
         \/ /\ pc' = [pc EXCEPT ![p] = "rsleep"] /\ call' = call /\ plock' = p
  BY Zenon DEF piperead, Return
<1>5. CallOK'
  BY SMTT(20), <1>4 DEF PipeInv, TypeOK, CallOK, Pcs, WakeWriters
<1>6. FreedOnce'
  BY SMTT(20), <1>1, <1>4 DEF PipeInv, TypeOK, CallOK, FreedOnce, Writing, Reading, WakeWriters
<1>7. InCall'
  BY SMTT(20), <1>1, <1>2, <1>4 DEF PipeInv, TypeOK, CallOK, InCall, Writing, Reading, WakeWriters
<1>8. CASE nread = nwrite /\ writeopen /\ nread' = nread
            /\ (pc' = [pc EXCEPT ![p] = "user"] \/ pc' = [pc EXCEPT ![p] = "rsleep"])
  <2>1. RingOK' /\ Count' = Count
    BY Zenon, <1>1, <1>8, RingFrame DEF PipeInv, TypeOK, ring
  <2>2. Count = 0
    BY SMTT(20), <1>8, Ahead DEF PipeInv, TypeOK
  <2>3. SleepersWait'
    BY SMTT(20), PipeAssumption, <1>1, <1>8, <2>1, <2>2 DEF PipeInv, TypeOK, CallOK, SleepersWait
  <2> QED
    BY Zenon, <1>3, <1>5, <1>6, <1>7, <2>1, <2>3 DEF PipeInv, TypeOK
<1>9. CASE nread' = Advance(nread, Take(p)) /\ pc' = WakeWriters([pc EXCEPT ![p] = "user"])
  <2>1. RingOK' /\ Take(p) \in Nat /\ Count' = Count - Take(p)
    BY Zenon, <1>1, <1>9, ReadRing
  <2>2. Count \in Nat /\ PIPESIZE \in Nat
    BY PipeAssumption, Ahead DEF PipeInv, TypeOK
  <2>3. \A q \in Proc : pc'[q] \notin {"wsleep", "wasleep", "rsleep"}
    BY SMTT(20), <1>2, <1>9 DEF PipeInv, TypeOK, CallOK, WakeWriters
  <2>4. SleepersWait'
    BY SMTT(20), <2>1, <2>2, <2>3 DEF PipeInv, SleepersWait
  <2> QED
    BY Zenon, <1>3, <1>5, <1>6, <1>7, <2>1, <2>4 DEF PipeInv, TypeOK
<1> QED
  BY Zenon, <1>8, <1>9 DEF piperead, Take

(* sleep gives up p->lock. *)
LEMMA SleepHolds ==
  ASSUME PipeInv, NEW p \in Proc, sleep(p)
  PROVE  PipeInv'
<1>1. RingOK' /\ Count' = Count
  BY Zenon, RingFrame DEF PipeInv, TypeOK, sleep, pipe
<1>2. EndsOK' /\ CallOK'
  BY DEF PipeInv, TypeOK, EndsOK, CallOK, Pcs, sleep, pipe, fds
<1>3. FreedOnce'
  BY DEF PipeInv, TypeOK, CallOK, FreedOnce, Writing, Reading, sleep, pipe, fds
<1>4. InCall'
  BY DEF PipeInv, TypeOK, CallOK, InCall, Writing, Reading, sleep
<1>5. SleepersWait'
  BY SMTT(20), <1>1 DEF PipeInv, TypeOK, CallOK, SleepersWait, sleep, pipe
<1> QED
  BY Zenon, <1>1, <1>2, <1>3, <1>4, <1>5 DEF PipeInv, TypeOK

(* kill wakes a sleeper. *)
LEMMA KillHolds ==
  ASSUME PipeInv, NEW p \in Proc, kill(p)
  PROVE  PipeInv'
<1>1. RingOK' /\ Count' = Count
  BY Zenon, RingFrame DEF PipeInv, TypeOK, kill, pipe
<1>2. EndsOK' /\ CallOK'
  BY DEF PipeInv, TypeOK, EndsOK, CallOK, Pcs, kill, pipe, fds
<1>3. FreedOnce'
  BY DEF PipeInv, TypeOK, CallOK, FreedOnce, Writing, Reading, kill, pipe, fds
<1>4. InCall'
  BY DEF PipeInv, TypeOK, CallOK, InCall, Writing, Reading, kill
<1>5. SleepersWait'
  BY <1>1 DEF PipeInv, TypeOK, CallOK, SleepersWait, kill, pipe
<1> QED
  BY Zenon, <1>1, <1>2, <1>3, <1>4, <1>5 DEF PipeInv, TypeOK

(* So every step keeps it. *)
LEMMA NextHolds == PipeInv /\ [Next]_vars => PipeInv'
<1> SUFFICES ASSUME PipeInv, [Next]_vars PROVE PipeInv'
  OBVIOUS
<1>1. CASE UNCHANGED vars
  <2>1. RingOK' /\ Count' = Count
    BY Zenon, <1>1, RingFrame DEF PipeInv, TypeOK, vars, pipe
  <2>2. /\ UNCHANGED <<readopen, writeopen, alloc>> /\ UNCHANGED <<rfd, wfd, killed>>
        /\ UNCHANGED <<plock, pc, call>>
    BY Zenon, <1>1 DEF vars, pipe, fds
  <2>3. EndsOK' /\ CallOK' /\ FreedOnce' /\ InCall' /\ SleepersWait'
    BY Zenon, <2>1, <2>2 DEF PipeInv, TypeOK, EndsOK, CallOK, FreedOnce, InCall, SleepersWait
  <2> QED
    BY Zenon, <2>1, <2>3 DEF PipeInv, TypeOK
<1>2. CASE Next
  <2>1. Killable \subseteq Proc
    BY Zenon, PipeAssumption
  <2> QED
    BY Zenon, <1>2, <2>1, AllocHolds, ForkHolds, CloseReadHolds, CloseWriteHolds, SysWriteHolds,
       SysReadHolds, WriteHolds, ReadHolds, SleepHolds, KillHolds DEF Next
<1> QED
  BY Zenon, <1>1, <1>2

(* pipe.c keeps PipeInv: its page is freed exactly when both ends are      *)
(* closed, nobody is inside a pipe that is gone, and no writer sleeps on a *)
(* pipe with room or without readers.                                      *)
THEOREM PipeSound == Spec => []PipeInv
BY InitHolds, NextHolds, PTL DEF Spec
-----------------------------------------------------------------------------
(* The abstract queue stands where the ring stands. *)
LEMMA Queue ==
  ASSUME RingOK
  PROVE  Len(Contents) = Count /\ (Contents = <<>> <=> Count = 0) /\ Count \in Nat
<1>1. Count \in Nat
  BY PipeAssumption, Ahead
<1> DEFINE c == Count
           C == Contents
<1>2. C = [i \in 1 .. c |-> C[i]] /\ c \in Nat
  BY Zenon, <1>1 DEF Contents
<1> HIDE DEF c, C
<1>3. Len(C) = c /\ (C = <<>> <=> c = 0)
  BY <1>2
<1> QED
  BY Zenon, <1>1, <1>3 DEF c, C

(* What is behind the calls that Fifo knows. *)
LEMMA Calls ==
  ASSUME PipeInv, NEW p \in Proc
  PROVE  /\ pc[p] = "user" => call[p] = Idle
         /\ pc[p] \in Writing => call[p] # Idle /\ call[p].op = "write"
         /\ pc[p] \in Reading => call[p] # Idle /\ call[p].op = "read"
<1>1. \A c \in WriteCall : c # Idle /\ c.op = "write"
  <2>1. \A c \in WriteCall : c.op = "write"
    BY DEF WriteCall
  <2> QED
    BY Zenon, PipeAssumption, <2>1
<1>2. \A c \in ReadCall : c # Idle /\ c.op = "read"
  <2>1. \A c \in ReadCall : c.op = "read"
    BY DEF ReadCall
  <2> QED
    BY Zenon, PipeAssumption, <2>1
<1> QED
  BY Zenon, <1>1, <1>2 DEF PipeInv, InCall

(* pipealloc makes an empty queue. *)
LEMMA AllocStep == ASSUME PipeInv, NEW p \in Proc, pipealloc(p) PROVE F!Pipe(p)
<1>1. rfd = {} /\ wfd = {}
  BY Zenon DEF PipeInv, FreedOnce, pipealloc
<1>2. Contents' = <<>>
  <2>1. 0 % UINT = 0 /\ 0 - 0 = 0
    BY PipeAssumption, Turns
  <2>2. Count' = 0
    BY Zenon, <2>1 DEF pipealloc, Count
  <2>3. Contents' = [i \in 1 .. 0 |-> data'[(nread' + i - 1) % PIPESIZE]]
    BY Zenon, <2>2 DEF Contents
  <2> QED
    BY <2>3
<1> QED
  BY Zenon, <1>1, <1>2 DEF pipealloc, F!Pipe

(* fork shares the ends. *)
LEMMA ForkStep == ASSUME PipeInv, NEW p \in Proc, NEW q \in Proc, fork(p, q) PROVE F!Fork(p, q)
<1>1. Contents' = Contents
  BY Zenon, RingFrame DEF PipeInv, TypeOK, fork, pipe
<1> QED
  BY Zenon, <1>1 DEF fork, F!Fork

(* pipeclose leaves the bytes where they are. *)
LEMMA CloseStep == ASSUME PipeInv, NEW p \in Proc, pipeclose_read(p) \/ pipeclose_write(p) PROVE F!Close(p)
<1>1. Contents' = Contents
  BY Zenon, RingFrame DEF PipeInv, TypeOK, pipeclose_read, pipeclose_write
<1>2. call[p] = Idle
  BY Zenon, Calls DEF pipeclose_read, pipeclose_write
<1> QED
  BY Zenon, <1>1, <1>2 DEF pipeclose_read, pipeclose_write, F!Close

(* A write starts. *)
LEMMA SysWriteStep ==
  ASSUME PipeInv, NEW p \in Proc, NEW s \in Messages, sys_write(p, s) PROVE F!Start(p, F!Write(s))
<1>1. Contents' = Contents
  BY Zenon, RingFrame DEF PipeInv, TypeOK, sys_write, Start, pipe
<1>2. call[p] = Idle
  BY Zenon, Calls DEF sys_write, Start
<1>3. F!Write(s) = Write(s) /\ F!Write(s).op # "read"
  BY DEF Write, F!Write
<1> QED
  BY Zenon, <1>1, <1>2, <1>3 DEF sys_write, Start, F!Start, fds

(* A read starts. *)
LEMMA SysReadStep ==
  ASSUME PipeInv, NEW p \in Proc, NEW n \in 0 .. MaxN, sys_read(p, n) PROVE F!Start(p, F!Read(n))
<1>1. Contents' = Contents
  BY Zenon, RingFrame DEF PipeInv, TypeOK, sys_read, Start, pipe
<1>2. call[p] = Idle
  BY Zenon, Calls DEF sys_read, Start
<1>3. F!Read(n) = Read(n) /\ F!Read(n).op = "read"
  BY DEF Read, F!Read
<1> QED
  BY Zenon, <1>1, <1>2, <1>3 DEF sys_read, Start, F!Start, fds

(* pipewrite puts what fits. *)
LEMMA WriteStep == ASSUME PipeInv, NEW p \in Proc, pipewrite(p) PROVE F!Put(p)
<1>1. call[p] # Idle /\ call[p].op = "write"
  BY Zenon, Calls DEF pipewrite, Writing
<1>2. Contents' = Contents \o SubSeq(call[p].rest, 1, Fit(p))
  BY Zenon, WriteRing
<1>3. Fit(p) = F!Min({Len(call[p].rest), PIPESIZE - Len(Contents)})
  BY ZenonT(30), Queue DEF PipeInv, TypeOK, Fit, Space, Min, F!Min
<1>4. readopen <=> rfd # {}
  BY Zenon DEF PipeInv, FreedOnce
<1>5. /\ \/ Left(p) = <<>> /\ Return(p)
         \/ Left(p) # <<>> /\ (~readopen \/ p \in killed) /\ Return(p)
         \/ Left(p) # <<>> /\ readopen /\ p \notin killed /\ call' = [call EXCEPT ![p] = Write(Left(p))]
      /\ UNCHANGED <<rfd, wfd, killed>>
  BY Zenon DEF pipewrite, Fit, Left, fds
<1>6. F!Write(Left(p)) = Write(Left(p)) /\ (Return(p) <=> F!Return(p))
  BY Zenon DEF Write, F!Write, Return, F!Return
<1> QED
  BY Zenon, <1>1, <1>2, <1>3, <1>4, <1>5, <1>6 DEF Left, F!Put

(* piperead takes bytes, gives up, or waits. *)
LEMMA ReadStep ==
  ASSUME PipeInv, NEW p \in Proc, piperead(p) PROVE F!Get(p) \/ F!Interrupted(p) \/ UNCHANGED F!vars
<1>1. call[p] # Idle /\ call[p].op = "read"
  BY Zenon, Calls DEF piperead, Reading
<1>2. Len(Contents) = Count /\ (Contents = <<>> <=> nread = nwrite)
  BY Zenon, Queue, Ahead DEF PipeInv, TypeOK
<1>3. writeopen <=> wfd # {}
  BY Zenon DEF PipeInv, FreedOnce
<1>4. pc[p] = "read" /\ UNCHANGED <<data, nwrite, rfd, wfd, killed>> /\ (Return(p) <=> F!Return(p))
  BY Zenon DEF piperead, fds, Return, F!Return
<1>5. CASE nread = nwrite /\ writeopen /\ UNCHANGED nread
  <2>1. Contents' = Contents
    BY Zenon, <1>4, <1>5, RingFrame DEF PipeInv, TypeOK, ring
  <2>2. (Return(p) /\ p \in killed) \/ UNCHANGED call
    BY Zenon, <1>5 DEF piperead
  <2> QED
    BY Zenon, <1>1, <1>2, <1>3, <1>4, <1>5, <2>1, <2>2 DEF F!Interrupted, F!vars
<1>6. CASE (nread # nwrite \/ ~writeopen) /\ nread' = Advance(nread, Take(p)) /\ Return(p)
  <2>1. Contents' = SubSeq(Contents, Take(p) + 1, Len(Contents))
    BY Zenon, <1>4, <1>6, ReadRing
  <2>2. Take(p) = F!Min({call[p].n, Len(Contents)})
    BY Zenon, <1>2 DEF Take, Min, F!Min
  <2> QED
    BY ZenonT(30), <1>1, <1>2, <1>3, <1>4, <1>6, <2>1, <2>2 DEF F!Get
<1> QED
  BY Zenon, <1>5, <1>6 DEF piperead, Take

(* sleep and kill do not touch the queue. *)
LEMMA QuietStep ==
  ASSUME PipeInv, NEW p \in Proc
  PROVE  (sleep(p) => UNCHANGED F!vars) /\ (kill(p) => F!Kill(p))
<1>1. sleep(p) \/ kill(p) => Contents' = Contents
  BY Zenon, RingFrame DEF PipeInv, TypeOK, sleep, kill, pipe
<1> QED
  BY Zenon, <1>1 DEF sleep, kill, fds, F!Kill, F!vars

(* Every step of the pipe is a step of the queue, or none. *)
LEMMA NextStep == PipeInv /\ [Next]_vars => [F!Next]_(F!vars)
<1> SUFFICES ASSUME PipeInv, [Next]_vars PROVE F!Next \/ UNCHANGED F!vars
  BY Zenon
<1>1. CASE UNCHANGED vars
  <2>1. Contents' = Contents
    BY Zenon, <1>1, RingFrame DEF PipeInv, TypeOK, vars, pipe
  <2> QED
    BY Zenon, <1>1, <2>1 DEF vars, fds, F!vars
<1>2. CASE Next
  <2>1. Killable \subseteq Proc
    BY Zenon, PipeAssumption
  <2>2. CASE \E p \in Proc : pipealloc(p) \/ pipeclose_read(p) \/ pipeclose_write(p)
    BY Zenon, <2>2, AllocStep, CloseStep DEF F!Next
  <2>3. CASE \E p, q \in Proc : fork(p, q)
    BY Zenon, <2>3, ForkStep DEF F!Next
  <2>4. CASE \E p \in Proc, s \in Messages : sys_write(p, s)
    BY Zenon, <2>4, SysWriteStep DEF F!Next
  <2>5. CASE \E p \in Proc, n \in 0 .. MaxN : sys_read(p, n)
    BY Zenon, <2>5, SysReadStep DEF F!Next
  <2>6. CASE \E p \in Proc : pipewrite(p) \/ piperead(p) \/ sleep(p)
    BY Zenon, <2>6, WriteStep, ReadStep, QuietStep DEF F!Next
  <2>7. CASE \E p \in Killable : kill(p)
    BY Zenon, <2>1, <2>7, QuietStep DEF F!Next
  <2> QED
    BY Zenon, <1>2, <2>2, <2>3, <2>4, <2>5, <2>6, <2>7 DEF Next
<1> QED
  BY Zenon, <1>1, <1>2

(* The pipe begins as an empty queue. *)
LEMMA InitStep == Init => F!Init
<1> SUFFICES ASSUME Init PROVE F!Init
  OBVIOUS
<1>1. Count = 0 /\ RingOK
  BY Zenon, InitHolds, Ahead DEF PipeInv, TypeOK, Init
<1>2. Contents = <<>>
  BY Zenon, <1>1, Queue
<1> QED
  BY Zenon, <1>2 DEF Init, F!Init

(* The ring with its wrapping counters implements the bounded queue, for   *)
(* every size of ring and counter: no byte is lost, doubled, changed or    *)
(* overtaken between pipewrite and piperead.                               *)
THEOREM PipeImplements == Spec => Implements
<1>1. PipeInv /\ [Next]_vars => [F!Next]_(F!vars)
  BY Zenon, NextStep
<1> QED
  BY InitStep, PipeSound, <1>1, PTL DEF Spec, Implements, F!Spec
-----------------------------------------------------------------------------
(* While nobody is overlooked, readers sleep beside an empty, open pipe. *)
LEMMA NoneOverlooked ==
  ASSUME ~ \E p \in Proc : Overlooked(p), NEW q \in Proc, pc[q] = "rasleep"
  PROVE  Count = 0 /\ writeopen
BY Zenon DEF Overlooked

(* A step that moves no bytes, closes no end and puts nobody to sleep      *)
(* overlooks nobody.                                                       *)
LEMMA Undisturbed ==
  ASSUME ~ \E p \in Proc : Overlooked(p), Count' = Count, writeopen' = writeopen,
         \A q \in Proc : pc'[q] = "rasleep" => pc[q] = "rasleep"
  PROVE  ~ \E p \in Proc : Overlooked(p)'
BY Zenon DEF Overlooked

(* Bytes and end of file wake the readers, unless a killed writer gives up:*)
(* for any number of processes, and whatever was overlooked before.        *)
THEOREM ReadersWoken == Spec => ReadersWokenUnlessKilled
<1> DEFINE Killed == \E q \in killed : pc[q] = "write" /\ pc'[q] = "user"
           Before == \E p \in Proc : Overlooked(p)
           After  == \E p \in Proc : Overlooked(p)'
<1>1. ASSUME PipeInv, Next, ~Before, ~Killed PROVE ~After
  <2> USE <1>1
  <2>1. RingOK /\ EndsOK /\ CallOK
    BY Zenon DEF PipeInv, TypeOK
  <2>2. ASSUME NEW p \in Proc, pipealloc(p) PROVE ~After
    <3>1. rfd = {} /\ wfd = {}
      BY Zenon, <2>2 DEF PipeInv, FreedOnce, pipealloc
    <3>2. \A q \in Proc : pc[q] = "user"
      BY Zenon, <3>1, Places
    <3>3. \A q \in Proc : pc'[q] # "rasleep"
      BY <2>2, <3>2 DEF pipealloc
    <3> QED
      BY Zenon, <3>3 DEF Overlooked
  <2>3. ASSUME NEW p \in Proc, pipeclose_read(p) PROVE ~After
    <3>1. Count' = Count /\ writeopen' = writeopen
      BY Zenon, <2>1, <2>3, RingFrame DEF pipeclose_read
    <3>2. \A q \in Proc : pc'[q] = "rasleep" => pc[q] = "rasleep"
      BY Zenon, <2>3 DEF pipeclose_read, WakeWriters
    <3> QED
      BY Zenon, <3>1, <3>2, Undisturbed
  <2>4. ASSUME NEW p \in Proc, pipeclose_write(p) PROVE ~After
    <3>1. Count' = Count
      BY Zenon, <2>1, <2>4, RingFrame DEF pipeclose_write
    <3>2. CASE wfd' = {}
      <4>1. \A q \in Proc : pc'[q] # "rasleep"
        BY Zenon, <2>4, <3>2 DEF pipeclose_write, WakeReaders
      <4> QED
        BY Zenon, <4>1 DEF Overlooked
    <3>3. CASE wfd' # {}
      <4>1. writeopen' = writeopen /\ pc' = pc
        BY Zenon, <2>4, <3>3 DEF pipeclose_write
      <4> QED
        BY Zenon, <3>1, <4>1, Undisturbed
    <3> QED
      BY Zenon, <3>2, <3>3
  <2>5. ASSUME NEW p \in Proc, NEW q \in Proc, fork(p, q) PROVE ~After
    <3>1. Count' = Count /\ writeopen' = writeopen /\ pc' = pc
      BY Zenon, <2>1, <2>5, RingFrame DEF fork, pipe
    <3> QED
      BY Zenon, <3>1, Undisturbed
  <2>6. ASSUME NEW p \in Proc, NEW c, NEW l \in {"read", "write"}, Start(p, c, l) PROVE ~After
    <3>1. Count' = Count /\ writeopen' = writeopen
      BY Zenon, <2>1, <2>6, RingFrame DEF Start, pipe
    <3>2. \A q \in Proc : pc'[q] = "rasleep" => pc[q] = "rasleep"
      BY <2>1, <2>6 DEF Start, CallOK
    <3> QED
      BY Zenon, <3>1, <3>2, Undisturbed
  <2>7. ASSUME NEW p \in Proc, pipewrite(p) PROVE ~After
    <3>1. writeopen' = writeopen /\ pc[p] = "write" /\ readopen' = readopen
      BY Zenon, <2>7 DEF pipewrite
    <3>2. CASE pc' = [pc EXCEPT ![p] = "user"]
      <4>1. pc'[p] = "user"
        BY <2>1, <3>2 DEF CallOK
      <4>2. p \notin killed
        BY Zenon, <3>1, <4>1
      <4>3. CASE ~readopen
        <5>1. \A q \in Proc : pc[q] # "rasleep"
          BY <4>3 DEF PipeInv, FreedOnce, Reading
        <5>2. \A q \in Proc : pc'[q] # "rasleep"
          BY SMTT(20), <2>1, <3>2, <5>1 DEF CallOK
        <5> QED
          BY Zenon, <5>2 DEF Overlooked
      <4>4. CASE readopen
        <5>1. pc' = WakeReaders([pc EXCEPT ![p] = "user"]) \/ pc' = WakeReaders([pc EXCEPT ![p] = "wsleep"])
          BY Zenon, <2>7, <4>2, <4>4 DEF pipewrite
        <5>2. \A q \in Proc : pc'[q] # "rasleep"
          BY SMTT(20), <5>1 DEF WakeReaders
        <5> QED
          BY Zenon, <5>2 DEF Overlooked
      <4> QED
        BY Zenon, <4>3, <4>4
    <3>3. CASE pc' = WakeReaders([pc EXCEPT ![p] = "user"]) \/ pc' = WakeReaders([pc EXCEPT ![p] = "wsleep"])
      <4>1. \A q \in Proc : pc'[q] # "rasleep"
        BY <3>3 DEF WakeReaders
      <4> QED
        BY Zenon, <4>1 DEF Overlooked
    <3> QED
      BY Zenon, <2>7, <3>2, <3>3 DEF pipewrite
  <2>8. ASSUME NEW p \in Proc, piperead(p) PROVE ~After
    <3>1. /\ pc[p] = "read" /\ writeopen' = writeopen
          /\ UNCHANGED ring \/ (nread' = Advance(nread, Take(p)) /\ UNCHANGED <<data, nwrite>>)
      BY Zenon, <2>8 DEF piperead, Take, ring
    <3>2. \A q \in Proc : pc'[q] = "rasleep" => pc[q] = "rasleep"
      <4>1. \E l \in {"user", "rsleep"} : \/ pc' = [pc EXCEPT ![p] = l]
                                         \/ pc' = WakeWriters([pc EXCEPT ![p] = l])
        BY Zenon, <2>8 DEF piperead
      <4> QED
        BY <2>1, <4>1 DEF CallOK, WakeWriters
    <3>3. CASE UNCHANGED ring
      BY Zenon, <2>1, <3>1, <3>2, <3>3, RingFrame, Undisturbed
    <3>4. CASE nread' = Advance(nread, Take(p)) /\ UNCHANGED <<data, nwrite>>
      <4>1. Take(p) \in Nat /\ Take(p) <= Count /\ Count' = Count - Take(p)
        BY Zenon, <3>1, <3>4, ReadRing
      <4>2. Count = 0 => Count' = 0
        BY <4>1
      <4> QED
        BY Zenon, <3>1, <3>2, <4>2, NoneOverlooked DEF Overlooked
    <3> QED
      BY Zenon, <3>1, <3>3, <3>4
  <2>9. ASSUME NEW p \in Proc, sleep(p) PROVE ~After
    <3>1. Count' = Count /\ writeopen' = writeopen
      BY Zenon, <2>1, <2>9, RingFrame DEF sleep, pipe
    <3>2. pc[p] = "rsleep" => Count = 0 /\ writeopen
      BY Zenon DEF PipeInv, SleepersWait
    <3>3. \A q \in Proc : pc'[q] = "rasleep" => pc[q] = "rasleep" \/ (q = p /\ pc[p] = "rsleep")
      BY <2>1, <2>9 DEF sleep, CallOK
    <3> QED
      BY Zenon, <3>1, <3>2, <3>3, NoneOverlooked DEF Overlooked
  <2>10. ASSUME NEW p \in Killable, kill(p) PROVE ~After
    <3>1. Count' = Count /\ writeopen' = writeopen
      BY Zenon, <2>1, <2>10, RingFrame DEF kill, pipe
    <3>2. \A q \in Proc : pc'[q] = "rasleep" => pc[q] = "rasleep"
      BY <2>1, <2>10 DEF kill, CallOK
    <3> QED
      BY Zenon, <3>1, <3>2, Undisturbed
  <2> HIDE DEF After
  <2> QED
    BY Zenon, <2>2, <2>3, <2>4, <2>5, <2>6, <2>7, <2>8, <2>9, <2>10 DEF Next, sys_write, sys_read
<1>2. PipeInv /\ [Next]_vars => [After => Before \/ Killed]_vars
  BY Zenon, <1>1
<1> QED
  BY <1>2, PipeSound, PTL DEF Spec, ReadersWokenUnlessKilled
=============================================================================
