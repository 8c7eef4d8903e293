------------------------------- MODULE Text ---------------------------------
(***************************************************************************)
(* Pure algorithms on bytes and addresses: string.c, the names of path     *)
(* elements and directory entries in fs.c, the checks of system call       *)
(* arguments in syscall.c, printint and grep's matcher.  Each is compared  *)
(* with a definition that says what it is for, on all inputs up to a       *)
(* bound: a state is an input.  NUL ends a string; memory is a sequence.   *)
(***************************************************************************)
EXTENDS Integers, Sequences, SequencesExt, FiniteSetsExt

CONSTANTS
  DIRSIZ,      \* bytes in the name of a directory entry
  TextLen,     \* bound: the length of texts
  WORD, INT,   \* where an unsigned int wraps; bytes in an int
  USERTOP      \* KERNBASE: no process is larger

ASSUME TextAssumption == DIRSIZ > 0 /\ INT > 0 /\ WORD >= 2 * USERTOP

NUL    == "0"
Texts(S, n) == UNION {[1 .. k -> S] : k \in 0 .. n}
PathChar == {"/", "a", "b"}
ReChar   == {"a", ".", "*", "^", "$"}

VARIABLE sample
textVars == <<sample>>

(* s[k], counted from 0, of the string s. *)
At(s, k)   == IF k < Len(s) THEN s[k + 1] ELSE NUL
From(s, k) == SubSeq(s, k + 1, Len(s))

(* The string in a buffer: up to a NUL or the end. *)
CString(buf) ==
  LET k == SelectInSeq(buf, LAMBDA c : c = NUL) IN IF k = 0 THEN buf ELSE SubSeq(buf, 1, k - 1)

-----------------------------------------------------------------------------
(* Mutant: memmove always copies upwards. *)
Backwards_never(dst, src, n) == FALSE

Backwards(dst, src, n) == src < dst /\ src + n > dst

RECURSIVE CopyUp(_, _, _, _)
CopyUp(m, dst, src, n) == IF n = 0 THEN m ELSE CopyUp([m EXCEPT ![dst] = m[src]], dst + 1, src + 1, n - 1)
RECURSIVE CopyDown(_, _, _, _)
CopyDown(m, dst, src, n) ==
  IF n = 0 THEN m ELSE CopyDown([m EXCEPT ![dst + n - 1] = m[src + n - 1]], dst, src, n - 1)

memmove(m, dst, src, n) == IF Backwards(dst, src, n) THEN CopyDown(m, dst, src, n) ELSE CopyUp(m, dst, src, n)

(* strncpy pads with NUL; safestrcpy ends with one. *)
strncpy(t, n) == [k \in 1 .. n |-> At(t, k - 1)]

(* Mutant: the last byte of the buffer is not kept for the NUL. *)
safestrcpy_full(buf, t, n) ==
  [k \in 1 .. Len(buf) |-> IF k <= n /\ k <= Len(t) THEN t[k] ELSE IF k = Len(t) + 1 THEN NUL ELSE buf[k]]

safestrcpy(buf, t, n) ==
  [k \in 1 .. Len(buf) |-> IF k < n /\ k <= Len(t) THEN t[k] ELSE IF k = Min({n, Len(t) + 1}) THEN NUL ELSE buf[k]]

RECURSIVE strncmp(_, _, _)
strncmp(p, q, n) ==
  IF n > 0 /\ p # <<>> /\ q # <<>> /\ p[1] = q[1] THEN strncmp(Tail(p), Tail(q), n - 1)
  ELSE n = 0 \/ At(p, 0) = At(q, 0)

namecmp(s, t) == strncmp(CString(s), CString(t), DIRSIZ)

(* Mutants: skipelem does not end a short name; or cuts a name of DIRSIZ   *)
(* bytes to one less.                                                      *)
PutName_open(name, e) == [k \in 1 .. DIRSIZ |-> IF k <= Len(e) THEN e[k] ELSE name[k]]
PutName_short(name, e) ==
  [k \in 1 .. DIRSIZ |-> IF k <= Len(e) /\ k < DIRSIZ THEN e[k] ELSE IF k = Min({DIRSIZ, Len(e) + 1}) THEN NUL ELSE name[k]]

(* The element e in skipelem's buffer, over what was there. *)
PutName(name, e) ==
  [k \in 1 .. DIRSIZ |-> IF k <= Len(e) THEN e[k] ELSE IF k = Len(e) + 1 THEN NUL ELSE name[k]]

RECURSIVE SkipSlashes(_)
SkipSlashes(path) == IF At(path, 0) = "/" THEN SkipSlashes(Tail(path)) ELSE path
ElemLen(path) == Min({k \in 0 .. Len(path) : At(path, k) \in {"/", NUL}})

(* skipelem: what is left, and the buffer; there is an element. *)
HasElem(path) == SkipSlashes(path) # <<>>
skipelem(path, name) ==
  LET s == SkipSlashes(path)
      n == ElemLen(s)
  IN [path |-> SkipSlashes(From(s, n)), name |-> PutName(name, SubSeq(s, 1, n))]

(* The names that namex looks up, in order. *)
RECURSIVE namex(_, _)
namex(path, name) ==
  IF ~HasElem(path) THEN <<>>
  ELSE LET r == skipelem(path, name) IN <<CString(r.name)>> \o namex(r.path, r.name)

-----------------------------------------------------------------------------
(* fetchint and argptr accept; the result of +  is an unsigned int. *)
fetchint(addr, sz) == ~(addr >= sz \/ (addr + INT) % WORD > sz)

(* Mutant: only the end of the block is tested. *)
argptr_end(i, size, sz) == ~(size < 0 \/ (i + size) % WORD > sz)

argptr(i, size, sz) == ~(size < 0 \/ i >= sz \/ (i + size) % WORD > sz)

(* fetchstr: the length, or -1; m is the memory of the process. *)
fetchstr(m, addr) ==
  IF addr >= Len(m) \/ \A k \in addr .. Len(m) - 1 : At(m, k) # NUL THEN -1
  ELSE Min({k \in addr .. Len(m) - 1 : At(m, k) = NUL}) - addr

(* Mutant: the least int is not treated as negative. *)
Magnitude_int(x) == IF x < 0 /\ x # -(WORD \div 2) THEN -x ELSE x % (WORD \div 2)

(* The unsigned x of printint for a signed conversion. *)
Magnitude(x) == (IF x < 0 THEN -x ELSE x) % WORD

RECURSIVE Digits(_, _)
Digits(x, b) == IF x \div b = 0 THEN <<x % b>> ELSE Append(Digits(x \div b, b), x % b)

printint(x, b, sgn) ==
  [neg |-> sgn /\ x < 0, digits |-> Digits(IF sgn THEN Magnitude(x) ELSE x % WORD, b)]

-----------------------------------------------------------------------------
RECURSIVE matchhere(_, _)
RECURSIVE matchstar(_, _, _)

(* Mutant: a star after a dot repeats only dots. *)
Takes_dot(c, t) == t # <<>> /\ c = t[1]

(* matchstar goes over the next character. *)
Takes(c, t) == t # <<>> /\ c \in {".", t[1]}

matchstar(c, re, t) == matchhere(re, t) \/ (Takes(c, t) /\ matchstar(c, re, Tail(t)))

matchhere(re, t) ==
  CASE re = <<>> -> TRUE
    [] At(re, 1) = "*" -> matchstar(re[1], From(re, 2), t)
    [] re = <<"$">> -> t = <<>>
    [] OTHER -> t # <<>> /\ re[1] \in {".", t[1]} /\ matchhere(Tail(re), Tail(t))

match(re, t) ==
  IF At(re, 0) = "^" THEN matchhere(Tail(re), t)
  ELSE \E k \in 0 .. Len(t) : matchhere(re, From(t, k))

-----------------------------------------------------------------------------
(* What is checked on which input. *)
Is(k) == sample.kind = k

TextInit ==
  \/ \E n \in 0 .. TextLen, dst, src \in 1 .. TextLen :
       dst + n <= TextLen + 1 /\ src + n <= TextLen + 1 /\ sample = [kind |-> "move", dst |-> dst, src |-> src, n |-> n]
  \/ \E p \in Texts(PathChar, TextLen + 1) : sample = [kind |-> "path", path |-> p]
  \/ \E p, q \in Texts({"a", "b"}, DIRSIZ + 1) : sample = [kind |-> "names", p |-> p, q |-> q]
  \/ \E a \in 0 .. WORD - 1, n \in -(WORD \div 2) .. WORD \div 2 - 1 : sample = [kind |-> "args", a |-> a, n |-> n]
  \/ \E m \in Texts({"a", NUL}, TextLen) : sample = [kind |-> "memory", m |-> m]
  \/ \E re \in Texts(ReChar, 4), t \in Texts({"a", "b"}, 3) : sample = [kind |-> "match", re |-> re, t |-> t]

(* memmove copies as if through a third place, also where source and       *)
(* destination overlap, and touches nothing else.                          *)
MoveCopies ==
  Is("move") =>
    LET m == memmove([k \in 1 .. TextLen |-> k], sample.dst, sample.src, sample.n)
    IN \A k \in 1 .. TextLen :
         m[k] = IF k \in sample.dst .. sample.dst + sample.n - 1 THEN sample.src + k - sample.dst ELSE k

(* The parts of a path between slashes, cut to DIRSIZ: the last one first  *)
(* found by its end, not by scanning.                                      *)
Parts(p) ==
  LET Starts == {i \in 1 .. Len(p) : p[i] # "/" /\ (i = 1 \/ p[i - 1] = "/")}
      End(i) == Max({j \in i .. Len(p) : \A k \in i .. j : p[k] # "/"})
      Nth(k) == CHOOSE i \in Starts : Cardinality({j \in Starts : j < i}) = k - 1
  IN [k \in 1 .. Cardinality(Starts) |-> SubSeq(p, Nth(k), Min({End(Nth(k)), Nth(k) + DIRSIZ - 1}))]

(* namex looks up the parts of the path between slashes, in order, each    *)
(* cut to DIRSIZ bytes: nothing of a longer name before it stays in the    *)
(* buffer that skipelem reuses.                                            *)
PathElements == Is("path") => namex(sample.path, [k \in 1 .. DIRSIZ |-> "b"]) = Parts(sample.path)

(* The name that dirlink stores is found by dirlookup under exactly the    *)
(* names that agree with it in the first DIRSIZ bytes, whether or not      *)
(* there was room for a NUL.                                               *)
NamesFound ==
  Is("names") =>
    LET stored == strncpy(sample.p, DIRSIZ)
        sought == PutName([k \in 1 .. DIRSIZ |-> "b"], sample.q)
        Cut(s) == SubSeq(s, 1, Min({Len(s), DIRSIZ}))
    IN namecmp(sought, stored) <=> Cut(sample.p) = Cut(sample.q)

(* A pointer or address that the system call accepts lies in the process   *)
(* with all its bytes, however large the size; unsigned sums may wrap.     *)
ArgsInside ==
  Is("args") => \A sz \in 0 .. USERTOP - 1 :
    /\ argptr(sample.a, sample.n, sz) => sample.n >= 0 /\ sample.a + sample.n <= sz
    /\ fetchint(sample.a, sz) => sample.a + INT <= sz

(* A string that is accepted ends inside the process, and the copy of it   *)
(* that safestrcpy makes ends inside its buffer.                           *)
StringsEnd ==
  Is("memory") => \A a \in 0 .. TextLen :
    LET n == fetchstr(sample.m, a)
        s == SubSeq(sample.m, a + 1, a + n)
    IN n >= 0 => /\ a + n < Len(sample.m) /\ At(sample.m, a + n) = NUL /\ \A k \in 1 .. n : s[k] # NUL
                 /\ \A size \in 1 .. TextLen :
                      CString(safestrcpy([k \in 1 .. size |-> "b"], s, size)) = SubSeq(s, 1, Min({n, size - 1}))

RECURSIVE Value(_, _)
Value(d, b) == IF d = <<>> THEN 0 ELSE Value(Front(d), b) * b + Last(d)

(* The digits that printint prints stand for the number, the least int     *)
(* included, whose negation does not fit an int.                           *)
DigitsDenote ==
  Is("args") => \A b \in {2, 10} :
    LET r == printint(sample.n, b, TRUE)
    IN (IF r.neg THEN -Value(r.digits, b) ELSE Value(r.digits, b)) = sample.n

(* Where a pattern that starts at its k-th character can end in t, from    *)
(* the places S: the meaning of the operators, without backtracking.       *)
RECURSIVE Ends(_, _, _)
Ends(re, t, S) ==
  LET Run(i, c) == {j \in i .. Len(t) : \A k \in i + 1 .. j : c \in {".", t[k]}}
  IN CASE re = <<>> -> S
       [] At(re, 1) = "*" -> Ends(From(re, 2), t, UNION {Run(i, re[1]) : i \in S})
       [] re = <<"$">> -> S \cap {Len(t)}
       [] OTHER -> Ends(Tail(re), t, {i + 1 : i \in {j \in S : j < Len(t) /\ re[1] \in {".", t[j + 1]}}})

(* grep's matcher accepts a line exactly if the pattern, with ^ . * and $, *)
(* matches some part of it.                                                *)
MatchMeans ==
  Is("match") =>
    (match(sample.re, sample.t) <=>
       IF At(sample.re, 0) = "^" THEN Ends(Tail(sample.re), sample.t, {0}) # {}
                                ELSE Ends(sample.re, sample.t, 0 .. Len(sample.t)) # {})

(* The algorithms of string.c, fs.c, syscall.c, printf.c and grep.c do     *)
(* what they are for, on every input.                                      *)
TextMeans ==
  MoveCopies /\ PathElements /\ NamesFound /\ ArgsInside /\ StringsEnd /\ DigitsDenote /\ MatchMeans
=============================================================================
