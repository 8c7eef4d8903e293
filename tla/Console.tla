------------------------------ MODULE Console -------------------------------
(***************************************************************************)
(* The console's input and output of console.c: a ring filled and edited   *)
(* by the keyboard interrupt and emptied by readers, who give up the       *)
(* inode's lock while they wait.                                           *)
(*                                                                         *)
(* A section of cons.lock is one step, but sleep has a step of its own: it *)
(* gives up cons.lock only when it has ptable.lock, and kill may come      *)
(* before that.                                                            *)
(***************************************************************************)
EXTENDS Integers, Sequences

CONSTANTS
  Tty, NoTty,      \* processes that use the console; "nobody"
  INPUT_BUF, UINT, \* characters in the ring; where an unsigned int wraps
  ReadSizes        \* bound: what readers ask for

ASSUME ConsoleAssumption ==
  /\ INPUT_BUF \in Nat \ {0} /\ UINT \in Nat /\ UINT > INPUT_BUF /\ UINT % INPUT_BUF = 0
  /\ NoTty \notin Tty /\ ReadSizes \subseteq Nat

Char == {"a", "\n", "^D"}

VARIABLES
  input,   \* struct input: buf and the indices r, w and e
  ttylock, \* ip->lock of the console's inode
  tty,     \* where each process is, and n, target and the last result of a read
  dead     \* processes that were killed

consVars == <<input, ttylock, tty, dead>>

Call(l, n, target, result) == [pc |-> l, n |-> n, target |-> target, result |-> result]

AtRest == Call("user", 0, 0, 0)

ConsoleInit ==
  /\ input = [buf |-> [k \in 0 .. INPUT_BUF - 1 |-> "a"], r |-> 0, w |-> 0, e |-> 0]
  /\ ttylock = NoTty
  /\ tty = [p \in Tty |-> AtRest]
  /\ dead = {}

Plus(i, k)    == (i + k) % UINT
Between(i, j) == (j - i) % UINT
Chars(i, j)   == [k \in 1 .. Between(i, j) |-> input.buf[Plus(i, k - 1) % INPUT_BUF]]

(* cons.lock is not held by a process about to sleep. *)
ConsFree == \A p \in Tty : tty[p].pc # "sleep"

(* Mutant: a full ring is not handed over. *)
EndsLine_char(c, e) == c \in {"\n", "^D"}

(* The character ends the line: input.w = input.e. *)
EndsLine(c, e) == c \in {"\n", "^D"} \/ e = Plus(input.r, INPUT_BUF)

(* Mutant: nobody is woken. *)
WakeReaders_not(t) == t

(* wakeup(&input.r) *)
WakeReaders(t) == [p \in Tty |-> IF t[p].pc = "asleep" THEN [t[p] EXCEPT !.pc = "read"] ELSE t[p]]

(* Mutant: there is room for one more. *)
Room_one == Between(input.r, input.e) <= INPUT_BUF

Room == Between(input.r, input.e) < INPUT_BUF

(* consoleintr's default case; "\r" has become "\n".  Without room the     *)
(* character is dropped.                                                   *)
consoleintr(c) ==
  /\ ConsFree /\ Room
  /\ LET e == Plus(input.e, 1)
     IN /\ input' = [input EXCEPT !.buf[input.e % INPUT_BUF] = c, !.e = e, !.w = IF EndsLine(c, e) THEN e ELSE @]
        /\ tty' = IF EndsLine(c, e) THEN WakeReaders(tty) ELSE tty
  /\ UNCHANGED <<ttylock, dead>>

(* Backspace. *)
consoleintr_erase ==
  /\ ConsFree /\ input.e # input.w
  /\ input' = [input EXCEPT !.e = Plus(@, -1)]
  /\ UNCHANGED <<ttylock, tty, dead>>

(* C('U'): back to the end of the last line. *)
consoleintr_kill ==
  /\ ConsFree /\ input.e # input.w
  /\ LET L == Chars(input.w, input.e)
     IN \E k \in 0 .. Len(L) : /\ (\A j \in k + 1 .. Len(L) : L[j] # "\n") /\ (k > 0 => L[k] = "\n")
                               /\ input' = [input EXCEPT !.e = Plus(input.w, k)]
  /\ UNCHANGED <<ttylock, tty, dead>>

-----------------------------------------------------------------------------
Goto(p, l) == tty' = [tty EXCEPT ![p].pc = l]

(* A read or write comes from fileread or filewrite, which lock the inode. *)
consolecall(p) ==
  /\ tty[p].pc = "user" /\ ttylock = NoTty /\ p \notin dead
  /\ ttylock' = p
  /\ \/ \E n \in ReadSizes : tty' = [tty EXCEPT ![p] = Call("consoleread", n, n, 0)]
     \/ tty' = [tty EXCEPT ![p] = Call("consolewrite", 0, 0, 0)]
  /\ UNCHANGED <<input, dead>>

(* Mutant: the inode stays locked. *)
iunlock_not(p) == UNCHANGED ttylock

iunlock(p) == ttylock' = NoTty

(* consoleread and consolewrite start with iunlock; the writer's output,   *)
(* under cons.lock, waits for nobody.                                      *)
consoleread_start(p) ==
  /\ tty[p].pc \in {"consoleread", "consolewrite"}
  /\ iunlock(p)
  /\ Goto(p, IF tty[p].pc = "consoleread" THEN "read" ELSE "ilock")
  /\ UNCHANGED <<input, dead>>

(* Mutant: the control-D is consumed behind other characters too. *)
PutBack_not(n, target) == FALSE

(* The control-D is saved for the next call. *)
PutBack(n, target) == n < target

(* Where consoleread may stop in what is ready, L, when it wants n more:   *)
(* behind an end of line or of file, or when it has enough.  It stops at   *)
(* the first.                                                              *)
Stops(L, n) == {k \in 1 .. Len(L) : L[k] \in {"\n", "^D"}} \cup (IF Len(L) >= n THEN {n} ELSE {})
First(S)    == {k \in S : \A j \in S : k <= j}

(* consoleread under cons.lock: to its end, to the return of a killed      *)
(* reader, or to sleep.                                                    *)
consoleread(p) ==
  /\ tty[p].pc = "read" /\ ConsFree
  /\ LET L == Chars(input.r, input.w)
         n == tty[p].n
     IN \/ /\ Stops(L, n) = {}
           /\ input' = [input EXCEPT !.r = Plus(@, Len(L))]
           /\ tty' = [tty EXCEPT ![p] = IF p \in dead THEN Call("ilock", n - Len(L), tty[p].target, -1)
                                                     ELSE Call("sleep", n - Len(L), tty[p].target, 0)]
        \/ \E k \in First(Stops(L, n)) :
             LET eof == k > 0 /\ L[k] = "^D"
                 got == tty[p].target - n + (IF eof THEN k - 1 ELSE k)
             IN /\ input' = [input EXCEPT !.r = Plus(@, IF eof /\ PutBack(n - (k - 1), tty[p].target) THEN k - 1 ELSE k)]
                /\ tty' = [tty EXCEPT ![p] = Call("ilock", 0, 0, got)]
  /\ UNCHANGED <<ttylock, dead>>

sleep(p) ==
  /\ tty[p].pc = "sleep"
  /\ Goto(p, "asleep")
  /\ UNCHANGED <<input, ttylock, dead>>

(* ilock, and fileread's iunlock. *)
consoleread_end(p) ==
  /\ tty[p].pc = "ilock" /\ ttylock = NoTty
  /\ tty' = [tty EXCEPT ![p] = AtRest]
  /\ UNCHANGED <<input, ttylock, dead>>

(* kill wakes a sleeper. *)
kill_tty(p) ==
  /\ p \notin dead
  /\ dead' = dead \cup {p}
  /\ tty' = IF tty[p].pc = "asleep" THEN [tty EXCEPT ![p].pc = "read"] ELSE tty
  /\ UNCHANGED <<input, ttylock>>

ConsoleNext ==
  \/ \E c \in Char : consoleintr(c)
  \/ consoleintr_erase \/ consoleintr_kill
  \/ \E p \in Tty : \/ consolecall(p) \/ consoleread_start(p) \/ consoleread(p)
                    \/ sleep(p) \/ consoleread_end(p) \/ kill_tty(p)

(* The scheduler runs every process; spinlocks and sleep locks that become *)
(* free again and again are had at last.                                   *)
ConsoleFairness ==
  \A p \in Tty : /\ WF_consVars(consoleread_start(p)) /\ WF_consVars(sleep(p))
                 /\ SF_consVars(consoleread(p)) /\ SF_consVars(consoleread_end(p))

ConsoleSpec == ConsoleInit /\ [][ConsoleNext]_consVars /\ ConsoleFairness

-----------------------------------------------------------------------------
Index  == 0 .. UINT - 1
TtyPc  == {"user", "consoleread", "consolewrite", "read", "sleep", "asleep", "ilock"}
InputOK == input \in [buf : [0 .. INPUT_BUF - 1 -> Char], r : Index, w : Index, e : Index]
CallsOK ==
  /\ ttylock \in Tty \cup {NoTty} /\ dead \subseteq Tty
  /\ tty \in [Tty -> [pc : TtyPc, n : Nat, target : Nat, result : Int]]
  /\ \A p \in Tty : tty[p].n <= tty[p].target

(* The shape of the ring and of the calls: e is at most INPUT_BUF ahead of *)
(* r, and w between them.                                                  *)
ConsoleTypeOK ==
  /\ InputOK /\ CallsOK
  /\ Between(input.r, input.w) + Between(input.w, input.e) <= INPUT_BUF

LineDiscipline == INSTANCE LineInput WITH
  Ends <- {"\n", "^D"}, Capacity <- INPUT_BUF,
  ready <- Chars(input.r, input.w), line <- Chars(input.w, input.e)

(* The ring with its three wrapping indices does what a line discipline    *)
(* does: readers get whole lines, in order, and never an edited character. *)
ConsoleImplements == LineDiscipline!Spec

(* When the ring is full its contents can be read: input that nobody can   *)
(* extend, edit or read would block the console for ever.                  *)
FullIsReadable == Between(input.r, input.e) = INPUT_BUF => input.w = input.e

(* A reader sleeps only while there is nothing to read. *)
InputWakesReaders == \A p \in Tty : tty[p].pc \in {"sleep", "asleep"} => input.r = input.w

(* What can still be edited is one line, without its end: control-U erases *)
(* all of it.                                                              *)
LineOpen == \A k \in 1 .. Between(input.w, input.e) : Chars(input.w, input.e)[k] \notin {"\n", "^D"}

(* The control-Ds among the characters that a step takes. *)
UsedUp == {k \in 1 .. Between(input.r, input.r') : Chars(input.r, input.w)[k] = "^D"}

(* A control-D is used up only by a read that returns 0 (console.c:259), so*)
(* that every one of them is seen as an end of file by some reader.        *)
EofIsZeroRead ==
  [][UsedUp # {} => \E p \in Tty : tty[p].pc = "read" /\ tty'[p].pc = "ilock" /\ tty'[p].result = 0]_consVars

(* A write to the console comes to its end although a reader waits there   *)
(* for input that never comes.                                             *)
WritesEnd == \A p \in Tty : tty[p].pc = "consolewrite" ~> tty[p].pc = "user"

(* What console.c keeps between interrupts and reads: indices in order, a  *)
(* ring that never blocks, nobody asleep beside input, and one open line.  *)
ConsoleInv == ConsoleTypeOK /\ FullIsReadable /\ InputWakesReaders /\ LineOpen
=============================================================================
