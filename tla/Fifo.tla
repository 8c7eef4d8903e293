-------------------------------- MODULE Fifo --------------------------------
(***************************************************************************)
(* What a pipe (pipe.c) promises its users: a bounded first-in first-out   *)
(* queue of bytes.  A write adds its bytes at the end, piece by piece if   *)
(* the pipe is full; a read takes what it returns from the front.  A read  *)
(* comes back empty-handed only at end of file, and a write fails only     *)
(* when nobody can read any more, unless the caller has been killed.       *)
(***************************************************************************)
EXTENDS Naturals, Sequences, FiniteSetsExt

CONSTANTS Proc,      \* processes that use the pipe
          Byte,      \* what is sent
          Messages,  \* what processes write in one call
          MaxN,      \* bytes asked for by one read
          Capacity,  \* bytes in transit
          Idle       \* "in no call"

VARIABLES queue,     \* bytes written and not yet read
          readers,   \* processes that hold the read end
          writers,   \* processes that hold the write end
          killed,    \* processes that have been killed
          call       \* bytes still to write, or the number of bytes to read

vars == <<queue, readers, writers, killed, call>>

Write(s) == [op |-> "write", rest |-> s]
Read(n)  == [op |-> "read", n |-> n]

Init ==
  /\ queue = <<>>
  /\ readers = {} /\ writers = {} /\ killed = {}
  /\ call = [p \in Proc |-> Idle]

Pipe(p) ==
  /\ readers = {} /\ writers = {} /\ p \notin killed
  /\ readers' = {p} /\ writers' = {p}
  /\ queue' = <<>>
  /\ UNCHANGED <<killed, call>>

Fork(p, q) ==
  /\ p \notin killed /\ q \notin readers \cup writers
  /\ readers' = IF p \in readers THEN readers \cup {q} ELSE readers
  /\ writers' = IF p \in writers THEN writers \cup {q} ELSE writers
  /\ killed' = killed \ {q}
  /\ UNCHANGED <<queue, call>>

Close(p) ==
  /\ call[p] = Idle
  /\ \/ p \in readers /\ readers' = readers \ {p} /\ UNCHANGED writers
     \/ p \in writers /\ writers' = writers \ {p} /\ UNCHANGED readers
  /\ UNCHANGED <<queue, killed, call>>

Kill(p) == killed' = killed \cup {p} /\ UNCHANGED <<queue, readers, writers, call>>

Start(p, c) ==
  /\ call[p] = Idle /\ p \notin killed
  /\ p \in IF c.op = "read" THEN readers ELSE writers
  /\ call' = [call EXCEPT ![p] = c]
  /\ UNCHANGED <<queue, readers, writers, killed>>

Return(p) == call' = [call EXCEPT ![p] = Idle]

(* As many bytes as fit go in; then the call is over, fails, or goes on. *)
Put(p) ==
  /\ call[p] # Idle /\ call[p].op = "write"
  /\ LET s == call[p].rest
         k == Min({Len(s), Capacity - Len(queue)})
         left == SubSeq(s, k + 1, Len(s))
     IN /\ queue' = queue \o SubSeq(s, 1, k)
        /\ \/ left = <<>> /\ Return(p)
           \/ left # <<>> /\ (readers = {} \/ p \in killed) /\ Return(p)
           \/ /\ left # <<>> /\ readers # {} /\ p \notin killed
              /\ call' = [call EXCEPT ![p] = Write(left)]
  /\ UNCHANGED <<readers, writers, killed>>

(* Bytes come out, in order; none at end of file. *)
Get(p) ==
  /\ call[p] # Idle /\ call[p].op = "read"
  /\ queue # <<>> \/ writers = {}
  /\ queue' = SubSeq(queue, Min({call[p].n, Len(queue)}) + 1, Len(queue))
  /\ Return(p)
  /\ UNCHANGED <<readers, writers, killed>>

Interrupted(p) ==
  /\ call[p] # Idle /\ call[p].op = "read" /\ p \in killed
  /\ queue = <<>> /\ writers # {}
  /\ Return(p)
  /\ UNCHANGED <<queue, readers, writers, killed>>

Next ==
  \/ \E p \in Proc : Pipe(p) \/ Close(p) \/ Kill(p) \/ Put(p) \/ Get(p) \/ Interrupted(p)
  \/ \E p, q \in Proc : Fork(p, q)
  \/ \E p \in Proc, s \in Messages : Start(p, Write(s))
  \/ \E p \in Proc, n \in 0 .. MaxN : Start(p, Read(n))

Spec == Init /\ [][Next]_vars
=============================================================================
