----------------------------- MODULE AtomicDisk -----------------------------
(***************************************************************************)
(* What the logging layer (log.c) promises the file system above it: a     *)
(* disk on which whole groups of system calls become durable at once.      *)
(* A process brackets its updates with begin_op/end_op; a commit happens   *)
(* only between operations, and makes durable everything written so far;  *)
(* a crash falls back to the last commit and to nothing else.              *)
(***************************************************************************)
CONSTANTS Proc,    \* processes that run file-system calls
          Block,   \* the home blocks of the file system
          Val      \* block contents

VARIABLES durable, \* what a reboot would find
          current, \* what the running system reads
          active   \* the processes between begin_op and end_op

vars == <<durable, current, active>>

Init ==
  /\ durable \in [Block -> Val]
  /\ current = durable
  /\ active = {}

Begin(p) ==
  /\ p \notin active
  /\ active' = active \cup {p}
  /\ UNCHANGED <<durable, current>>

Write(p, b, v) ==
  /\ p \in active
  /\ current' = [current EXCEPT ![b] = v]
  /\ UNCHANGED <<durable, active>>

End(p) ==
  /\ p \in active
  /\ active' = active \ {p}
  /\ UNCHANGED <<durable, current>>

Commit ==
  /\ active = {}
  /\ durable' = current
  /\ UNCHANGED <<current, active>>

Crash ==
  /\ current' = durable
  /\ active' = {}
  /\ UNCHANGED durable

Next ==
  \/ \E p \in Proc : Begin(p) \/ End(p)
  \/ \E p \in Proc, b \in Block, v \in Val : Write(p, b, v)
  \/ Commit
  \/ Crash

Spec == Init /\ [][Next]_vars
=============================================================================
