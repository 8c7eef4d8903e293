----------------------------- MODULE BlockStore -----------------------------
(***************************************************************************)
(* What the buffer cache (bio.c, over ide.c) promises: one copy of every   *)
(* block, given to one process at a time, which only this process changes. *)
(***************************************************************************)
CONSTANTS Proc,     \* processes
          Block,    \* blocks
          Val,      \* contents of a block
          NoProc    \* "held by nobody"

VARIABLES contents, \* the current contents of every block
          holder    \* who holds each block between bread and brelse

vars == <<contents, holder>>

Init ==
  /\ contents \in [Block -> Val]
  /\ holder = [k \in Block |-> NoProc]

(* A process obtains a block nobody holds ... *)
Acquire(k) ==
  /\ holder[k] = NoProc
  /\ holder'[k] \in Proc
  /\ holder' = [holder EXCEPT ![k] = holder'[k]]
  /\ UNCHANGED contents

(* ... may change it while it holds it ... *)
Update(k) ==
  /\ holder[k] # NoProc
  /\ contents'[k] \in Val
  /\ contents' = [contents EXCEPT ![k] = contents'[k]]
  /\ UNCHANGED holder

(* ... and gives it back. *)
Release(k) ==
  /\ holder[k] # NoProc
  /\ holder' = [holder EXCEPT ![k] = NoProc]
  /\ UNCHANGED contents

Next == \E k \in Block : Acquire(k) \/ Update(k) \/ Release(k)

Spec == Init /\ [][Next]_vars
=============================================================================
