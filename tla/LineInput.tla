----------------------------- MODULE LineInput ------------------------------
(***************************************************************************)
(* What console input promises: a line is edited in private, becomes       *)
(* readable as a whole when it ends or fills the buffer, and is read from  *)
(* its front.                                                              *)
(***************************************************************************)
EXTENDS Naturals, Sequences

CONSTANTS Char, Ends, Capacity  \* characters; those that end a line; characters kept

VARIABLES ready, line  \* what readers may have; what may still be edited

Init == ready = <<>> /\ line = <<>>

Type(c) ==
  /\ Len(ready) + Len(line) < Capacity
  /\ IF c \in Ends \/ Len(ready) + Len(line) + 1 = Capacity
       THEN ready' = ready \o Append(line, c) /\ line' = <<>>
       ELSE line' = Append(line, c) /\ UNCHANGED ready

(* One character back, or all of them. *)
Erase == \E k \in {0, Len(line) - 1} : k >= 0 /\ line' = SubSeq(line, 1, k) /\ UNCHANGED ready

Take == \E k \in 1 .. Len(ready) : ready' = SubSeq(ready, k + 1, Len(ready)) /\ UNCHANGED line

Spec == Init /\ [][(\E c \in Char : Type(c)) \/ Erase \/ Take]_<<ready, line>>
=============================================================================
