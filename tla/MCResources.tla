---------------------------- MODULE MCResources -----------------------------
(* FileTable, FileData, Vm and Umalloc for TLC.  They share no state: a     *)
(* behaviour is one of the component that part names.                      *)
EXTENDS FileTable, FileData, Vm, Umalloc

VARIABLE part

resVars == <<tableVars, dataVars, vmVars, heapVars, part>>

ResInit ==
  /\ part \in {"table", "data", "vm", "heap"}
  /\ TableInit /\ DataInit /\ VmInit /\ HeapInit

ResNext ==
  /\ UNCHANGED part
  /\ \/ part = "table" /\ TableNext /\ UNCHANGED <<dataVars, vmVars, heapVars>>
     \/ part = "data"  /\ DataNext  /\ UNCHANGED <<tableVars, vmVars, heapVars>>
     \/ part = "vm"    /\ VmNext    /\ UNCHANGED <<tableVars, dataVars, heapVars>>
     \/ part = "heap"  /\ HeapNext  /\ UNCHANGED <<tableVars, dataVars, vmVars>>

ResSpec == ResInit /\ [][ResNext]_resVars

(* Open files have no order. *)
FilesAlike == Permutations(File)

(* One file of three bytes for mkfs. *)
MCHostFiles == << <<7, 8, 9>> >>

(* Shrinking by more than there is, to another page and to nothing, and     *)
(* growing within a page and beyond it.                                    *)
MCGrowth == {-11, -3, 1, 4}

(* An image that fits, arguments that do not fit the stack, a stack that   *)
(* would reach KERNBASE, and a segment that does.                          *)
MCPrograms == {[segs |-> <<1>>, args |-> 2], [segs |-> <<2, 3>>, args |-> 5],
               [segs |-> <<5>>, args |-> 1], [segs |-> <<10>>, args |-> 1]}
=============================================================================
