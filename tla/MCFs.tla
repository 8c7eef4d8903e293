-------------------------------- MODULE MCFs --------------------------------
(* Fs for TLC.  Paths lead to the directory "/a", to the file "/a/f" and to *)
(* "/f", also through "..".  One process builds, the other takes down; each *)
(* pair of calls that can meet in one directory is there.                   *)
EXTENDS Fs, TLC

CONSTANTS p1, p2

Abs(e) == [abs |-> TRUE, elems |-> e]
Rel(e) == [abs |-> FALSE, elems |-> e]
A  == Abs(<<"a">>)
AF == Abs(<<"a", "f">>)
F  == Abs(<<"f">>)

MixedCalls ==
  p1 :> {[op |-> "mkdir",  path |-> A],
         [op |-> "link",   path |-> AF, new |-> F],
         [op |-> "open",   path |-> Rel(<<"..", "f">>), write |-> FALSE],
         [op |-> "open",   path |-> A, write |-> TRUE],
         [op |-> "mknod",  path |-> F],
         [op |-> "chdir",  path |-> A],
         [op |-> "mkdir",  path |-> AF],
         [op |-> "chdir",  path |-> AF]}
  @@
  p2 :> {[op |-> "unlink", path |-> A],
         [op |-> "unlink", path |-> AF],
         [op |-> "unlink", path |-> F],
         [op |-> "create", path |-> AF],
         [op |-> "link",   path |-> A, new |-> F],
         [op |-> "chdir",  path |-> F]}

(* Both processes create, open and remove one file. *)
FileCalls == [p \in {p1, p2} |-> {[op |-> "create", path |-> F], [op |-> "unlink", path |-> F]}]
=============================================================================
