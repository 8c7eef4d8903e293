----------------------------- MODULE FileTable ------------------------------
(***************************************************************************)
(* Open files: the table of file.c, the descriptors of processes, and the  *)
(* calls that make, share and give up open files (open, pipe, dup, close,  *)
(* fork, exit), with each of their ways to fail.                           *)
(*                                                                         *)
(* A process in a call has a list of steps to do.  A section of            *)
(* ftable.lock is one step; between sections other processes run.          *)
(***************************************************************************)
EXTENDS Integers, FiniteSets, FiniteSetsExt, Sequences

CONSTANTS
  User, firstUser,  \* processes; the one that runs first
  NFILE, NOFILE,    \* open files in the system, descriptors of a process
  PipeId, NoPipe    \* pages that kalloc has for pipes; "none"

ASSUME FileTableAssumption == NFILE \in Nat \ {0} /\ NOFILE \in Nat \ {0} /\ firstUser \in User /\ NoPipe \notin PipeId

FileSlot == 1 .. NFILE      \* 0 is a null pointer
Fd       == 0 .. NOFILE - 1

VARIABLES
  ftable,   \* ref, type, pipe and writable of each open file
  ofile,    \* p->ofile
  life,     \* the state of each process
  pipes,    \* readopen and writeopen of the pipes allocated
  iref,     \* references to the one inode
  steps     \* what each process has to do

tableVars == <<ftable, ofile, life, pipes, iref, steps>>

NoFile == [ref |-> 0, type |-> "none", pipe |-> NoPipe, writable |-> FALSE]
NoFds  == [fd \in Fd |-> 0]
Unalloc == [alloc |-> FALSE, readopen |-> FALSE, writeopen |-> FALSE]

TableInit ==
  /\ ftable = [s \in FileSlot |-> NoFile]
  /\ ofile = [p \in User |-> NoFds]
  /\ life = [p \in User |-> IF p = firstUser THEN "live" ELSE "unused"]
  /\ pipes = [x \in PipeId |-> Unalloc]
  /\ iref = 0
  /\ steps = [p \in User |-> <<>>]

(* A step and what it is about: a file, a descriptor or a process. *)
St(l, a) == << [l |-> l, a |-> a] >>

AtStep(p, l) == steps[p] # <<>> /\ Head(steps[p]).l = l
About(p)     == Head(steps[p]).a

(* Process p does s before the rest of its call; it does s and nothing else. *)
Then(p, s)   == steps' = [steps EXCEPT ![p] = s \o Tail(@)]
Instead(p, s) == steps' = [steps EXCEPT ![p] = s]

InUser(p) == life[p] = "live" /\ steps[p] = <<>>

FreeSlots  == {s \in FileSlot : ftable[s].ref = 0}
FreeFds(p) == {fd \in Fd : ofile[p][fd] = 0}

(* filealloc: only ref is set. *)
filealloc(s) == ftable' = [ftable EXCEPT ![s].ref = 1]

fdalloc(p, s) == [ofile EXCEPT ![p][Min(FreeFds(p))] = s]

-----------------------------------------------------------------------------
(* sys_open has its inode, locked. *)
sys_open(p) ==
  /\ InUser(p)
  /\ iref' = iref + 1
  /\ Instead(p, St("open", 0))
  /\ UNCHANGED <<ftable, ofile, life, pipes>>

(* Mutants: the inode is kept, or given back twice. *)
OpenUndo_keep(s) == St("fileclose", s)
OpenUndo_twice(s) == St("fileclose", s) \o St("iput", 0) \o St("iput", 0)

OpenUndo(s) == St("fileclose", s) \o St("iput", 0)

(* filealloc and fdalloc, or the way out. *)
open_file(p) ==
  /\ AtStep(p, "open")
  /\ \/ /\ FreeSlots = {} /\ Then(p, St("iput", 0))
        /\ UNCHANGED <<ftable, ofile>>
     \/ /\ FreeSlots # {} /\ filealloc(Min(FreeSlots))
        /\ IF FreeFds(p) = {}
             THEN Then(p, OpenUndo(Min(FreeSlots))) /\ UNCHANGED ofile
             ELSE ofile' = fdalloc(p, Min(FreeSlots)) /\ Then(p, St("open_set", Min(FreeSlots)))
  /\ UNCHANGED <<life, pipes, iref>>

(* The fields of the file, behind end_op. *)
open_set(p) ==
  /\ AtStep(p, "open_set")
  /\ ftable' = [ftable EXCEPT ![About(p)].type = "inode"]
  /\ Then(p, <<>>)
  /\ UNCHANGED <<ofile, life, pipes, iref>>

iput(p) ==
  /\ AtStep(p, "iput")
  /\ iref' = iref - 1 /\ Then(p, <<>>)
  /\ UNCHANGED <<ftable, ofile, life, pipes>>

-----------------------------------------------------------------------------
(* sys_pipe and pipealloc: the read file. *)
sys_pipe(p) ==
  /\ InUser(p) /\ FreeSlots # {}
  /\ filealloc(Min(FreeSlots)) /\ Instead(p, St("pipe_write", Min(FreeSlots)))
  /\ UNCHANGED <<ofile, life, pipes, iref>>

(* The write file. *)
pipe_write(p) ==
  /\ AtStep(p, "pipe_write")
  /\ \/ FreeSlots = {} /\ Then(p, St("fileclose", About(p))) /\ UNCHANGED ftable
     \/ FreeSlots # {} /\ filealloc(Min(FreeSlots)) /\ Then(p, St("pipe_page", <<About(p), Min(FreeSlots)>>))
  /\ UNCHANGED <<ofile, life, pipes, iref>>

(* kalloc and the fields of both files; or bad:. *)
pipe_page(p) ==
  /\ AtStep(p, "pipe_page")
  /\ LET r == About(p)[1]
         w == About(p)[2]
     IN \/ /\ Then(p, St("fileclose", r) \o St("fileclose", w))
           /\ UNCHANGED <<ftable, pipes>>
        \/ \E x \in PipeId :
             /\ ~pipes[x].alloc
             /\ pipes' = [pipes EXCEPT ![x] = [alloc |-> TRUE, readopen |-> TRUE, writeopen |-> TRUE]]
             /\ ftable' = [ftable EXCEPT ![r] = [@ EXCEPT !.type = "pipe", !.pipe = x, !.writable = FALSE],
                                         ![w] = [@ EXCEPT !.type = "pipe", !.pipe = x, !.writable = TRUE]]
             /\ Then(p, St("pipe_fd", <<r, w>>))
  /\ UNCHANGED <<ofile, life, iref>>

(* Mutant: the first descriptor stays when there is no second one. *)
TakeBack_not(p, r) == ofile' = fdalloc(p, r)

TakeBack(p, r) == UNCHANGED ofile

(* sys_pipe's fdallocs: both, or what they did is undone. *)
pipe_fd(p) ==
  /\ AtStep(p, "pipe_fd")
  /\ LET r == About(p)[1]
         w == About(p)[2]
     IN IF Cardinality(FreeFds(p)) < 2
          THEN /\ Then(p, St("fileclose", r) \o St("fileclose", w))
               /\ IF FreeFds(p) = {} THEN UNCHANGED ofile ELSE TakeBack(p, r)
          ELSE /\ Then(p, <<>>)
               /\ ofile' = [fdalloc(p, r) EXCEPT ![p][Min(FreeFds(p) \ {Min(FreeFds(p))})] = w]
  /\ UNCHANGED <<ftable, life, pipes, iref>>

-----------------------------------------------------------------------------
(* sys_dup: the descriptor, then the count. *)
sys_dup(p, fd) ==
  /\ InUser(p) /\ ofile[p][fd] # 0 /\ FreeFds(p) # {}
  /\ ofile' = fdalloc(p, ofile[p][fd])
  /\ Instead(p, St("filedup", ofile[p][fd]))
  /\ UNCHANGED <<ftable, life, pipes, iref>>

(* Mutant: the count is not raised. *)
filedup_not(s) == UNCHANGED ftable

filedup(s) == ftable' = [ftable EXCEPT ![s].ref = @ + 1]

dup_count(p) ==
  /\ AtStep(p, "filedup")
  /\ filedup(About(p)) /\ Then(p, <<>>)
  /\ UNCHANGED <<ofile, life, pipes, iref>>

sys_close(p, fd) ==
  /\ InUser(p) /\ ofile[p][fd] # 0
  /\ ofile' = [ofile EXCEPT ![p][fd] = 0]
  /\ Instead(p, St("fileclose", ofile[p][fd]))
  /\ UNCHANGED <<ftable, life, pipes, iref>>

(* Mutant: the slot keeps its type. *)
Cleared_ref(f) == [f EXCEPT !.ref = 0]

(* The slot that fileclose leaves; pipe and writable are not read again. *)
Cleared(f) == NoFile

(* fileclose: the section of ftable.lock, and what is to follow for ff. *)
fileclose(p) ==
  /\ AtStep(p, "fileclose")
  /\ LET s == About(p)
         f == ftable[s]
     IN IF f.ref > 1
          THEN ftable' = [ftable EXCEPT ![s].ref = @ - 1] /\ Then(p, <<>>)
          ELSE /\ ftable' = [ftable EXCEPT ![s] = Cleared(@)]
               /\ Then(p, CASE f.type = "pipe"  -> St("pipeclose", f)
                            [] f.type = "inode" -> St("iput", 0)
                            [] OTHER            -> <<>>)
  /\ UNCHANGED <<ofile, life, pipes, iref>>

pipeclose(p) ==
  /\ AtStep(p, "pipeclose")
  /\ LET f == About(p)
         q == IF f.writable THEN [pipes[f.pipe] EXCEPT !.writeopen = FALSE]
                            ELSE [pipes[f.pipe] EXCEPT !.readopen = FALSE]
     IN pipes' = [pipes EXCEPT ![f.pipe] = IF q.readopen \/ q.writeopen THEN q ELSE Unalloc]
  /\ Then(p, <<>>)
  /\ UNCHANGED <<ftable, ofile, life, iref>>

-----------------------------------------------------------------------------
(* fork's loop over the descriptors, one filedup a step, and its end. *)
fork(p, q) ==
  /\ InUser(p) /\ life[q] = "unused"
  /\ life' = [life EXCEPT ![q] = "embryo"]
  /\ Instead(p, St("fork", <<q, 0>>))
  /\ UNCHANGED <<ftable, ofile, pipes, iref>>

fork_fd(p) ==
  /\ AtStep(p, "fork")
  /\ LET q  == About(p)[1]
         fd == About(p)[2]
     IN IF fd = NOFILE
          THEN life' = [life EXCEPT ![q] = "live"] /\ Then(p, <<>>) /\ UNCHANGED <<ftable, ofile>>
          ELSE /\ Then(p, St("fork", <<q, fd + 1>>))
               /\ ofile' = [ofile EXCEPT ![q][fd] = ofile[p][fd]]
               /\ IF ofile[p][fd] = 0 THEN UNCHANGED ftable ELSE filedup(ofile[p][fd])
               /\ UNCHANGED life
  /\ UNCHANGED <<pipes, iref>>

(* exit's loop: the file is closed, then the descriptor cleared.  A parent *)
(* waits for the zombie.                                                   *)
sys_exit(p) ==
  /\ InUser(p) /\ p # firstUser
  /\ Instead(p, St("exit", 0))
  /\ UNCHANGED <<ftable, ofile, life, pipes, iref>>

exit_fd(p) ==
  /\ AtStep(p, "exit")
  /\ LET fd == About(p)
     IN IF fd = NOFILE
          THEN life' = [life EXCEPT ![p] = "unused"] /\ Then(p, <<>>)
          ELSE /\ Then(p, (IF ofile[p][fd] = 0 THEN <<>> ELSE St("fileclose", ofile[p][fd]) \o St("clear", fd))
                          \o St("exit", fd + 1))
               /\ UNCHANGED life
  /\ UNCHANGED <<ftable, ofile, pipes, iref>>

exit_clear(p) ==
  /\ AtStep(p, "clear")
  /\ ofile' = [ofile EXCEPT ![p][About(p)] = 0] /\ Then(p, <<>>)
  /\ UNCHANGED <<ftable, life, pipes, iref>>

TableNext ==
  \E p \in User :
    \/ sys_open(p) \/ open_file(p) \/ open_set(p) \/ iput(p)
    \/ sys_pipe(p) \/ pipe_write(p) \/ pipe_page(p) \/ pipe_fd(p)
    \/ dup_count(p) \/ fileclose(p) \/ pipeclose(p)
    \/ \E fd \in Fd : sys_dup(p, fd) \/ sys_close(p, fd)
    \/ \E q \in User : fork(p, q)
    \/ fork_fd(p) \/ sys_exit(p) \/ exit_fd(p) \/ exit_clear(p)

TableSpec == TableInit /\ [][TableNext]_tableVars

-----------------------------------------------------------------------------
(* The shape of the file table and of the descriptors. *)
TableTypeOK ==
  /\ \A s \in FileSlot : ftable[s].ref \in Nat /\ ftable[s].type \in {"none", "pipe", "inode"}
                         /\ ftable[s].pipe \in PipeId \cup {NoPipe}
  /\ ofile \in [User -> [Fd -> 0 .. NFILE]]
  /\ life \in [User -> {"unused", "embryo", "live"}]
  /\ pipes \in [PipeId -> [alloc : BOOLEAN, readopen : BOOLEAN, writeopen : BOOLEAN]]
  /\ iref \in Nat

(* Steps of p that are about s and have a label of ls. *)
Pending(p, ls, s) == Cardinality({k \in DOMAIN steps[p] : steps[p][k].l \in ls /\ steps[p][k].a = s})

Local(p, s) ==
  Cardinality({k \in DOMAIN steps[p] : steps[p][k].l \in {"pipe_page", "pipe_fd"}
                                       /\ s \in {steps[p][k].a[1], steps[p][k].a[2]}})

(* References of process p to file s: descriptors, except one that dup has *)
(* not counted yet or exit has given up, and files its call holds.         *)
Refs(p, s) ==
  Cardinality({fd \in Fd : ofile[p][fd] = s /\ Pending(p, {"clear"}, fd) = 0})
  - Pending(p, {"filedup"}, s) + Pending(p, {"fileclose", "pipe_write"}, s) + Local(p, s)

(* f->ref is exact at every step of every call, also where open or pipe    *)
(* fails for want of a file, a page or a descriptor, and while fork and    *)
(* exit go through the descriptors.                                        *)
FileRefs == \A s \in FileSlot : ftable[s].ref = MapThenSumSet(LAMBDA p : Refs(p, s), User)

HasEnd(x, w) ==
  \/ \E s \in FileSlot : ftable[s].type = "pipe" /\ ftable[s].pipe = x /\ ftable[s].writable = w
  \/ \E p \in User : \E k \in DOMAIN steps[p] :
       steps[p][k].l = "pipeclose" /\ steps[p][k].a.pipe = x /\ steps[p][k].a.writable = w

(* An end of a pipe is open exactly as long as some file, or a close that  *)
(* has not come to it, has it; so end of file is neither early nor lost,   *)
(* and the page is freed once.                                             *)
PipeEnds ==
  \A x \in PipeId : /\ pipes[x].readopen = HasEnd(x, FALSE) /\ pipes[x].writeopen = HasEnd(x, TRUE)
                    /\ pipes[x].alloc = (pipes[x].readopen \/ pipes[x].writeopen)

(* The inode has one reference for every open file, and for every open or  *)
(* close in progress: the last fileclose gives back one, a failed open too.*)
InodeRefs ==
  iref = Cardinality({s \in FileSlot : ftable[s].type = "inode"})
         + Cardinality({p \in User : \E k \in DOMAIN steps[p] : steps[p][k].l \in {"open", "open_set", "iput"}})

(* A descriptor of a process that runs, or is about to, is a file that     *)
(* read, write and close know what to do with (they panic otherwise).      *)
DescriptorsUsable ==
  \A p \in User, fd \in Fd :
    life[p] = "live" /\ steps[p] = <<>> /\ ofile[p][fd] # 0 =>
      ftable[ofile[p][fd]].ref > 0 /\ ftable[ofile[p][fd]].type # "none"

(* Every count that file.c, pipe.c and fs.c keep of open files is exact.   *)
TableInv == TableTypeOK /\ FileRefs /\ PipeEnds /\ InodeRefs
=============================================================================
