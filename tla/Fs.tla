--------------------------------- MODULE Fs ---------------------------------
(***************************************************************************)
(* The inode cache, directories and path names of fs.c, and the system     *)
(* calls of sysfile.c that work on names.                                  *)
(*                                                                         *)
(* A process that runs a call has a list of steps to do; a function that   *)
(* fs.c calls in the middle of another one is pushed in front of the list. *)
(* What a process does while it holds an inode's lock and cannot block is  *)
(* one step; icache.lock sections that another process can come between    *)
(* are steps of their own.  Every call is one transaction of the log, so   *)
(* the states without a call in progress are those a crash can recover.    *)
(***************************************************************************)
EXTENDS Integers, Sequences, FiniteSets, FiniteSetsExt

CONSTANTS
  Proc, NoProc,  \* processes; "nobody"
  NINODES,       \* inodes on the disk, 1 .. NINODES; number 1 is the root
  NINODE,        \* entries of the inode cache: enough for every inode
  Name,          \* path elements other than "." and ".."
  Calls          \* the calls each process makes

ASSUME FsAssumption ==
  NINODES \in Nat \ {0} /\ NINODE \in Nat /\ NINODE >= NINODES /\ NoProc \notin Proc /\ IsFiniteSet(Proc)

Inum    == 1 .. NINODES
ROOTINO == 1
Slot    == 1 .. NINODE      \* 0 is a null pointer, and a free directory entry
Elem    == Name \cup {".", ".."}
Types   == {"none", "dir", "file", "dev"}

VARIABLES
  dinode,   \* type and nlink of each inode, as the log's blocks have them
  dirent,   \* the inode each directory gives to each name
  icache,   \* entries of the inode cache, with ip->lock's owner
  proc,     \* the call each process runs: its steps, path, name, ip and dp
  cwd,      \* p->cwd
  file,     \* the inode of the one file each process may hold open
  strays    \* history: inodes entered into a directory already removed, and
            \* the directories that got a subdirectory so

disk == <<dinode, dirent>>
vars == <<disk, icache, proc, cwd, file, strays>>

NoEntries == [n \in Elem |-> 0]
Dots(i, parent) == [NoEntries EXCEPT !["."] = i, ![".."] = parent]

(* up is history: the call has gone up by the ".." of a removed directory. *)
Idle == [todo |-> <<>>, call |-> [op |-> ""], path |-> <<>>, name |-> "", ip |-> 0, dp |-> 0, up |-> FALSE]

FreeEntry == [inum |-> 0, ref |-> 0, valid |-> FALSE, type |-> "none", nlink |-> 0, lock |-> NoProc]

(* The cache after iinit and userinit: everybody's current directory. *)
BootCache == [s \in Slot |-> IF s = 1 THEN [FreeEntry EXCEPT !.inum = ROOTINO, !.ref = Cardinality(Proc)]
                                      ELSE FreeEntry]

(* A new image holds the root only. *)
Init ==
  /\ dinode = [i \in Inum |-> IF i = ROOTINO THEN [type |-> "dir", nlink |-> 1]
                                             ELSE [type |-> "none", nlink |-> 0]]
  /\ dirent = [i \in Inum |-> IF i = ROOTINO THEN Dots(i, i) ELSE NoEntries]
  /\ icache = BootCache
  /\ proc = [p \in Proc |-> Idle]
  /\ cwd = [p \in Proc |-> 1]
  /\ file = [p \in Proc |-> 0]
  /\ strays = {}

-----------------------------------------------------------------------------
Cached(c, i) == {s \in Slot : c[s].ref > 0 /\ c[s].inum = i}
Free(c)      == {s \in Slot : c[s].ref = 0}
NoSlot(c, i) == Cached(c, i) = {} /\ Free(c) = {}
SlotOf(c, i) == IF Cached(c, i) # {} THEN Min(Cached(c, i)) ELSE Min(Free(c))

(* Mutant: a recycled entry keeps the flag of the inode it held. *)
iget_valid(c, i) ==
  IF Cached(c, i) # {} THEN [c EXCEPT ![SlotOf(c, i)].ref = @ + 1]
                       ELSE [c EXCEPT ![SlotOf(c, i)].inum = i, ![SlotOf(c, i)].ref = 1]

(* iget: the cache with one more reference to the entry SlotOf(c, i). *)
iget(c, i) ==
  IF Cached(c, i) # {} THEN [c EXCEPT ![SlotOf(c, i)].ref = @ + 1]
                       ELSE [c EXCEPT ![SlotOf(c, i)].inum = i, ![SlotOf(c, i)].ref = 1,
                                      ![SlotOf(c, i)].valid = FALSE]

(* Mutant: the second pointer is not counted. *)
idup_uncounted(c, s) == c

idup(c, s) == [c EXCEPT ![s].ref = @ + 1]

(* ilock by p: ip->lock, and the disk's copy if there is none in memory.   *)
(* With NoProc for p it is an ilock whose iunlock belongs to the same step.*)
ilock(c, s, p) ==
  IF c[s].valid THEN [c EXCEPT ![s].lock = p]
  ELSE [c EXCEPT ![s].lock = p, ![s].valid = TRUE,
                 ![s].type = dinode[c[s].inum].type, ![s].nlink = dinode[c[s].inum].nlink]

iunlock(c, s) == [c EXCEPT ![s].lock = NoProc]

AddLinks(c, s, k) == [c EXCEPT ![s].nlink = @ + k]
iupdate(d, c, s)  == [d EXCEPT ![c[s].inum] = [type |-> c[s].type, nlink |-> c[s].nlink]]

(* dirlookup in the directory of entry s; 0 if the name is not there. *)
dirlookup(c, s, n) == dirent[c[s].inum][n]

-----------------------------------------------------------------------------
Lab(p) == IF proc[p].todo = <<>> THEN "idle" ELSE Head(proc[p].todo)[1]
Arg(p) == Head(proc[p].todo)[2]

(* The entry whose lock process p takes in its next step; 0 for none. *)
Wants(p) ==
  CASE Lab(p) \in {"namei", "nameiparent"} /\ proc[p].path # <<>> -> Arg(p)
    [] Lab(p) = "iput"                                            -> Arg(p)
    [] Lab(p) \in {"link", "link_bad", "unlink_ip", "create_old", "create_new", "open", "chdir"} -> proc[p].ip
    [] Lab(p) \in {"link_new", "unlink", "create", "mkdir", "mknod"} -> proc[p].dp
    [] OTHER                                                      -> 0

NoType(s) == ~icache[s].valid /\ dinode[icache[s].inum].type = "none"

Blocked(p) == Wants(p) # 0 /\ icache[Wants(p)].lock # NoProc

(* The panics of ilock, dirlookup, unlink and create that p runs into once *)
(* it has the lock it waits for.                                           *)
Panics(p) ==
  \/ Wants(p) # 0 /\ Lab(p) # "iput" /\ NoType(Wants(p))
  \/ Lab(p) = "unlink_ip" /\ ilock(icache, proc[p].ip, p)[proc[p].ip].nlink < 1
  \/ Lab(p) = "create_new" /\ proc[p].call.op = "mkdir" /\ dirlookup(icache, proc[p].ip, ".") # 0
  \/ Lab(p) \in {"link_new", "unlink", "create", "mkdir", "mknod"}
       /\ ilock(icache, proc[p].dp, p)[proc[p].dp].type # "dir"

(* Process p can do the step l: the lock is free, and it does not panic. *)
At(p, l) == Lab(p) = l /\ ~Blocked(p) /\ ~Panics(p)

(* Process p, now with locals r, does the given steps before its others.   *)
(* The call is over, and the transaction with it (end_op), behind the last.*)
Do(p, r, steps) ==
  LET todo == steps \o Tail(r.todo)
  IN proc' = [proc EXCEPT ![p] = IF todo = <<>> THEN Idle ELSE [r EXCEPT !.todo = todo]]

(* It does the given steps only, and needs its locals no more: the way out *)
(* of a call.  With a link counted and not entered it is "goto bad".       *)
Return(p, r, steps) ==
  LET todo == IF r.call.op = "link" /\ r.ip # 0 THEN Append(steps, <<"link_bad", 0>>) ELSE steps
  IN proc' = [proc EXCEPT ![p] = [Idle EXCEPT !.todo = todo, !.ip = r.ip]]

iput(s) == << <<"iput", s>> >>

(* namex's start: the root, or the current directory of p. *)
First(c, p, path)    == IF path.abs THEN SlotOf(c, ROOTINO) ELSE cwd[p]
WithFirst(c, p, path) == IF path.abs THEN iget(c, ROOTINO) ELSE idup(c, cwd[p])

-----------------------------------------------------------------------------
(* A call starts: begin_op and namex's first reference. *)
begin_op(p, call) ==
  /\ Lab(p) = "idle"
  /\ call.op \in {"create", "open"} => file[p] = 0
  /\ icache' = WithFirst(icache, p, call.path)
  /\ proc' = [proc EXCEPT ![p] =
       [Idle EXCEPT !.call = [call EXCEPT !.path = <<>>], !.path = call.path.elems,
                    !.todo = << <<IF call.op \in {"link", "open", "chdir"} THEN "namei" ELSE "nameiparent",
                                  First(icache, p, call.path)>>, <<call.op, 0>> >>]]
  /\ UNCHANGED <<disk, cwd, file, strays>>

(* The last close of an open file: fileclose's transaction. *)
fileclose(p) ==
  /\ Lab(p) = "idle" /\ file[p] # 0
  /\ Return(p, Idle, iput(file[p]))
  /\ file' = [file EXCEPT ![p] = 0]
  /\ UNCHANGED <<disk, icache, cwd, strays>>

(* One turn of namex's loop. *)
namex(p) ==
  /\ At(p, "namei") \/ At(p, "nameiparent")
  /\ LET s    == Arg(p)
         r    == proc[p]
         c    == ilock(icache, s, NoProc)
         stop == Lab(p) = "nameiparent" /\ Len(r.path) = 1
         i    == dirlookup(c, s, Head(r.path))
     IN \/ /\ r.path = <<>>
           /\ IF Lab(p) = "nameiparent" THEN Return(p, r, iput(s)) ELSE Do(p, [r EXCEPT !.ip = s], <<>>)
           /\ UNCHANGED icache
        \/ /\ r.path # <<>> /\ (c[s].type # "dir" \/ (~stop /\ i = 0))
           /\ Return(p, [r EXCEPT !.path = <<>>], iput(s))
           /\ icache' = c
        \/ /\ r.path # <<>> /\ c[s].type = "dir" /\ stop
           /\ Do(p, [r EXCEPT !.path = <<>>, !.dp = s, !.name = Head(r.path)], <<>>)
           /\ icache' = c
        \/ /\ r.path # <<>> /\ c[s].type = "dir" /\ ~stop /\ i # 0
           /\ Do(p, [r EXCEPT !.path = Tail(@), !.up = @ \/ (Head(r.path) = ".." /\ c[s].nlink = 0)], iput(s) \o << <<Lab(p), SlotOf(c, i)>> >>)
           /\ icache' = iget(c, i)
  /\ UNCHANGED <<disk, cwd, file, strays>>

(* Mutant: the reference count is not looked at. *)
LastRefAny(s) == TRUE

(* iput's test of ip->ref. *)
LastRef(s) == icache[s].ref = 1

(* iput up to its decision; only a process that frees keeps ip->lock. *)
iput_test(p) ==
  /\ At(p, "iput")
  /\ LET s == Arg(p)
     IN IF icache[s].valid /\ icache[s].nlink = 0 /\ LastRef(s)
          THEN /\ icache' = [icache EXCEPT ![s].lock = p]
               /\ Do(p, proc[p], << <<"ifree", s>>, <<"idec", s>> >>)
          ELSE Do(p, proc[p], << <<"idec", s>> >>) /\ UNCHANGED icache
  /\ UNCHANGED <<disk, cwd, file, strays>>

(* itrunc, type 0, iupdate, valid 0, and the release of ip->lock. *)
iput_free(p) ==
  /\ At(p, "ifree")
  /\ LET s == Arg(p)
         i == icache[s].inum
     IN /\ icache' = [icache EXCEPT ![s].type = "none", ![s].valid = FALSE, ![s].lock = NoProc]
        /\ dinode' = [dinode EXCEPT ![i].type = "none"]
        /\ dirent' = [dirent EXCEPT ![i] = NoEntries]
        /\ strays' = strays \ {i}
  /\ Do(p, proc[p], <<>>)
  /\ UNCHANGED <<cwd, file>>

(* ref--.  What a free entry says of an inode is never read again, except  *)
(* valid if iget forgets to clear it.                                      *)
iput_dec(p) ==
  /\ At(p, "idec")
  /\ LET s == Arg(p)
     IN icache' = IF icache[s].ref = 1
                    THEN [icache EXCEPT ![s] = [FreeEntry EXCEPT !.valid = icache[s].valid]]
                    ELSE [icache EXCEPT ![s].ref = @ - 1]
  /\ Do(p, proc[p], <<>>)
  /\ UNCHANGED <<disk, cwd, file, strays>>

-----------------------------------------------------------------------------
(* sys_link behind namei(old): count the new link, and look up the parent. *)
link(p) ==
  /\ At(p, "link")
  /\ LET r == proc[p]
         c == ilock(icache, r.ip, NoProc)
         d == AddLinks(c, r.ip, 1)
     IN IF c[r.ip].type = "dir"
          THEN /\ icache' = c
               /\ Return(p, [r EXCEPT !.ip = 0], iput(r.ip))
               /\ UNCHANGED dinode
          ELSE /\ icache' = WithFirst(d, p, r.call.new)
               /\ dinode' = iupdate(dinode, d, r.ip)
               /\ Do(p, [r EXCEPT !.path = r.call.new.elems],
                     << <<"nameiparent", First(d, p, r.call.new)>>, <<"link_new", 0>> >>)
  /\ UNCHANGED <<dirent, cwd, file, strays>>

(* Directory i, whose link count is k, gets the entry n for inode j. *)
WriteEntry(i, k, n, j) ==
  /\ dirent' = [dirent EXCEPT ![i][n] = j]
  /\ strays' = IF k = 0 THEN strays \cup {j} ELSE strays

(* sys_link from ilock(dp) on.  If dirlink finds the name it calls iput    *)
(* while dp is locked.                                                     *)
link_new(p) ==
  /\ At(p, "link_new")
  /\ LET r == proc[p]
         c == ilock(icache, r.dp, p)
         i == dirlookup(c, r.dp, r.name)
     IN IF i # 0
          THEN /\ icache' = iget(c, i)
               /\ Do(p, r, iput(SlotOf(c, i)) \o << <<"link_dup", 0>> >>)
               /\ UNCHANGED <<dirent, strays>>
          ELSE /\ icache' = iunlock(c, r.dp)
               /\ WriteEntry(c[r.dp].inum, c[r.dp].nlink, r.name, c[r.ip].inum)
               /\ Return(p, [r EXCEPT !.ip = 0, !.dp = 0], iput(r.dp) \o iput(r.ip))
  /\ UNCHANGED <<dinode, cwd, file>>

link_dup(p) ==
  /\ At(p, "link_dup")
  /\ icache' = iunlock(icache, proc[p].dp)
  /\ Return(p, [proc[p] EXCEPT !.dp = 0], iput(proc[p].dp))
  /\ UNCHANGED <<disk, cwd, file, strays>>

(* Mutants: the link that was counted is not taken back, or twice. *)
UndoNothing(c, s) == c
UndoTwice(c, s) == AddLinks(c, s, -2)

Undo(c, s) == AddLinks(c, s, -1)

(* bad: *)
link_bad(p) ==
  /\ At(p, "link_bad")
  /\ LET s == proc[p].ip
         c == Undo(ilock(icache, s, NoProc), s)
     IN /\ icache' = c
        /\ dinode' = iupdate(dinode, c, s)
        /\ Return(p, [proc[p] EXCEPT !.ip = 0], iput(s))
  /\ UNCHANGED <<dirent, cwd, file, strays>>

(* sys_unlink up to dirlookup; dp stays locked. *)
unlink(p) ==
  /\ At(p, "unlink")
  /\ LET r == proc[p]
         c == ilock(icache, r.dp, p)
         i == IF r.name \in {".", ".."} THEN 0 ELSE dirlookup(c, r.dp, r.name)
     IN IF i = 0
          THEN /\ icache' = iunlock(c, r.dp)
               /\ Return(p, [r EXCEPT !.dp = 0], iput(r.dp))
          ELSE /\ icache' = iget(c, i)
               /\ Do(p, [r EXCEPT !.ip = SlotOf(c, i)], << <<"unlink_ip", 0>> >>)
  /\ UNCHANGED <<disk, cwd, file, strays>>

isdirempty(i) == \A n \in Name : dirent[i][n] = 0

(* sys_unlink from ilock(ip) to the release of dp. *)
unlink_ip(p) ==
  /\ At(p, "unlink_ip")
  /\ LET r   == proc[p]
         c   == ilock(icache, r.ip, p)
         dir == c[r.ip].type = "dir"
         d   == IF dir THEN AddLinks(c, r.dp, -1) ELSE c
     IN IF dir /\ ~isdirempty(c[r.ip].inum)
          THEN /\ icache' = iunlock(c, r.ip)
               /\ Do(p, [r EXCEPT !.ip = 0], iput(r.ip) \o << <<"unlink_bad", 0>> >>)
               /\ UNCHANGED disk
          ELSE /\ icache' = iunlock(d, r.dp)
               /\ dinode' = iupdate(dinode, d, r.dp)
               /\ dirent' = [dirent EXCEPT ![c[r.dp].inum][r.name] = 0]
               /\ Return(p, [r EXCEPT !.dp = 0], iput(r.dp) \o << <<"unlink_dec", 0>> >>)
  /\ UNCHANGED <<cwd, file, strays>>

unlink_bad(p) ==
  /\ At(p, "unlink_bad")
  /\ icache' = iunlock(icache, proc[p].dp)
  /\ Return(p, [proc[p] EXCEPT !.dp = 0], iput(proc[p].dp))
  /\ UNCHANGED <<disk, cwd, file, strays>>

(* ip->nlink--, iupdate, iunlockput(ip). *)
unlink_dec(p) ==
  /\ At(p, "unlink_dec")
  /\ LET s == proc[p].ip
         c == AddLinks(icache, s, -1)
     IN /\ icache' = iunlock(c, s)
        /\ dinode' = iupdate(dinode, c, s)
        /\ Return(p, [proc[p] EXCEPT !.ip = 0], iput(s))
  /\ UNCHANGED <<dirent, cwd, file, strays>>

-----------------------------------------------------------------------------
TypeFor(op) == CASE op = "mkdir" -> "dir" [] op = "mknod" -> "dev" [] OTHER -> "file"

FreeInodes == {i \in Inum : dinode[i].type = "none"}

(* create from ilock(dp) on: the inode is there, or ialloc takes the first *)
(* free one (its scan may miss one freed behind it, which makes no         *)
(* difference to names) and dp stays locked.  A disk without a free inode  *)
(* is a panic in ialloc; the model only lets nothing more happen to p.     *)
create(p) ==
  /\ \E op \in {"create", "mkdir", "mknod"} : At(p, op)
  /\ LET r == proc[p]
         c == ilock(icache, r.dp, p)
         i == dirlookup(c, r.dp, r.name)
     IN \/ /\ i # 0
           /\ icache' = iget(iunlock(c, r.dp), i)
           /\ Do(p, [r EXCEPT !.dp = 0, !.ip = SlotOf(c, i)], iput(r.dp) \o << <<"create_old", 0>> >>)
           /\ UNCHANGED dinode
        \/ /\ i = 0 /\ FreeInodes # {}
           /\ LET j == Min(FreeInodes)
              IN /\ dinode' = [dinode EXCEPT ![j] = [type |-> TypeFor(r.call.op), nlink |-> 0]]
                 /\ icache' = iget(c, j)
                 /\ Do(p, [r EXCEPT !.ip = SlotOf(c, j)], << <<"create_new", 0>> >>)
  /\ UNCHANGED <<dirent, cwd, file, strays>>

(* create returns an existing inode, locked, if both are plain files. *)
create_old(p) ==
  /\ At(p, "create_old")
  /\ LET r == proc[p]
         c == ilock(icache, r.ip, p)
     IN IF r.call.op = "create" /\ c[r.ip].type = "file"
          THEN icache' = c /\ Return(p, r, << <<"fdalloc", 0>> >>)
          ELSE icache' = iunlock(c, r.ip) /\ Return(p, [r EXCEPT !.ip = 0], iput(r.ip))
  /\ UNCHANGED <<disk, cwd, file, strays>>

(* create fills the new inode and enters it; it stays locked, dp does not. *)
create_new(p) ==
  /\ At(p, "create_new")
  /\ LET r   == proc[p]
         dir == r.call.op = "mkdir"
         c   == AddLinks(ilock(icache, r.ip, p), r.ip, 1)
         d   == IF dir THEN AddLinks(c, r.dp, 1) ELSE c
         i   == c[r.ip].inum
         pi  == c[r.dp].inum
     IN /\ icache' = iunlock(d, r.dp)
        /\ dinode' = iupdate(iupdate(dinode, d, r.ip), d, r.dp)
        /\ dirent' = [dirent EXCEPT ![i] = IF dir THEN [@ EXCEPT !["."] = i, ![".."] = pi] ELSE @, ![pi][r.name] = i]
        /\ strays' = IF c[r.dp].nlink > 0 THEN strays ELSE strays \cup {i} \cup (IF dir THEN {pi} ELSE {})
        /\ Return(p, [r EXCEPT !.dp = 0], iput(r.dp) \o << <<IF r.call.op = "create" THEN "fdalloc" ELSE "made", 0>> >>)
  /\ UNCHANGED <<cwd, file>>

(* sys_mkdir and sys_mknod: iunlockput(ip). *)
made(p) ==
  /\ At(p, "made")
  /\ icache' = iunlock(icache, proc[p].ip)
  /\ Return(p, [proc[p] EXCEPT !.ip = 0], iput(proc[p].ip))
  /\ UNCHANGED <<disk, cwd, file, strays>>

(* sys_open without O_CREATE, behind namei. *)
open(p) ==
  /\ At(p, "open")
  /\ LET r == proc[p]
         c == ilock(icache, r.ip, p)
     IN IF c[r.ip].type = "dir" /\ r.call.write
          THEN icache' = iunlock(c, r.ip) /\ Return(p, [r EXCEPT !.ip = 0], iput(r.ip))
          ELSE icache' = c /\ Return(p, r, << <<"fdalloc", 0>> >>)
  /\ UNCHANGED <<disk, cwd, file, strays>>

(* The end of sys_open: the file keeps the reference, or none is to be had.*)
open_fd(p) ==
  /\ At(p, "fdalloc")
  /\ icache' = iunlock(icache, proc[p].ip)
  /\ \/ /\ file' = [file EXCEPT ![p] = proc[p].ip]
        /\ Return(p, [proc[p] EXCEPT !.ip = 0], <<>>)
     \/ /\ Return(p, [proc[p] EXCEPT !.ip = 0], iput(proc[p].ip))
        /\ UNCHANGED file
  /\ UNCHANGED <<disk, cwd, strays>>

sys_chdir(p) ==
  /\ At(p, "chdir")
  /\ LET r == proc[p]
         c == ilock(icache, r.ip, NoProc)
     IN /\ icache' = c
        /\ IF c[r.ip].type # "dir"
             THEN Return(p, [r EXCEPT !.ip = 0], iput(r.ip)) /\ UNCHANGED cwd
             ELSE /\ Return(p, [r EXCEPT !.ip = 0], iput(cwd[p]))
                  /\ cwd' = [cwd EXCEPT ![p] = r.ip]
  /\ UNCHANGED <<disk, file, strays>>

(* Power fails and the kernel boots again, with the blocks of the last     *)
(* commit, which is when no call was in progress.                          *)
crash ==
  /\ \A p \in Proc : Lab(p) = "idle"
  /\ icache' = BootCache
  /\ cwd' = [p \in Proc |-> 1] /\ file' = [p \in Proc |-> 0]
  /\ UNCHANGED <<disk, proc, strays>>

Step(p) ==
  \/ \E call \in Calls[p] : begin_op(p, call)
  \/ fileclose(p) \/ namex(p)
  \/ iput_test(p) \/ iput_free(p) \/ iput_dec(p)
  \/ link(p) \/ link_new(p) \/ link_dup(p) \/ link_bad(p)
  \/ unlink(p) \/ unlink_ip(p) \/ unlink_bad(p) \/ unlink_dec(p)
  \/ create(p) \/ create_old(p) \/ create_new(p) \/ made(p)
  \/ open(p) \/ open_fd(p) \/ sys_chdir(p)

Next == crash \/ \E p \in Proc : Step(p)

Spec == Init /\ [][Next]_vars

(* The power never fails. *)
SpecUp == Init /\ [][\E p \in Proc : Step(p)]_vars

-----------------------------------------------------------------------------
(* The shape of inodes, directories, cache entries and calls of fs.c. *)
TypeOK ==
  /\ dinode \in [Inum -> [type : Types, nlink : Nat]]
  /\ dirent \in [Inum -> [Elem -> 0 .. NINODES]]
  /\ \A s \in Slot : /\ icache[s].inum \in 0 .. NINODES /\ icache[s].ref \in Nat
                     /\ icache[s].valid \in BOOLEAN /\ icache[s].type \in Types
                     /\ icache[s].nlink \in Nat /\ icache[s].lock \in Proc \cup {NoProc}
  /\ \A p \in Proc : proc[p].ip \in 0 .. NINODE /\ proc[p].dp \in 0 .. NINODE
  /\ cwd \in [Proc -> Slot] /\ file \in [Proc -> 0 .. NINODE]
  /\ strays \subseteq Inum

One(b) == IF b THEN 1 ELSE 0

(* The pointers process p has to entry s: cwd, open file, locals of its    *)
(* call, and the iputs it still has to finish.                             *)
Pointers(p, s) ==
  One(cwd[p] = s) + One(file[p] = s) + One(proc[p].ip = s) + One(proc[p].dp = s)
  + Cardinality({k \in DOMAIN proc[p].todo : proc[p].todo[k][2] = s /\ proc[p].todo[k][1] # "ifree"})

(* ip->ref is exactly the number of pointers to the entry, in every call   *)
(* and at every error return of sysfile.c (fs.c:122-127).                  *)
RefsCounted ==
  \A s \in Slot : icache[s].ref = MapThenSumSet(LAMBDA p : Pointers(p, s), Proc)

(* An inode in use has one entry, and a valid entry agrees with the disk:  *)
(* iget never serves what an earlier or freed inode left in the entry.     *)
CacheCoherent ==
  /\ \A s, t \in Slot :
       icache[s].ref > 0 /\ icache[t].ref > 0 /\ icache[s].inum = icache[t].inum => s = t
  /\ \A s \in Slot : icache[s].ref > 0 /\ icache[s].valid =>
       dinode[icache[s].inum] = [type |-> icache[s].type, nlink |-> icache[s].nlink]

(* A directory that rmdir has removed, or is about to mark so. *)
Removed(i) ==
  \/ dinode[i].nlink = 0 \/ i \in strays
  \/ \E p \in Proc : proc[p].ip # 0 /\ icache[proc[p].ip].inum = i
       /\ \E k \in DOMAIN proc[p].todo : proc[p].todo[k][1] = "unlink_dec"

(* The directory entries that count as links to inode i: not ".", and not  *)
(* the ".." that a removed directory keeps until it is freed.              *)
Names(i) == {<<d, n>> \in Inum \X Elem : dirent[d][n] = i /\ n # "." /\ (n = ".." => ~Removed(d))}

(* Links of i that a call has counted and not yet entered, or erased and   *)
(* not yet discounted.                                                     *)
InFlight(i) ==
  {p \in Proc : proc[p].ip # 0 /\ icache[proc[p].ip].inum = i
     /\ \E k \in DOMAIN proc[p].todo : proc[p].todo[k][1] \in {"link_new", "link_dup", "link_bad", "unlink_dec"}}

(* nlink is exactly the number of names, plus what calls in progress have  *)
(* pending: link, unlink, create and their error returns keep it so in any *)
(* order, and so does the image a crash recovers.  Inodes entered into a   *)
(* directory that had been removed are the exception.                      *)
LinkCounts ==
  \A i \in Inum \ strays :
    dinode[i].type # "none" => dinode[i].nlink = Cardinality(Names(i)) + Cardinality(InFlight(i))

(* No name, pointer or call leads to an inode that iput frees or has freed,*)
(* except the pointers of calls that went up from a removed directory.     *)
FreedIsUnused ==
  /\ \A p \in Proc : Lab(p) = "ifree" =>
       /\ dinode[icache[Arg(p)].inum].nlink = 0
       /\ Pointers(p, Arg(p)) = 1 /\ \A q \in Proc \ {p} : Pointers(q, Arg(p)) > 0 => proc[q].up
  /\ \A i \in Inum : dinode[i].type = "none" => Names(i) = {}

(* Whom process p waits for. *)
WaitsFor(p) == IF Lab(p) # "idle" /\ Wants(p) # 0 THEN icache[Wants(p)].lock ELSE NoProc

(* Calls that lock a directory and its entry never wait for each other, or *)
(* for themselves (fs.c:149).                                              *)
NoDeadlock ==
  \A p \in Proc : LET q == WaitsFor(p) IN q # NoProc => q # p /\ WaitsFor(q) # p

(* None of the panics of ilock, dirlookup, unlink and create is reached by *)
(* a call that stays among directories which have names.  A call that goes *)
(* up from a current directory that was removed does reach one, ilock's    *)
(* "no type", if the parent was removed and freed in the meantime: the     *)
(* ".." of a removed directory is no reference to its parent.              *)
NoPanic == \A p \in Proc : Panics(p) => Blocked(p) \/ (proc[p].up /\ NoType(Wants(p)))

(* fs.c:327: the last iput of an inode without links frees it.  After a    *)
(* crash nobody is left to do so; see the README.                          *)
OrphansFreed ==
  \A i \in Inum : dinode[i].type # "none" /\ dinode[i].nlink = 0 =>
                    \E s \in Slot : icache[s].inum = i /\ icache[s].ref > 0

(* What the inode cache of fs.c keeps between its critical sections: exact *)
(* counts, entries that agree with the disk, and no panic but the one of a *)
(* call that goes up from a removed directory.                             *)
InodeInv == TypeOK /\ RefsCounted /\ CacheCoherent /\ NoPanic
=============================================================================
