------------------------------- MODULE Shell --------------------------------
(***************************************************************************)
(* The shell of sh.c and the first process of init.c: what forking,        *)
(* waiting, pipes and descriptors make of a command line.                  *)
(*                                                                         *)
(* A process has a list of system calls ahead of it; runcmd lists those of *)
(* a command.  A system call is one step; Proc, FileTable and Pipe say     *)
(* what is inside.  The programs that are run read their input to its end, *)
(* or write a few bytes and exit.                                          *)
(***************************************************************************)
EXTENDS ShellParser, Integers, FiniteSetsExt

CONSTANTS
  NPROC,     \* process slots: 1 is init
  PipeIds,   \* pipes
  Sessions,  \* bound: the sequences of lines that may be typed
  PIPESIZE   \* bytes that a pipe holds

Pid    == 1 .. NPROC
INIT   == 1

VARIABLES
  procs,  \* the processes
  bytes,  \* in each pipe
  typed   \* the lines still to come, before end of file

shellVars == <<procs, bytes, typed>>

(* fg and left are history: the process belongs to the line that the shell *)
(* waits for; the process above it in this line has panicked.              *)
Unused == [state |-> "unused", parent |-> 0, code |-> <<>>, fds |-> <<>>, p |-> <<>>, fg |-> FALSE, left |-> FALSE]

(* What descriptors refer to; those of a process are the sequence of 0, 1, *)
(* ... up to the last one that is open.                                    *)
Closed       == <<"closed", "">>
ReadEnd(id)  == <<"read", id>>
WriteEnd(id) == <<"write", id>>
Console3     == [k \in 1 .. 3 |-> <<"console", "">>]

(* init has opened the console. *)
ShellInit ==
  /\ procs = [x \in Pid |-> IF x = INIT
                 THEN [Unused EXCEPT !.state = "run", !.code = << [i |-> "init"] >>, !.fds = Console3]
                 ELSE Unused]
  /\ bytes = [x \in PipeIds |-> 0]
  /\ typed \in Sessions

-----------------------------------------------------------------------------
Ins(i)       == << [i |-> i] >>
CloseFd(fd)  == << [i |-> "close", fd |-> fd] >>
CloseEnd(e)  == << [i |-> "close_end", e |-> e] >>
DupEnd(e)    == << [i |-> "dup", e |-> e] >>
Fork(c, fg)  == << [i |-> "fork", code |-> c, fg |-> fg] >>

(* Mutants: the shell's copies of the pipe's ends stay open; a command of  *)
(* the pipe keeps the end that it writes to; the shell waits for one of    *)
(* the two commands.                                                       *)
ClosePipe_not == <<>>
CloseCopies_one == CloseEnd(1)
WaitBoth_one == Ins("wait")

ClosePipe == CloseEnd(1) \o CloseEnd(2)

(* The same in the commands of the pipe, behind dup. *)
CloseCopies == CloseEnd(1) \o CloseEnd(2)

WaitBoth  == Ins("wait") \o Ins("wait")

RECURSIVE runcmd(_)

(* The system calls of runcmd, p[0] and p[1] being ends 1 and 2. *)
runcmd(c) ==
  CASE c.type = "EXEC" ->
         IF c.argv = <<>> THEN Ins("exit") ELSE << [i |-> "exec", prog |-> c.argv[1]] >>
    [] c.type = "REDIR" -> CloseFd(c.fd) \o << [i |-> "open", file |-> c.file] >> \o runcmd(c.cmd)
    [] c.type = "LIST" -> Fork(runcmd(c.left), TRUE) \o Ins("wait") \o runcmd(c.right)
    [] c.type = "PIPE" ->
         Ins("pipe")
         \o Fork(CloseFd(1) \o DupEnd(2) \o CloseCopies \o runcmd(c.left), TRUE)
         \o Fork(CloseFd(0) \o DupEnd(1) \o CloseCopies \o runcmd(c.right), TRUE)
         \o ClosePipe \o WaitBoth \o Ins("exit")
    [] OTHER -> Fork(runcmd(c.cmd), FALSE) \o Ins("exit")

-----------------------------------------------------------------------------
Running(x, i) == procs[x].state = "run" /\ Head(procs[x].code).i = i
Now(x)        == Head(procs[x].code)

(* Process x goes on with its next call, its descriptors being f. *)
Went(x, f) == [procs EXCEPT ![x].code = Tail(@), ![x].fds = f]

WithFd(f, fd, o) == [k \in 1 .. (IF fd + 1 > Len(f) THEN fd + 1 ELSE Len(f)) |->
                       IF k = fd + 1 THEN o ELSE IF k <= Len(f) THEN f[k] ELSE Closed]
LowestFd(f)      == Min({k - 1 : k \in {j \in DOMAIN f : f[j] = Closed}} \cup {Len(f)})

RECURSIVE Trim(_)

(* Descriptors above the last open one are not kept. *)
Trim(f) == IF f # <<>> /\ Last(f) = Closed THEN Trim(Front(f)) ELSE f

(* Somebody has an end of a pipe. *)
Open(end) == \E x \in Pid : \E k \in DOMAIN procs[x].fds : procs[x].fds[k] = end

FreeSlots == {y \in Pid : procs[y].state = "unused"}

Kids(ps, x) == {y \in Pid : ps[y].state # "unused" /\ ps[y].parent = x}

(* Mutant: the children keep their parent. *)
Exit_keep(ps, x) == [ps EXCEPT ![x] = [Unused EXCEPT !.state = "zombie", !.parent = ps[x].parent, !.fg = ps[x].fg]]

(* Process x exits in ps: its descriptors are closed, its children become  *)
(* init's.                                                                 *)
Exit(ps, x) ==
  [y \in Pid |-> IF y = x THEN [Unused EXCEPT !.state = "zombie", !.parent = ps[x].parent, !.fg = ps[x].fg]
                 ELSE IF ps[y].parent = x THEN [ps[y] EXCEPT !.parent = INIT] ELSE ps[y]]

RECURSIVE Under(_, _)

(* The processes of S and all below them. *)
Under(ps, S) ==
  LET T == S \cup UNION {Kids(ps, x) : x \in S} IN IF T = S THEN S ELSE Under(ps, T)

(* panic of sh.c: a message and exit, whoever is still running below. *)
panic(ps, x) ==
  Exit([y \in Pid |-> IF y \in Under(ps, {x}) THEN [ps[y] EXCEPT !.left = TRUE] ELSE ps[y]], x)

(* fork1 with the given code for the child, or a panic without a free slot.*)
ForkAs(x, code, fg, after) ==
  procs' = IF FreeSlots = {} THEN panic(procs, x)
           ELSE [procs EXCEPT ![x].code = after,
                   ![Min(FreeSlots)] = [procs[x] EXCEPT !.parent = x, !.code = code, !.fg = fg]]

sys_fork(x) ==
  /\ Running(x, "fork")
  /\ ForkAs(x, Now(x).code, Now(x).fg /\ procs[x].fg, Tail(procs[x].code))
  /\ UNCHANGED bytes

(* wait: a zombie child is freed; without a child it returns at once. *)
Reap(x, after) ==
  LET dead == {y \in Kids(procs, x) : procs[y].state = "zombie"}
  IN \/ Kids(procs, x) = {} /\ procs' = [procs EXCEPT ![x].code = after]
     \/ \E y \in dead : procs' = [procs EXCEPT ![x].code = after, ![y] = Unused]

sys_wait(x) == Running(x, "wait") /\ Reap(x, Tail(procs[x].code)) /\ UNCHANGED bytes

sys_exit(x) == Running(x, "exit") /\ procs' = Exit(procs, x) /\ UNCHANGED bytes

FreePipes == {id \in PipeIds : ~Open(ReadEnd(id)) /\ ~Open(WriteEnd(id))}

(* A pipe, whichever, or a panic if there is none. *)
sys_pipe(x) ==
  /\ Running(x, "pipe")
  /\ \/ /\ FreePipes = {}
        /\ procs' = panic(procs, x)
        /\ UNCHANGED bytes
     \/ /\ FreePipes # {}
        /\ LET id == CHOOSE id \in FreePipes : TRUE
               f  == WithFd(procs[x].fds, LowestFd(procs[x].fds), ReadEnd(id))
               g  == WithFd(f, LowestFd(f), WriteEnd(id))
           IN /\ procs' = [Went(x, g) EXCEPT ![x].p = <<LowestFd(procs[x].fds), LowestFd(f)>>]
              /\ bytes' = [bytes EXCEPT ![id] = 0]

sys_close(x) ==
  /\ Running(x, "close") \/ Running(x, "close_end")
  /\ LET fd == IF Now(x).i = "close" THEN Now(x).fd ELSE procs[x].p[Now(x).e]
     IN procs' = Went(x, Trim(WithFd(procs[x].fds, fd, Closed)))
  /\ UNCHANGED bytes

sys_dup(x) ==
  /\ Running(x, "dup")
  /\ LET f == procs[x].fds IN procs' = Went(x, WithFd(f, LowestFd(f), f[procs[x].p[Now(x).e] + 1]))
  /\ UNCHANGED bytes

(* A redirection: the file, or an error message and exit. *)
sys_open(x) ==
  /\ Running(x, "open")
  /\ LET f == procs[x].fds
     IN procs' = IF Now(x).file = "missing" THEN Exit(procs, x)
                 ELSE Went(x, WithFd(f, LowestFd(f), <<"file", Now(x).file>>))
  /\ UNCHANGED bytes

(* exec of a program, or an error message and exit. *)
Program(name) ==
  CASE name = "gen" -> Ins("write") \o Ins("write") \o Ins("exit")
    [] name = "cat" -> Ins("read")
    [] OTHER        -> Ins("exit")

sys_exec(x) ==
  /\ Running(x, "exec")
  /\ procs' = [procs EXCEPT ![x].code = Program(Now(x).prog), ![x].p = <<>>]
  /\ UNCHANGED bytes

(* A program writes a byte to descriptor 1: into a pipe it may have to     *)
(* wait, or there is no reader.                                            *)
sys_write(x) ==
  /\ Running(x, "write")
  /\ LET o == procs[x].fds[2]
     IN IF o[1] = "write" /\ Open(ReadEnd(o[2]))
          THEN bytes[o[2]] < PIPESIZE /\ bytes' = [bytes EXCEPT ![o[2]] = @ + 1]
          ELSE UNCHANGED bytes
  /\ procs' = Went(x, procs[x].fds)

(* A program reads a byte from descriptor 0 and goes on to write it; or is *)
(* at the end of its input.                                                *)
sys_read(x) ==
  /\ Running(x, "read")
  /\ LET o == procs[x].fds[1]
     IN IF o[1] = "read" /\ bytes[o[2]] > 0
          THEN /\ bytes' = [bytes EXCEPT ![o[2]] = @ - 1]
               /\ procs' = [procs EXCEPT ![x].code = Ins("write") \o @]
          ELSE /\ o[1] = "read" => ~Open(WriteEnd(o[2]))
               /\ procs' = [procs EXCEPT ![x].code = Ins("exit")]
               /\ UNCHANGED bytes

-----------------------------------------------------------------------------
(* exit of init: the kernel panics, and nothing runs any more. *)
Halt == [x \in Pid |-> Unused]

(* main of init.c starts a shell, and waits until it is that one that has  *)
(* exited.  Without a slot for the shell it exits itself.                  *)
init_fork(x) ==
  /\ Running(x, "init")
  /\ \/ FreeSlots = {} /\ procs' = Halt
     \/ /\ FreeSlots # {}
        /\ LET y == Min(FreeSlots)
           IN procs' = [procs EXCEPT ![x].code = << [i |-> "init_wait", pid |-> y] >>,
                          ![y] = [Unused EXCEPT !.state = "run", !.parent = x, !.code = Ins("prompt"), !.fds = Console3, !.fg = TRUE]]
  /\ UNCHANGED bytes

IsShell(x, y) == y = Now(x).pid

init_wait(x) ==
  /\ Running(x, "init_wait")
  /\ \E y \in Kids(procs, x) :
       /\ procs[y].state = "zombie"
       /\ procs' = [procs EXCEPT ![y] = Unused, ![x].code = IF IsShell(x, y) THEN Ins("init") ELSE @]
  /\ UNCHANGED bytes

(* What the child does with a line. *)
Script == [line \in UNION {Range(t) : t \in Sessions} |-> LET r == parsecmd(line) IN IF r.ok THEN runcmd(r.cmd) ELSE Ins("exit")]

(* main of sh.c: a line, which the child parses and runs; or end of file. *)
getcmd(x) ==
  /\ Running(x, "prompt") /\ typed # <<>> /\ Head(Head(typed)) # "cd"
  /\ ForkAs(x, Script[Head(typed)], TRUE, Ins("wait") \o Ins("prompt"))
  /\ typed' = Tail(typed)
  /\ UNCHANGED bytes

(* The shell itself does a "cd". *)
getcmd_cd(x) ==
  /\ Running(x, "prompt") /\ typed # <<>> /\ Head(Head(typed)) = "cd"
  /\ typed' = Tail(typed)
  /\ UNCHANGED <<procs, bytes>>

getcmd_eof(x) ==
  /\ Running(x, "prompt") /\ typed = <<>>
  /\ procs' = Exit(procs, x)
  /\ UNCHANGED <<bytes, typed>>

Goes(x) ==
  \/ sys_fork(x) \/ sys_wait(x) \/ sys_exit(x) \/ sys_pipe(x) \/ sys_close(x) \/ sys_dup(x)
  \/ sys_open(x) \/ sys_exec(x) \/ sys_write(x) \/ sys_read(x) \/ init_fork(x) \/ init_wait(x)

ShellNext == \E x \in Pid : (Goes(x) /\ UNCHANGED typed) \/ getcmd(x) \/ getcmd_cd(x) \/ getcmd_eof(x)

(* Every process that can go on does; nobody has to type. *)
ShellFairness == \A x \in Pid : WF_shellVars(Goes(x) /\ UNCHANGED typed)

ShellSpec == ShellInit /\ [][ShellNext]_shellVars /\ ShellFairness

-----------------------------------------------------------------------------
(* The shape of processes and pipes. *)
ShellTypeOK ==
  /\ bytes \in [PipeIds -> 0 .. PIPESIZE]
  /\ \A x \in Pid : /\ procs[x].state \in {"unused", "run", "zombie"} /\ procs[x].parent \in 0 .. NPROC
                    /\ procs[x].state = "run" <=> procs[x].code # <<>>
                    /\ procs[x].state = "run" /\ x # INIT => procs[procs[x].parent].state = "run"

(* A prompt is printed only when every process of the last line has ended  *)
(* and been waited for, except what "&" put behind it, and except the left *)
(* side of a pipeline whose process panicked because it could not fork the *)
(* right side (sh.c:111): that one runs on behind the prompt.              *)
PromptWhenDone ==
  \A x \in Pid : Running(x, "prompt") =>
    Kids(procs, x) = {} /\ \A y \in Pid \ {x} : procs[y].state = "run" /\ procs[y].fg => procs[y].left

(* A program has descriptors 0, 1 and 2 and no others: whatever pipes and  *)
(* redirections are around it, no end of a pipe leaks into it.             *)
ThreeDescriptors ==
  \A x \in Pid : procs[x].state = "run" /\ Now(x).i \in {"exec", "read", "write"} =>
                   Len(procs[x].fds) = 3 /\ \A k \in 1 .. 3 : procs[x].fds[k] # Closed

(* Every line comes to its end and the prompt returns, pipelines included, *)
(* also when a fork or a pipe fails in it or the shell itself has to exit: *)
(* no command waits for an end of file that some process keeps away.  The  *)
(* exception is init without a slot for the next shell, where the kernel   *)
(* has panicked.                                                           *)
PromptReturns == []<>(procs = Halt \/ \E x \in Pid : Running(x, "prompt"))

(* What sh.c leaves behind of a line: no process it should have waited     *)
(* for, and no descriptor.                                                 *)
ShellInv == ShellTypeOK /\ PromptWhenDone /\ ThreeDescriptors
=============================================================================
