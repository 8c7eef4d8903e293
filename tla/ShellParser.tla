---------------------------- MODULE ShellParser -----------------------------
(***************************************************************************)
(* The recursive-descent parser of sh.c, on lines that are sequences of    *)
(* tokens.  A parser function takes the rest of the line and returns what  *)
(* it built with what it left, or Panic.                                   *)
(***************************************************************************)
EXTENDS Naturals, Sequences, SequencesExt, FiniteSets

CONSTANTS Word, MAXARGS  \* tokens that are words; sh.c's limit on arguments

Symbol == {"|", ";", "&", "(", ")", "<", ">"}

Exec(argv)      == [type |-> "EXEC", argv |-> argv]
Redir(c, f, fd) == [type |-> "REDIR", cmd |-> c, file |-> f, fd |-> fd]
Pair(t, l, r)   == [type |-> t, left |-> l, right |-> r]
Back(c)         == [type |-> "BACK", cmd |-> c]

Panic == [ok |-> FALSE]
Built(c, rest) == [ok |-> TRUE, cmd |-> c, rest |-> rest]

(* The next token is one of toks. *)
peek(s, toks) == s # <<>> /\ Head(s) \in toks

(* Continue with what r built, unless it panicked. *)
AndThen(r, Op(_, _)) == IF r.ok THEN Op(r.cmd, r.rest) ELSE Panic

RECURSIVE parseline(_)
RECURSIVE parsepipe(_)
RECURSIVE parseredirs(_, _)
RECURSIVE parseargs(_, _)
RECURSIVE ampersands(_, _)

ampersands(c, s) == IF peek(s, {"&"}) THEN ampersands(Back(c), Tail(s)) ELSE Built(c, s)

(* A redirection wraps the command built so far. *)
parseredirs(c, s) ==
  IF ~peek(s, {"<", ">"}) THEN Built(c, s)
  ELSE IF Len(s) < 2 \/ s[2] \notin Word THEN Panic
       ELSE parseredirs(Redir(c, s[2], IF s[1] = "<" THEN 0 ELSE 1), SubSeq(s, 3, Len(s)))

RECURSIVE AddArg(_, _)

(* cmd->argv of the execcmd below the redirections. *)
AddArg(c, w) == IF c.type = "EXEC" THEN Exec(Append(c.argv, w)) ELSE [c EXCEPT !.cmd = AddArg(@, w)]

RECURSIVE Argc(_)

Argc(c) == IF c.type = "EXEC" THEN Len(c.argv) ELSE Argc(c.cmd)

(* parseexec's loop. *)
parseargs(c, s) ==
  IF s = <<>> \/ peek(s, {"|", ")", "&", ";"}) THEN Built(c, s)
  ELSE IF Head(s) \notin Word \/ Argc(c) + 1 >= MAXARGS THEN Panic
       ELSE AndThen(parseredirs(AddArg(c, Head(s)), Tail(s)), parseargs)

parseblock(s) ==
  LET r == parseline(Tail(s))
  IN IF r.ok /\ peek(r.rest, {")"}) THEN parseredirs(r.cmd, Tail(r.rest)) ELSE Panic

parseexec(s) ==
  IF peek(s, {"("}) THEN parseblock(s) ELSE AndThen(parseredirs(Exec(<<>>), s), parseargs)

(* Mutant: a pipeline groups to the left. *)
PipeOf_left(c, d) == IF d.type = "PIPE" THEN Pair("PIPE", Pair("PIPE", c, d.left), d.right) ELSE Pair("PIPE", c, d)

PipeOf(c, d) == Pair("PIPE", c, d)

parsepipe(s) ==
  AndThen(parseexec(s), LAMBDA c, rest :
    IF ~peek(rest, {"|"}) THEN Built(c, rest)
    ELSE AndThen(parsepipe(Tail(rest)), LAMBDA d, rest2 : Built(PipeOf(c, d), rest2)))

parseline(s) ==
  AndThen(parsepipe(s), LAMBDA c, rest :
    AndThen(ampersands(c, rest), LAMBDA b, rest2 :
      IF ~peek(rest2, {";"}) THEN Built(b, rest2)
      ELSE AndThen(parseline(Tail(rest2)), LAMBDA d, rest3 : Built(Pair("LIST", b, d), rest3))))

(* Mutant: what is left over is ignored. *)
Leftovers_not(s) == FALSE

Leftovers(s) == s # <<>>

(* parsecmd: the command, or Panic ("syntax"). *)
parsecmd(s) ==
  LET r == parseline(s) IN IF r.ok /\ ~Leftovers(r.rest) THEN r ELSE Panic

-----------------------------------------------------------------------------
RECURSIVE Unparse(_)

Parens(c) == <<"(">> \o Unparse(c) \o <<")">>

(* The text of a command, with parentheses where its part binds weaker. *)
Unparse(c) ==
  CASE c.type = "EXEC"  -> c.argv
    [] c.type = "REDIR" -> (IF c.cmd.type \in {"EXEC", "REDIR"} THEN Unparse(c.cmd) ELSE Parens(c.cmd))
                           \o << IF c.fd = 0 THEN "<" ELSE ">", c.file >>
    [] c.type = "BACK"  -> (IF c.cmd.type = "LIST" THEN Parens(c.cmd) ELSE Unparse(c.cmd)) \o <<"&">>
    [] c.type = "PIPE"  -> (IF c.left.type \in {"EXEC", "REDIR"} THEN Unparse(c.left) ELSE Parens(c.left)) \o <<"|">>
                           \o (IF c.right.type \in {"LIST", "BACK"} THEN Parens(c.right) ELSE Unparse(c.right))
    [] OTHER            -> (IF c.left.type = "LIST" THEN Parens(c.left) ELSE Unparse(c.left)) \o <<";">> \o Unparse(c.right)

(* The commands of depth at most n over the words W. *)
RECURSIVE Cmds(_, _)

Cmds(W, n) ==
  IF n = 0 THEN {Exec(<<w>>) : w \in W}
  ELSE LET S == Cmds(W, n - 1)
       IN S \cup {Redir(c, w, fd) : c \in S, w \in W, fd \in {0, 1}} \cup {Back(c) : c \in S}
            \cup {Pair(t, l, r) : t \in {"PIPE", "LIST"}, l \in S, r \in S}

(* Tokens of s that are not parentheses, counted. *)
Tokens(s) == [t \in (Word \cup Symbol) \ {"(", ")"} |-> Cardinality({k \in DOMAIN s : s[k] = t})]
=============================================================================
