------------------------------ MODULE MCShell -------------------------------
(* Shell, its parser and Text for TLC.  The parser and Text are operators:  *)
(* states in which nothing moves hold the samples they are compared on.    *)
EXTENDS Shell, Text

VARIABLE command  \* a tree, or a line of tokens, for the parser

userVars == <<shellVars, textVars, command>>

None == [kind |-> "none"]

(* All trees of depth 3 over one word, and all lines of up to five tokens. *)
Commands ==
  {[kind |-> "tree", cmd |-> c] : c \in Cmds({"gen"}, 3)}
    \cup {[kind |-> "line", text |-> s] : s \in UNION {[1 .. n -> {"gen"} \cup Symbol] : n \in 0 .. 5}}

(* Two children at once, a background job, redirection, a failing command, *)
(* a pipeline of three, a syntax error, a pipeline in a background block,  *)
(* a change of directory, a pipeline that may need one pipe more than      *)
(* there are, and background jobs that take the slots of the shell's       *)
(* child and of the next shell.                                            *)
L1 == <<"gen", "|", "cat">>
L2 == <<"gen", "&">>
L3 == <<"gen", ";", "cat", "<", "f">>
L4 == <<"cat", "<", "missing">>
L5 == <<"gen", "|", "cat", "|", "cat">>
L6 == <<"gen", "gen", ")">>
L7 == <<"(", "gen", "|", "cat", ")", ">", "f", "&">>
L8 == <<"cd", "f">>
L9 == <<"gen", "|", "cat", "|", "cat", "|", "cat">>
L10 == <<"(", "(", "f", "&", ")", "&", ")", "&">>
L11 == <<"f", "&">>
MCSessions == {<<L5>>, <<L7, L3>>, <<L6, L8, L4, L1>>, <<L2, L2, L1>>, <<L9>>, <<L10, L11, L11, L11>>}

Moving == sample = None /\ command = None

UserInit ==
  /\ ShellInit
  /\ \/ sample = None /\ command = None
     \/ typed = <<L5>> /\ TextInit /\ command = None
     \/ typed = <<L5>> /\ sample = None /\ command \in Commands

UserSpec ==
  /\ UserInit
  /\ [][Moving /\ ShellNext /\ UNCHANGED <<sample, command>>]_userVars
  /\ Moving => ShellFairness

(* The parser gives a command back from its text: operators bind and group *)
(* as runcmd takes them, whatever the nesting.                             *)
RoundTrip == command.kind = "tree" => parsecmd(Unparse(command.cmd)) = Built(command.cmd, <<>>)

(* A line is either refused or parsed with nothing of it left out or       *)
(* invented: the command has its words and operators, and a line with      *)
(* parentheses that do not match is refused.                               *)
TokensKept ==
  command.kind = "line" =>
    LET r == parsecmd(command.text)
        Count(t) == Cardinality({k \in DOMAIN command.text : command.text[k] = t})
    IN r.ok => Tokens(Unparse(r.cmd)) = Tokens(command.text) /\ Count("(") = Count(")")

(* The parser of sh.c inverts the writing of commands, and refuses or      *)
(* keeps everything else.                                                  *)
ParserInverts == RoundTrip /\ TokensKept

(* A line that was typed comes to its end and the prompt returns.          *)
LinesEnd == Moving => PromptReturns
=============================================================================
