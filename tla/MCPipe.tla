------------------------------- MODULE MCPipe -------------------------------
(* Pipe for TLC. *)
EXTENDS Pipe

MCMessages == {<<>>, <<1>>, <<0, 1, 0>>}
=============================================================================
