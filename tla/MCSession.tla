----------------------------- MODULE MCSession -----------------------------
(* Session with inputs of up to four bytes. *)
EXTENDS Session

MCParts == {<<>>, <<0>>, <<0, 1>>, <<1, 0, 1, 0>>}
============================================================================
