--------------------------- MODULE MCBuiltinTools ---------------------------
(***************************************************************************)
(* An instance of BuiltinTools for TLC: two writes, of two blocks and of   *)
(* one, and a read that takes one block meet on one file; a shell call     *)
(* whose own timeout may come first.  The shorter write has a CRLF in it,  *)
(* and the file may have bytes in it at first that are no UTF-8.           *)
(***************************************************************************)
EXTENDS BuiltinTools, TLC

CONSTANTS long, short, look, list, path, a1, a2, crlf, lf, bad, marks

MCWrites == {long, short}
MCReads == {look}
MCShells == {list}
MCPaths == {path}
MCBlocks == {a1, a2, crlf, lf, bad, marks}
MCTarget == [c \in {long, short, look} |-> path]
MCContent == (long :> <<a1, a2>>) @@ (short :> <<crlf>>)
MCFound == {<<a1, a2>>, <<crlf>>, <<bad>>}
MCShown == [b \in MCBlocks |-> CASE b = crlf -> lf [] b = bad -> marks [] OTHER -> b]
=============================================================================
