--------------------------- MODULE MCNativeOAuth ---------------------------
(***************************************************************************)
(* TLC instance of NativeOAuth: a login and a command that refreshes the   *)
(* tokens, on two configuration paths that may name one file.              *)
(***************************************************************************)
EXTENDS NativeOAuth

CONSTANTS l1, r1, g0, p1, p2

TwoPaths == [p \in Procs |-> IF p = r1 THEN p2 ELSE p1]
=============================================================================
