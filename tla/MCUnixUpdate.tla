--------------------------- MODULE MCUnixUpdate ----------------------------
(* A small instance of UnixUpdate: versions are 1 (installed), 2, 3, ...    *)
EXTENDS UnixUpdate

MCTarget == [u \in Updaters |-> u + 1]
=============================================================================
