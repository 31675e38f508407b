-------------------------- MODULE MCWindowsUpdate ---------------------------
\* WindowsUpdate on a small instance: two commands, the second of which
\* installs a newer release, after one that may have left its lock.
EXTENDS WindowsUpdate, TLC
CONSTANTS u0, u1, u2
MCUpdaters == {u0, u1, u2}
MCGone == {u0}
MCTarget == u0 :> 2 @@ u1 :> 2 @@ u2 :> 3
=============================================================================
