-------------------------- MODULE MCReleaseClient --------------------------
(* A legacy release, a signed one and the next one, of which a candidate   *)
(* may come out first; one command asks for them.                          *)
EXTENDS ReleaseClient

Legacy    == Version(<<0, 2, 2>>, <<>>)
Signed    == Version(<<0, 2, 3>>, <<>>)
Candidate == Version(<<0, 2, 10>>, <<Word(1), Number(2)>>)
Later     == Version(<<0, 2, 10>>, <<>>)
MCReleases == {Signed, Candidate, Later}
=============================================================================
