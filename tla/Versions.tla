------------------------------ MODULE Versions ------------------------------
(***************************************************************************)
(* Semantic versions.  The repository compares them twice: the updater     *)
(* (pkg/updater/version.go) and the release tool (cmd/releaseprep) have an *)
(* algorithm each, and both must order the releases alike.                 *)
(*                                                                         *)
(* A version is a core of three numbers and a sequence of prerelease       *)
(* identifiers; of an alphanumeric identifier only its rank in the order   *)
(* of bytes matters.                                                       *)
(***************************************************************************)
EXTENDS Integers, Sequences, FiniteSetsExt

Number(n) == [numeric |-> TRUE, rank |-> n]
Word(n)   == [numeric |-> FALSE, rank |-> n]
Version(core, pre) == [core |-> core, pre |-> pre]

\* What both algorithms accept.
WellFormed == {v \in [core : Seq(Nat), pre : Seq([numeric : BOOLEAN, rank : Nat])] : Len(v.core) = 3}

Sign(n) == IF n < 0 THEN -1 ELSE IF n > 0 THEN 1 ELSE 0

isPrereleaseVersion(v) == v.pre # <<>>

\* The positions at which two sequences differ, as far as both go.
Differ(s, t) == {i \in 1..Min({Len(s), Len(t)}) : s[i] # t[i]}

\* Numbers come before words and are compared by value.
CompareIdentifier(l, r) ==
  IF l.numeric = r.numeric THEN Sign(l.rank - r.rank) ELSE IF l.numeric THEN -1 ELSE 1

\* compareVersion: core, then a version without prerelease wins, then the
\* first identifier that differs, then the longer list.
CompareVersions(l, r) ==
  LET core == Differ(l.core, r.core)
      pre  == Differ(l.pre, r.pre)
  IN IF core # {} THEN Sign(l.core[Min(core)] - r.core[Min(core)])
     ELSE IF l.pre = <<>> \/ r.pre = <<>> THEN Sign(Len(r.pre) - Len(l.pre))
     ELSE IF pre # {} THEN CompareIdentifier(l.pre[Min(pre)], r.pre[Min(pre)])
     ELSE Sign(Len(l.pre) - Len(r.pre))

\* compareSemVersion of the release tool, as a relation: l is older than r.
MutCompareSemVersion(l, r) == \* mutant: a candidate counts as newer than its release
  \/ \E i \in 1..3 : l.core[i] < r.core[i] /\ \A j \in 1..(i - 1) : l.core[j] = r.core[j]
  \/ l.core = r.core /\ Len(l.pre) < Len(r.pre)
CompareSemVersion(l, r) ==
  \/ \E i \in 1..3 : l.core[i] < r.core[i] /\ \A j \in 1..(i - 1) : l.core[j] = r.core[j]
  \/ /\ l.core = r.core /\ l.pre # <<>>
     /\ \/ r.pre = <<>>
        \/ \E i \in Differ(l.pre, r.pre) :
             /\ \A j \in 1..(i - 1) : l.pre[j] = r.pre[j]
             /\ IF l.pre[i].numeric = r.pre[i].numeric
                THEN l.pre[i].rank < r.pre[i].rank ELSE l.pre[i].numeric
        \/ Differ(l.pre, r.pre) = {} /\ Len(l.pre) < Len(r.pre)

\* The first release whose assets carry a signed manifest, 0.2.3-0: the
\* smallest version there is with this core.
firstSignedUpdate == Version(<<0, 2, 3>>, <<Number(0)>>)
requiresSignedUpdate(v) == CompareVersions(v, firstSignedUpdate) >= 0
=============================================================================
