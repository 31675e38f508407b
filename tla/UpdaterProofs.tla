--------------------------- MODULE UpdaterProofs ---------------------------
(***************************************************************************)
(* What the updater (pkg/updater) guarantees.                              *)
(*                                                                         *)
(* ReleaseClient: for any releases, any number of commands and any number  *)
(* of failed runs of the workflow, damaged files and failed requests, what *)
(* is installed was published, a mirror that lags does no harm, and        *)
(* nothing goes back.  First the two comparisons of versions are shown to  *)
(* agree; then an invariant of the releases and the mirror (FeedInv), then *)
(* what every command knows of them (ClientInv), one lemma per action.     *)
(*                                                                         *)
(* UpdateCheck: for any number of commands, releases and hours, any        *)
(* setting back of the clock and any loss of the cache.  The lock is held  *)
(* exactly from the reading of the cache to its writing, so what a holder  *)
(* has read is the cache still, or the cache was lost; and what it writes  *)
(* has the mark and the time of the last check in it (CheckInv).           *)
(***************************************************************************)
EXTENDS ReleaseClient, UpdateCheck, WellFoundedInduction, TLAPS

-----------------------------------------------------------------------------
(* The two comparisons of versions.                                        *)

LEMMA MinProperties ==
  ASSUME NEW S \in SUBSET Nat, S # {}
  PROVE  Min(S) \in S /\ \A y \in S : Min(S) <= y
  <1>1. PICK x \in S : \A y \in S : ~(<<y, x>> \in OpToRel(<, Nat))
    BY NatLessThanWellFounded, WFMin
  <1>2. \A y \in S : ~(y < x)
    BY <1>1, Zenon DEF OpToRel
  <1>3. \A y \in S : x <= y
    BY <1>2
  <1>. QED
    BY <1>3 DEF Min

\* The sequences s and t over T are the same up to k and differ there.
FirstAt(T, s, t, k) ==
  /\ k \in Differ(s, t) /\ k \in 1..Len(s) /\ k \in 1..Len(t)
  /\ s[k] \in T /\ t[k] \in T /\ s[k] # t[k]
  /\ \A j \in 1..(k - 1) : s[j] = t[j]
  /\ \A i \in Differ(s, t) : i \in Nat /\ k <= i

LEMMA FirstDifference ==
  ASSUME NEW T, NEW s \in Seq(T), NEW t \in Seq(T), Differ(s, t) # {}
  PROVE  FirstAt(T, s, t, Min(Differ(s, t)))
  <1>. DEFINE m == Min({Len(s), Len(t)})
              k == Min(Differ(s, t))
  <1>1. m \in Nat /\ m <= Len(s) /\ m <= Len(t)
    <2>1. {Len(s), Len(t)} \in SUBSET Nat /\ {Len(s), Len(t)} # {}
      OBVIOUS
    <2>. QED
      BY <2>1, MinProperties
  <1>2. Differ(s, t) \in SUBSET Nat
    BY <1>1 DEF Differ
  <1>3. k \in Differ(s, t) /\ \A i \in Differ(s, t) : k <= i
    BY <1>2, MinProperties
  <1>4. k \in 1..m /\ s[k] # t[k]
    BY <1>3 DEF Differ
  <1>5. \A j \in 1..(k - 1) : s[j] = t[j]
    <2>. SUFFICES ASSUME NEW j \in 1..(k - 1), s[j] # t[j] PROVE FALSE
      OBVIOUS
    <2>1. j \in 1..m
      BY <1>1, <1>4
    <2>2. j \in Differ(s, t)
      BY <2>1 DEF Differ
    <2>. QED
      BY <2>2, <1>3, <1>4, <1>1
  <1>. QED
    BY <1>1, <1>2, <1>3, <1>4, <1>5 DEF FirstAt

LEMMA NoDifference ==
  ASSUME NEW T, NEW s \in Seq(T), NEW t \in Seq(T), Len(s) = Len(t), Differ(s, t) = {}
  PROVE  s = t
  <1>1. Min({Len(s), Len(t)}) = Len(s)
    <2>1. {Len(s), Len(t)} \in SUBSET Nat /\ {Len(s), Len(t)} # {}
      OBVIOUS
    <2>. QED
      BY <2>1, MinProperties
  <1>2. \A i \in 1..Len(s) : s[i] = t[i]
    BY <1>1 DEF Differ
  <1>. QED
    BY <1>2

LEMMA DifferSymmetric ==
  ASSUME NEW s, NEW t
  PROVE  Differ(s, t) = Differ(t, s)
  <1>1. {Len(s), Len(t)} = {Len(t), Len(s)}
    OBVIOUS
  <1>. QED
    BY <1>1 DEF Differ

LEMMA CompareSame ==
  ASSUME NEW v \in WellFormed
  PROVE  CompareVersions(v, v) = 0
  BY DEF CompareVersions, Differ, Sign, WellFormed

LEMMA CompareSwapped ==
  ASSUME NEW l \in WellFormed, NEW r \in WellFormed
  PROVE  /\ CompareVersions(l, r) \in {-1, 0, 1}
         /\ CompareVersions(r, l) = -CompareVersions(l, r)
  <1>. DEFINE Ids == [numeric : BOOLEAN, rank : Nat]
  <1>1. /\ l.core \in Seq(Nat) /\ r.core \in Seq(Nat)
        /\ l.pre \in Seq(Ids) /\ r.pre \in Seq(Ids)
    BY DEF WellFormed
  <1>. HIDE DEF Ids
  <1>2. /\ Differ(r.core, l.core) = Differ(l.core, r.core)
        /\ Differ(r.pre, l.pre) = Differ(l.pre, r.pre)
    BY DifferSymmetric
  <1>3. CASE Differ(l.core, r.core) # {}
    <2>1. PICK k : k = Min(Differ(l.core, r.core))
      OBVIOUS
    <2>2. FirstAt(Nat, l.core, r.core, k)
      BY <2>1, <1>1, <1>3, FirstDifference, Zenon
    <2>3. l.core[k] \in Nat /\ r.core[k] \in Nat
      BY <2>2 DEF FirstAt
    <2>4. /\ CompareVersions(l, r) = Sign(l.core[k] - r.core[k])
          /\ CompareVersions(r, l) = Sign(r.core[k] - l.core[k])
      BY <2>1, <1>2, <1>3 DEF CompareVersions
    <2>. QED
      BY <2>3, <2>4 DEF Sign
  <1>4. CASE Differ(l.core, r.core) = {} /\ (l.pre = <<>> \/ r.pre = <<>>)
    <2>1. /\ CompareVersions(l, r) = Sign(Len(r.pre) - Len(l.pre))
          /\ CompareVersions(r, l) = Sign(Len(l.pre) - Len(r.pre))
      BY <1>2, <1>4 DEF CompareVersions
    <2>2. Len(l.pre) \in Nat /\ Len(r.pre) \in Nat
      BY <1>1
    <2>3. PICK m \in Nat, n \in Nat : m = Len(l.pre) /\ n = Len(r.pre)
      BY <2>2
    <2>4. /\ Sign(m - n) \in {-1, 0, 1} /\ Sign(n - m) = -Sign(m - n)
          /\ Sign(n - m) \in {-1, 0, 1} /\ Sign(m - n) = -Sign(n - m)
      BY DEF Sign
    <2>. QED
      BY <2>1, <2>3, <2>4
  <1>5. CASE /\ Differ(l.core, r.core) = {} /\ ~(l.pre = <<>> \/ r.pre = <<>>)
             /\ Differ(l.pre, r.pre) # {}
    <2>1. PICK k : k = Min(Differ(l.pre, r.pre))
      OBVIOUS
    <2>2. FirstAt(Ids, l.pre, r.pre, k)
      BY <2>1, <1>1, <1>5, FirstDifference, Zenon
    <2>3. l.pre[k] \in Ids /\ r.pre[k] \in Ids
      BY <2>2 DEF FirstAt
    <2>4. /\ CompareVersions(l, r) = CompareIdentifier(l.pre[k], r.pre[k])
          /\ CompareVersions(r, l) = CompareIdentifier(r.pre[k], l.pre[k])
      BY <2>1, <1>2, <1>5 DEF CompareVersions
    <2>. QED
      BY <2>3, <2>4 DEF CompareIdentifier, Sign, Ids
  <1>6. CASE /\ Differ(l.core, r.core) = {} /\ ~(l.pre = <<>> \/ r.pre = <<>>)
             /\ Differ(l.pre, r.pre) = {}
    <2>1. /\ CompareVersions(l, r) = Sign(Len(l.pre) - Len(r.pre))
          /\ CompareVersions(r, l) = Sign(Len(r.pre) - Len(l.pre))
      BY <1>2, <1>6 DEF CompareVersions
    <2>2. Len(l.pre) \in Nat /\ Len(r.pre) \in Nat
      BY <1>1
    <2>3. PICK m \in Nat, n \in Nat : m = Len(l.pre) /\ n = Len(r.pre)
      BY <2>2
    <2>4. /\ Sign(m - n) \in {-1, 0, 1} /\ Sign(n - m) = -Sign(m - n)
          /\ Sign(n - m) \in {-1, 0, 1} /\ Sign(m - n) = -Sign(n - m)
      BY DEF Sign
    <2>. QED
      BY <2>1, <2>3, <2>4
  <1>. QED
    BY <1>3, <1>4, <1>5, <1>6

\* The updater and the release tool, which have an algorithm each, order all
\* versions alike (CompareVersions, compareSemVersion).
THEOREM SameOrder ==
  ASSUME NEW l \in WellFormed, NEW r \in WellFormed
  PROVE  CompareSemVersion(l, r) <=> CompareVersions(l, r) < 0
  <1>. DEFINE Ids == [numeric : BOOLEAN, rank : Nat]
  <1>1. /\ l.core \in Seq(Nat) /\ r.core \in Seq(Nat) /\ Len(l.core) = 3 /\ Len(r.core) = 3
        /\ l.pre \in Seq(Ids) /\ r.pre \in Seq(Ids)
    BY DEF WellFormed
  <1>. HIDE DEF Ids
  <1>2. CASE Differ(l.core, r.core) # {}
    <2>1. PICK k : k = Min(Differ(l.core, r.core))
      OBVIOUS
    <2>2. FirstAt(Nat, l.core, r.core, k)
      BY <2>1, <1>1, <1>2, FirstDifference, Zenon
    <2>3. /\ k \in 1..3 /\ l.core[k] \in Nat /\ r.core[k] \in Nat /\ l.core[k] # r.core[k]
          /\ \A j \in 1..(k - 1) : l.core[j] = r.core[j]
      BY <2>2, <1>1 DEF FirstAt
    <2>4. CompareVersions(l, r) < 0 <=> l.core[k] < r.core[k]
      <3>1. CompareVersions(l, r) = Sign(l.core[k] - r.core[k])
        BY <2>1, <1>2 DEF CompareVersions
      <3>. QED
        BY <3>1, <2>3 DEF Sign
    <2>5. l.core # r.core
      BY <2>3
    <2>6. CompareSemVersion(l, r) <=>
            \E i \in 1..3 : l.core[i] < r.core[i] /\ \A j \in 1..(i - 1) : l.core[j] = r.core[j]
      BY <2>5 DEF CompareSemVersion
    <2>7. ASSUME NEW i \in 1..3, l.core[i] < r.core[i], \A j \in 1..(i - 1) : l.core[j] = r.core[j]
          PROVE  i = k
      <3>1. ~(k < i)
        BY <2>3, <2>7
      <3>2. ~(i < k)
        <4>1. l.core[i] \in Nat /\ l.core[i] # r.core[i]
          BY <2>7, <1>1
        <4>. QED
          BY <4>1, <2>3
      <3>. QED
        BY <3>1, <3>2, <2>3
    <2>. QED
      BY <2>3, <2>4, <2>6, <2>7
  <1>. SUFFICES ASSUME Differ(l.core, r.core) = {}
                PROVE  CompareSemVersion(l, r) <=> CompareVersions(l, r) < 0
    BY <1>2
  <1>3. l.core = r.core
    BY <1>1, NoDifference
  <1>4. CompareSemVersion(l, r) <=>
           /\ l.pre # <<>>
           /\ \/ r.pre = <<>>
              \/ \E i \in Differ(l.pre, r.pre) :
                   /\ \A j \in 1..(i - 1) : l.pre[j] = r.pre[j]
                   /\ IF l.pre[i].numeric = r.pre[i].numeric
                      THEN l.pre[i].rank < r.pre[i].rank ELSE l.pre[i].numeric
              \/ Differ(l.pre, r.pre) = {} /\ Len(l.pre) < Len(r.pre)
    <2>1. ~\E i \in 1..3 : l.core[i] < r.core[i] /\ \A j \in 1..(i - 1) : l.core[j] = r.core[j]
      BY <1>1, <1>3
    <2>. QED
      BY <1>3, <2>1, Zenon DEF CompareSemVersion
  <1>5. CASE l.pre = <<>> \/ r.pre = <<>>
    <2>1. CompareVersions(l, r) = Sign(Len(r.pre) - Len(l.pre))
      BY <1>5 DEF CompareVersions
    <2>2. CASE l.pre = <<>>
      <3>1. CompareVersions(l, r) >= 0
        BY <2>1, <2>2, <1>1 DEF Sign
      <3>. QED
        BY <3>1, <2>1, <2>2, <1>1, <1>4 DEF Sign
    <2>3. CASE l.pre # <<>>
      <3>1. r.pre = <<>> /\ Len(l.pre) > 0 /\ Len(r.pre) = 0
        BY <1>1, <1>5, <2>3
      <3>2. CompareVersions(l, r) = -1
        BY <2>1, <3>1, <1>1 DEF Sign
      <3>. QED
        BY <3>1, <3>2, <2>3, <1>4
    <2>. QED
      BY <2>2, <2>3
  <1>6. CASE ~(l.pre = <<>> \/ r.pre = <<>>) /\ Differ(l.pre, r.pre) # {}
    <2>1. PICK k : k = Min(Differ(l.pre, r.pre))
      OBVIOUS
    <2>. DEFINE Less(i) == IF l.pre[i].numeric = r.pre[i].numeric
                           THEN l.pre[i].rank < r.pre[i].rank ELSE l.pre[i].numeric
    <2>2. FirstAt(Ids, l.pre, r.pre, k)
      BY <2>1, <1>1, <1>6, FirstDifference, Zenon
    <2>3. CompareVersions(l, r) < 0 <=> Less(k)
      <3>1. CompareVersions(l, r) = CompareIdentifier(l.pre[k], r.pre[k])
        BY <2>1, <1>6 DEF CompareVersions
      <3>. QED
        BY <3>1, <2>2 DEF CompareIdentifier, Sign, Ids, FirstAt
    <2>4. CompareSemVersion(l, r) <=>
            \E i \in Differ(l.pre, r.pre) :
              (\A j \in 1..(i - 1) : l.pre[j] = r.pre[j]) /\ Less(i)
      BY <1>4, <1>6
    <2>5. ASSUME NEW i \in Differ(l.pre, r.pre), \A j \in 1..(i - 1) : l.pre[j] = r.pre[j]
          PROVE  i = k
      <3>1. i \in Nat /\ k <= i
        BY <2>2 DEF FirstAt
      <3>. QED
        BY <3>1, <2>2, <2>5 DEF FirstAt
    <2>. QED
      BY <2>2, <2>3, <2>4, <2>5 DEF FirstAt
  <1>7. CASE ~(l.pre = <<>> \/ r.pre = <<>>) /\ Differ(l.pre, r.pre) = {}
    <2>1. CompareVersions(l, r) = Sign(Len(l.pre) - Len(r.pre))
      BY <1>7 DEF CompareVersions
    <2>2. Len(l.pre) \in Nat /\ Len(r.pre) \in Nat
      BY <1>1
    <2>3. CompareSemVersion(l, r) <=> Len(l.pre) < Len(r.pre)
      BY <1>4, <1>7
    <2>4. PICK m \in Nat, n \in Nat : m = Len(l.pre) /\ n = Len(r.pre)
      BY <2>2
    <2>5. Sign(m - n) < 0 <=> m < n
      BY DEF Sign
    <2>. QED
      BY <2>1, <2>3, <2>4, <2>5
  <1>. QED
    BY <1>5, <1>6, <1>7

-----------------------------------------------------------------------------
(* What the release workflow and the mirror keep.                          *)

Releasing == {"tag", "draft", "manifest", "publish"}
Announcing == {"notify", "wait"}
Jobs == [at : Releasing \cup Announcing, version : Versions, recovery : BOOLEAN]

FeedTypes ==
  /\ ReleasesWellFormed
  /\ tags \subseteq Versions /\ asked \subseteq Versions
  /\ {head, latest, tapCask, pointer} \subseteq Versions
  /\ github \in [Versions -> {"absent", "draft", "complete", "published"}]
  /\ mirror \in [Versions -> {"none", "partial", "complete", "damaged"}]
  /\ job \in Jobs \cup {Idle} /\ damage \in Nat

\* Whatever is at GitHub is tagged, and what came after Base is newer than it
\* and signed.
Tagged ==
  /\ Base \in tags /\ Published(Base)
  /\ \A v \in Versions : github[v] # "absent" => v \in tags
  /\ \A t \in tags : t = Base \/ (CompareVersions(t, Base) > 0 /\ requiresSignedUpdate(t))

\* The mirror is asked for published releases, and has files of no others.
Mirrored ==
  /\ \A v \in asked \cup {pointer, latest} : Published(v)
  /\ \A v \in Versions : mirror[v] # "none" => v \in asked
  /\ \A v \in Versions : mirror[v] = "damaged" => damage > 0

\* What the run of the workflow has checked still holds.
Checked ==
  /\ job.at \in Releasing =>
       /\ ~Published(job.version)
       /\ Stable(job.version) => CompareVersions(job.version, tapCask) > 0
  /\ job.at = "tag" /\ job.version \notin tags =>
       /\ \A t \in tags : CompareVersions(job.version, t) > 0
       /\ requiresSignedUpdate(job.version)
  /\ job # Idle /\ job.at # "tag" => job.version \in tags
  /\ job.at \in Announcing => Published(job.version) /\ (Stable(job.version) => latest = job.version)

TapBehind == CompareVersions(latest, tapCask) >= 0

FeedInv == FeedTypes /\ Tagged /\ Mirrored /\ Checked /\ TapBehind

-----------------------------------------------------------------------------
(* What an update command knows.                                           *)

Seeking == {"oss", "github", "api"}
Direct == {"download", "fallback", "replace"}
Having == {"resolved", "probe", "decide", "cask", "brew"} \cup Direct

Updates == [at : {"pointer", "redirect", "done"} \cup Seeking \cup Having,
            want : SUBSET Versions, got : Versions, by : {"name", "pointer", "redirect"},
            current : Versions, force : BOOLEAN, archive : {None, "good"}, outcome : Outcomes]

\* A release it has found is published, one it looks for unless it was named.
Backed(r) ==
  /\ r.at \in Seeking => Published(r.got) \/ (r.by = "name" /\ r.want = {r.got})
  /\ r.at \in Having => Published(r.got)
  /\ r.at = "api" => ~requiresSignedUpdate(r.got)

\* It installs in the way of its installer what is newer or forced.
Allowed(r) ==
  /\ r.at \in {"cask", "brew"} => installer = "homebrew"
  /\ r.at \in Direct => CompareVersions(r.got, r.current) > 0 \/ r.force
  /\ r.at = "replace" => r.archive = "good"

\* If it ended as unavailable, when f requests went wrong, that was not the lag
\* of the mirror.
Excused(r, f) ==
  r.at = "done" /\ r.outcome = "Unavailable" /\ f = 0 /\ installer = "direct" =>
    ~requiresSignedUpdate(r.got)

Knows(r, f) ==
  r \in {Resting, Killed} \/ (r \in Updates /\ Backed(r) /\ Allowed(r) /\ Excused(r, f))

ClientInv ==
  /\ installer \in {"direct", "homebrew"} /\ faults \in Nat /\ refused \in BOOLEAN
  /\ staged \subseteq Commands /\ \A p \in staged : run[p].at \in {"brew", "killed"}
  /\ installed \in [version : Versions, genuine : {TRUE}] /\ Published(installed.version)
  /\ run \in [Commands -> Updates \cup {Resting, Killed}]
  /\ \A p \in Commands : Knows(run[p], faults)

UpdateInv == FeedInv /\ ClientInv

-----------------------------------------------------------------------------
LEMMA Newer ==
  ASSUME ReleasesWellFormed, NEW l \in Versions, NEW r \in Versions
  PROVE  /\ CompareVersions(l, r) \in {-1, 0, 1} /\ CompareVersions(l, l) = 0
         /\ CompareSemVersion(l, r) => CompareVersions(r, l) > 0
         /\ CompareVersions(l, r) > 0 => CompareVersions(r, l) < 0
  <1>1. l \in WellFormed /\ r \in WellFormed
    BY DEF ReleasesWellFormed
  <1>2. /\ CompareVersions(l, r) \in {-1, 0, 1}
        /\ CompareVersions(r, l) = -CompareVersions(l, r)
    BY <1>1, CompareSwapped
  <1>3. CompareVersions(l, l) = 0
    BY <1>1, CompareSame
  <1>4. CompareSemVersion(l, r) <=> CompareVersions(l, r) < 0
    BY <1>1, SameOrder
  <1>. QED
    BY <1>2, <1>3, <1>4

LEMMA SignedAlike ==
  ASSUME ReleasesWellFormed, NEW v \in Versions, signedUpdateV2Required(v)
  PROVE  requiresSignedUpdate(v)
  <1>1. v \in WellFormed
    BY DEF ReleasesWellFormed
  <1>2. firstSignedUpdate \in WellFormed
    BY DEF firstSignedUpdate, Version, Number, WellFormed
  <1>3. CompareVersions(v, firstSignedUpdate) \in {-1, 0, 1}
    BY <1>1, <1>2, CompareSwapped
  <1>4. CompareSemVersion(v, firstSignedUpdate) <=> CompareVersions(v, firstSignedUpdate) < 0
    BY <1>1, <1>2, SameOrder
  <1>. QED
    BY <1>3, <1>4 DEF signedUpdateV2Required, requiresSignedUpdate

\* What is published stays so, and damage is not undone.
FeedKeeps ==
  /\ \A v \in Versions : Published(v) => Published(v)'
  /\ damage' >= damage

LEMMA FeedStarts ==
  ASSUME ReleasesWellFormed, FeedInit
  PROVE  FeedInv
  <1>1. Base \in Versions
    BY DEF Versions
  <1>2. FeedTypes
    BY <1>1 DEF FeedTypes, FeedInit
  <1>3. Tagged /\ Mirrored /\ Checked
    BY <1>1 DEF FeedInit, Tagged, Mirrored, Checked, Published, Idle, Releasing, Announcing
  <1>4. TapBehind
    BY <1>1, Newer DEF TapBehind, FeedInit
  <1>. QED
    BY <1>2, <1>3, <1>4 DEF FeedInv

LEMMA NewJob ==
  ASSUME NEW s \in Releasing \cup Announcing, NEW v \in Versions, NEW b \in BOOLEAN
  PROVE  [at |-> s, version |-> v, recovery |-> b] \in Jobs
  BY DEF Jobs

LEMMA StartReleaseKeeps ==
  ASSUME FeedInv, NEW v \in Versions, StartRelease(v)
  PROVE  FeedInv' /\ FeedKeeps
  <1>. USE DEF FeedInv, FeedTypes
  <1>1. UNCHANGED <<tags, github, latest, tapCask, mirrorVars>> /\ head' = v
    BY DEF StartRelease
  <1>2. \/ job' = Idle
        \/ /\ job' = [at |-> "tag", version |-> v, recovery |-> FALSE]
           /\ ~Published(v)
           /\ Stable(v) => CompareVersions(v, tapCask) > 0
           /\ requiresSignedUpdate(v)
           /\ \A t \in tags \ {v} : CompareVersions(v, t) > 0
    <2>1. CASE job' = [at |-> "tag", version |-> v, recovery |-> FALSE] /\ job' # Idle
      <3>1. /\ signedUpdateV2Required(v) /\ checkReleaseVersion(v, tags)
            /\ ~Published(v) /\ checkHomebrewCaskVersion(v)
        BY <2>1 DEF StartRelease
      <3>2. Stable(v) => CompareVersions(v, tapCask) > 0
        BY <3>1, Newer DEF checkHomebrewCaskVersion
      <3>3. \A t \in tags \ {v} : CompareVersions(v, t) > 0
        BY <3>1, Newer DEF checkReleaseVersion
      <3>. QED
        BY <2>1, <3>1, <3>2, <3>3, SignedAlike
    <2>. QED
      BY <2>1 DEF StartRelease
  <1>3. [at |-> "tag", version |-> v, recovery |-> FALSE] \in Jobs
    BY NewJob DEF Releasing
  <1>4. job' \in Jobs \cup {Idle}
    BY <1>2, <1>3
  <1>5. FeedTypes'
    BY <1>1, <1>4 DEF mirrorVars
  <1>6. Tagged' /\ Mirrored' /\ TapBehind' /\ FeedKeeps
    BY <1>1 DEF Tagged, Mirrored, TapBehind, FeedKeeps, Published, mirrorVars
  <1>7. Checked'
    BY <1>1, <1>2 DEF Checked, Releasing, Announcing, Idle, Published
  <1>. QED
    BY <1>5, <1>6, <1>7

LEMMA ResumeReleaseKeeps ==
  ASSUME FeedInv, NEW v \in Versions, ResumeRelease(v)
  PROVE  FeedInv' /\ FeedKeeps
  <1>. USE DEF FeedInv, FeedTypes
  <1>1. UNCHANGED <<head, tags, github, latest, tapCask, mirrorVars>> /\ v \in tags
    BY DEF ResumeRelease
  <1>2. \/ /\ ~Published(v) /\ (Stable(v) => CompareVersions(v, tapCask) > 0)
           /\ job' = [at |-> "tag", version |-> v, recovery |-> TRUE]
        \/ /\ Published(v) /\ (Stable(v) => latest = v)
           /\ job' = [at |-> "notify", version |-> v, recovery |-> TRUE]
    BY Newer DEF ResumeRelease, checkHomebrewCaskVersion
  <1>3. /\ [at |-> "tag", version |-> v, recovery |-> TRUE] \in Jobs
        /\ [at |-> "notify", version |-> v, recovery |-> TRUE] \in Jobs
    BY NewJob DEF Releasing, Announcing
  <1>4. job' \in Jobs
    BY <1>2, <1>3
  <1>5. FeedTypes'
    BY <1>1, <1>4 DEF mirrorVars
  <1>6. Tagged' /\ Mirrored' /\ TapBehind' /\ FeedKeeps
    BY <1>1 DEF Tagged, Mirrored, TapBehind, FeedKeeps, Published, mirrorVars
  <1>7. Checked'
    BY <1>1, <1>2 DEF Checked, Releasing, Announcing, Idle, Published
  <1>. QED
    BY <1>5, <1>6, <1>7

LEMMA TagReleaseKeeps ==
  ASSUME FeedInv, TagRelease
  PROVE  FeedInv' /\ FeedKeeps
  <1>. USE DEF FeedInv, FeedTypes
  <1>1. /\ UNCHANGED <<head, github, latest, tapCask, mirrorVars>>
        /\ job.at = "tag" /\ tags' = tags \cup {job.version} /\ job' = [job EXCEPT !.at = "draft"]
    BY DEF TagRelease, At, Proceed
  <1>2. job \in Jobs
    BY <1>1 DEF Idle
  <1>3. FeedTypes'
    BY <1>1, <1>2 DEF Jobs, Releasing, mirrorVars
  <1>4. Tagged'
    BY <1>1, <1>2 DEF Tagged, Checked, Published, Jobs
  <1>5. Mirrored' /\ TapBehind' /\ FeedKeeps
    BY <1>1 DEF Mirrored, TapBehind, FeedKeeps, Published, mirrorVars
  <1>6. Checked'
    BY <1>1, <1>2 DEF Checked, Releasing, Announcing, Idle, Published, Jobs
  <1>. QED
    BY <1>3, <1>4, <1>5, <1>6

\* A draft is built, or completed.
LEMMA DraftKeeps ==
  ASSUME FeedInv, BuildDraft \/ AttachManifest
  PROVE  FeedInv' /\ FeedKeeps
  <1>. USE DEF FeedInv, FeedTypes
  <1>1. /\ UNCHANGED <<head, tags, latest, tapCask, mirrorVars>>
        /\ job.at \in {"draft", "manifest"}
    BY DEF BuildDraft, AttachManifest, At
  <1>2. PICK draft \in {"draft", "complete"}, step \in {"manifest", "publish"} :
          github' = [github EXCEPT ![job.version] = draft] /\ job' = [job EXCEPT !.at = step]
    BY DEF BuildDraft, AttachManifest, Proceed
  <1>3. job \in Jobs /\ job.version \in Versions /\ job.version \in tags /\ ~Published(job.version)
    BY <1>1 DEF Idle, Jobs, Checked, Releasing
  <1>4. \A v \in Versions : Published(v)' <=> Published(v)
    BY <1>2, <1>3 DEF Published
  <1>5. FeedTypes'
    BY <1>1, <1>2, <1>3 DEF Jobs, Releasing, mirrorVars
  <1>6. Tagged'
    BY <1>1, <1>2, <1>3, <1>4 DEF Tagged, Versions
  <1>7. Mirrored' /\ TapBehind' /\ FeedKeeps
    BY <1>1, <1>4 DEF Mirrored, TapBehind, FeedKeeps, mirrorVars
  <1>8. Checked'
    BY <1>1, <1>2, <1>3, <1>4 DEF Checked, Releasing, Announcing, Idle, Jobs
  <1>. QED
    BY <1>4, <1>5, <1>6, <1>7, <1>8

LEMMA PublishDraftKeeps ==
  ASSUME FeedInv, PublishDraft
  PROVE  FeedInv' /\ FeedKeeps
  <1>. USE DEF FeedInv, FeedTypes
  <1>1. /\ UNCHANGED <<head, tags, tapCask, mirrorVars>> /\ job.at = "publish"
        /\ github' = [github EXCEPT ![job.version] = "published"]
        /\ latest' = IF Stable(job.version) THEN job.version ELSE latest
        /\ job' = [job EXCEPT !.at = "notify"]
    BY DEF PublishDraft, At, Proceed
  <1>2. job \in Jobs /\ job.version \in Versions /\ job.version \in tags
    BY <1>1 DEF Idle, Jobs, Checked
  <1>3. Stable(job.version) => CompareVersions(job.version, tapCask) > 0
    BY <1>1 DEF Checked, Releasing
  <1>4. \A v \in Versions : Published(v)' <=> Published(v) \/ v = job.version
    BY <1>1, <1>2 DEF Published
  <1>5. FeedTypes'
    BY <1>1, <1>2 DEF Jobs, Announcing, mirrorVars
  <1>6. Tagged'
    BY <1>1, <1>2, <1>4 DEF Tagged, Versions
  <1>7. Mirrored' /\ FeedKeeps
    BY <1>1, <1>2, <1>4 DEF Mirrored, FeedKeeps, mirrorVars
  <1>8. TapBehind'
    <2>1. CompareVersions(job.version, tapCask) \in {-1, 0, 1}
      BY <1>2, Newer
    <2>. QED
      BY <1>1, <1>3, <2>1 DEF TapBehind
  <1>9. Checked'
    BY <1>1, <1>2, <1>4 DEF Checked, Releasing, Announcing, Idle, Jobs, Stable
  <1>. QED
    BY <1>5, <1>6, <1>7, <1>8, <1>9

LEMMA NotifyKeeps ==
  ASSUME FeedInv, Notify
  PROVE  FeedInv' /\ FeedKeeps
  <1>. USE DEF FeedInv, FeedTypes
  <1>1. /\ UNCHANGED <<head, tags, github, latest, tapCask, mirror, pointer, damage>>
        /\ job.at = "notify" /\ asked' = asked \cup {job.version} /\ job' = [job EXCEPT !.at = "wait"]
    BY DEF Notify, At, Proceed
  <1>2. job \in Jobs /\ job.version \in Versions /\ Published(job.version)
    BY <1>1 DEF Idle, Jobs, Checked, Announcing
  <1>3. FeedTypes'
    BY <1>1, <1>2 DEF Jobs, Announcing
  <1>4. Tagged' /\ TapBehind' /\ FeedKeeps
    BY <1>1 DEF Tagged, TapBehind, FeedKeeps, Published
  <1>5. Mirrored'
    BY <1>1, <1>2 DEF Mirrored, Published
  <1>6. Checked'
    BY <1>1, <1>2 DEF Checked, Releasing, Announcing, Idle, Published, Jobs
  <1>. QED
    BY <1>3, <1>4, <1>5, <1>6

LEMMA UpdateTapKeeps ==
  ASSUME FeedInv, UpdateTap
  PROVE  FeedInv' /\ FeedKeeps
  <1>. USE DEF FeedInv, FeedTypes
  <1>1. /\ UNCHANGED <<head, tags, github, latest, mirrorVars>> /\ job.at = "wait" /\ job' = Idle
        /\ tapCask' = IF Stable(job.version) THEN job.version ELSE tapCask
    BY DEF UpdateTap, At
  <1>2. job \in Jobs /\ job.version \in Versions /\ (Stable(job.version) => latest = job.version)
    BY <1>1 DEF Idle, Jobs, Checked, Announcing
  <1>3. FeedTypes'
    BY <1>1, <1>2 DEF mirrorVars
  <1>4. Tagged' /\ Mirrored' /\ FeedKeeps
    BY <1>1 DEF Tagged, Mirrored, FeedKeeps, Published, mirrorVars
  <1>5. TapBehind'
    BY <1>1, <1>2, Newer DEF TapBehind
  <1>6. Checked'
    BY <1>1 DEF Checked, Releasing, Announcing, Idle
  <1>. QED
    BY <1>3, <1>4, <1>5, <1>6

\* Nothing is done at GitHub: version.txt is taken back, the workflow fails,
\* or the mirror does something.
LEMMA ElsewhereKeeps ==
  ASSUME FeedInv, NEW v \in Versions,
         \/ RevertVersion(v) \/ JobFails
         \/ MirrorCopies(v) \/ MirrorPoints(v) \/ MirrorGarbles(v) \/ MirrorStepsBack(v)
  PROVE  FeedInv' /\ FeedKeeps
  <1>. USE DEF FeedInv, FeedTypes
  <1>1. UNCHANGED <<tags, github, latest, tapCask, asked>> /\ job' \in {job, Idle}
    BY DEF RevertVersion, JobFails, MirrorCopies, MirrorPoints, MirrorGarbles, MirrorStepsBack,
           mirrorVars, repoVars
  <1>2. /\ head' \in {head, v} /\ pointer' \in {pointer} \cup asked
        /\ damage' \in {damage, damage + 1}
        /\ mirror' = mirror \/
             /\ v \in asked \/ mirror[v] # "none"
             /\ \E m \in {"partial", "complete", "damaged"} :
                  mirror' = [mirror EXCEPT ![v] = m] /\ (m = "damaged" => damage' = damage + 1)
    BY DEF RevertVersion, JobFails, MirrorCopies, MirrorPoints, MirrorGarbles, MirrorStepsBack,
           mirrorVars, repoVars
  <1>3. FeedTypes'
    BY <1>1, <1>2
  <1>4. Tagged' /\ TapBehind' /\ FeedKeeps
    BY <1>1, <1>2 DEF Tagged, TapBehind, FeedKeeps, Published
  <1>5. Mirrored'
    BY <1>1, <1>2 DEF Mirrored, Published
  <1>6. Checked'
    BY <1>1 DEF Checked, Releasing, Announcing, Idle, Published
  <1>. QED
    BY <1>3, <1>4, <1>5, <1>6

LEMMA FeedKept ==
  ASSUME FeedInv, FeedNext
  PROVE  FeedInv' /\ FeedKeeps
  <1>. Base \in Versions
    BY DEF Versions
  <1>. QED
    BY StartReleaseKeeps, ResumeReleaseKeeps, TagReleaseKeeps, DraftKeeps, PublishDraftKeeps,
       NotifyKeeps, UpdateTapKeeps, ElsewhereKeeps DEF FeedNext

-----------------------------------------------------------------------------
(* What one step makes of a command.                                       *)

LEMMA BaseIsVersion == Base \in Versions
  BY DEF Versions

LEMMA FeedMoves ==
  ASSUME FeedInv, ClientInv, FeedNext, UNCHANGED clientVars
  PROVE  ClientInv'
  <1>1. FeedKeeps /\ damage \in Nat /\ damage' \in Nat
    BY FeedKept DEF FeedInv, FeedTypes
  <1>2. UNCHANGED <<installer, installed, staged, run, faults, refused>>
    BY DEF clientVars
  <1>3. ASSUME NEW p \in Commands
        PROVE  Knows(run[p], faults)'
    <2>1. Knows(run[p], faults) /\ run'[p] = run[p]
      BY <1>2 DEF ClientInv
    <2>2. run[p] \in Updates => run[p].got \in Versions
      BY DEF Updates
    <2>. QED
      BY <1>1, <1>2, <2>1, <2>2 DEF Knows, Backed, Allowed, Excused, FeedKeeps
  <1>. QED
    BY <1>1, <1>2, <1>3 DEF ClientInv, FeedKeeps

\* Command p becomes r, and nothing that the others know is less true.
LEMMA CommandMoves ==
  ASSUME FeedInv, ClientInv, NEW p \in Commands, NEW r,
         r = Killed \/ (r \in Updates /\ Backed(r) /\ Allowed(r) /\ Excused(r, faults')),
         run' = [run EXCEPT ![p] = r], UNCHANGED <<feedVars, installer>>,
         faults' \in Nat, faults' >= faults, refused' \in BOOLEAN, refused => refused',
         staged' \subseteq staged \cup {p}, p \in staged' => r.at \in {"brew", "killed"},
         installed' \in [version : Versions, genuine : {TRUE}], Published(installed'.version)
  PROVE  ClientInv'
  <1>1. UNCHANGED <<github, damage>>
    BY DEF feedVars, repoVars, mirrorVars
  <1>2. run \in [Commands -> Updates \cup {Resting, Killed}]
    BY DEF ClientInv
  <1>3. ASSUME NEW q \in Commands
        PROVE  Knows(run[q], faults)'
    <2>1. CASE q = p
      <3>1. run'[q] = r
        BY <1>2, <2>1
      <3>. QED
        BY <1>1, <3>1 DEF Knows, Backed, Allowed, Excused, Published
    <2>2. CASE q # p
      <3>1. run'[q] = run[q] /\ Knows(run[q], faults) /\ faults \in Nat
        BY <1>2, <2>2 DEF ClientInv
      <3>. QED
        BY <1>1, <3>1 DEF Knows, Backed, Allowed, Excused, Published
    <2>. QED
      BY <2>1, <2>2
  <1>4. run' \in [Commands -> Updates \cup {Resting, Killed}]
    BY <1>2
  <1>5. \A q \in staged' : run'[q].at \in {"brew", "killed"}
    BY <1>2 DEF ClientInv
  <1>. QED
    BY <1>1, <1>3, <1>4, <1>5 DEF ClientInv, Published

\* A command that goes on with what it has.
LEMMA Proceeds ==
  ASSUME FeedInv, ClientInv, NEW p \in Commands, NEW r \in Updates,
         r.at # "done", Backed(r), Allowed(r),
         run' = [run EXCEPT ![p] = r], UNCHANGED <<feedVars, installer, installed, staged>>,
         run[p].at \notin {"brew", "killed"},
         faults' \in Nat, faults' >= faults, refused' \in BOOLEAN, refused => refused'
  PROVE  ClientInv'
  <1>1. Excused(r, faults')
    BY DEF Excused
  <1>2. p \notin staged /\ staged' = staged
    BY DEF ClientInv
  <1>3. installed' \in [version : Versions, genuine : {TRUE}] /\ Published(installed'.version)
    BY DEF ClientInv
  <1>. QED
    BY <1>1, <1>2, <1>3, CommandMoves

LEMMA Settles ==
  ASSUME FeedInv, ClientInv, NEW p \in Commands, run[p] \in Updates, NEW outcome \in Outcomes,
         outcome = "Unavailable" /\ faults' = 0 /\ installer = "direct" =>
           ~requiresSignedUpdate(run[p].got),
         Settle(p, outcome), UNCHANGED <<feedVars, installer>>, staged' = staged \ {p},
         faults' \in Nat, faults' >= faults, refused' \in BOOLEAN, refused => refused',
         installed' \in [version : Versions, genuine : {TRUE}], Published(installed'.version)
  PROVE  ClientInv'
  <1>. DEFINE r == [run[p] EXCEPT !.at = "done", !.outcome = outcome, !.by = "name", !.current = Base,
                                  !.force = FALSE, !.archive = None]
  <1>1. run' = [run EXCEPT ![p] = r]
    BY DEF Settle
  <1>2. /\ r \in Updates /\ r.at = "done" /\ r.outcome = outcome
        /\ r.want = run[p].want /\ r.got = run[p].got
    BY BaseIsVersion DEF Updates
  <1>. HIDE DEF r
  <1>3. Backed(r) /\ Allowed(r)
    BY <1>2 DEF Backed, Allowed, Seeking, Having, Direct
  <1>4. Excused(r, faults')
    BY <1>2 DEF Excused
  <1>. QED
    BY <1>1, <1>2, <1>3, <1>4, CommandMoves

LEMMA Counted ==
  ASSUME ClientInv, NEW reply, CountFault(reply)
  PROVE  /\ faults' \in Nat /\ faults' >= faults /\ refused' \in BOOLEAN /\ (refused => refused')
         /\ reply = "down" => faults' # 0
         /\ reply = "refused" => refused'
  <1>1. faults \in Nat /\ refused \in BOOLEAN
    BY DEF ClientInv
  <1>2. faults' = IF reply \in {"down", "refused", "expired"} THEN faults + 1 ELSE faults
    BY DEF CountFault
  <1>3. refused' = (refused \/ reply = "refused")
    BY DEF CountFault
  <1>4. refused' \in BOOLEAN /\ (refused => refused') /\ (reply = "refused" => refused')
    BY <1>1, <1>3, Zenon
  <1>5. faults' \in Nat /\ faults' >= faults /\ (reply = "down" => faults' # 0)
    BY <1>1, <1>2
  <1>. QED
    BY <1>4, <1>5

LEMMA Replies ==
  ASSUME FeedInv, NEW v \in Versions, NEW reply
  PROVE  /\ reply \in Faulty => reply \in {"down", "refused", "expired"}
         /\ reply \in OSS(v) \cup SignedOSS(v) =>
              /\ reply \in {"good", "bad", "missing", "down", "refused", "expired"}
              /\ reply = "good" => Published(v)
              /\ reply = "bad" => damage > 0
         /\ reply \in GitHub(v) \cup SignedGitHub(v) =>
              /\ reply \in {"good", "missing", "down", "refused", "expired"}
              /\ reply = "good" => Published(v)
         /\ reply \in GitHub(v) /\ reply = "missing" => ~Published(v)
         /\ reply \in SignedGitHub(v) /\ reply = "missing" /\ requiresSignedUpdate(v) => ~Published(v)
  <1>1. Faulty \subseteq {"down", "refused", "expired"}
    BY DEF Faulty
  <1>2. /\ MirrorHas(v) \subseteq {"good", "bad", "missing"}
        /\ "good" \in MirrorHas(v) => Published(v)
        /\ "bad" \in MirrorHas(v) => damage > 0
    BY DEF MirrorHas, FeedInv, FeedTypes, Mirrored
  <1>. QED
    BY <1>1, <1>2 DEF OSS, SignedOSS, GitHub, SignedGitHub

\* A request that nothing replaces.
LEMMA Fails ==
  ASSUME FeedInv, ClientInv, NEW p \in Commands, run[p] \in Updates,
         run[p].at \notin {"brew", "killed"}, NEW reply,
         reply \in {"bad", "missing", "down", "refused", "expired"}, CountFault(reply), Fail(p, reply),
         reply = "bad" => damage > 0,
         reply = "missing" /\ installer = "direct" => ~requiresSignedUpdate(run[p].got),
         UNCHANGED <<feedVars, installer, installed, staged>>
  PROVE  ClientInv'
  <1>1. Settle(p, FailureOf(reply)) /\ FailureOf(reply) \in Outcomes
    BY DEF Fail, FailureOf, Unavailable, Outcomes
  <1>2. FailureOf(reply) = "Unavailable" => reply \in {"missing", "down"}
    BY DEF FailureOf, Unavailable
  <1>3. staged' = staged \ {p}
    BY DEF ClientInv
  <1>4. installed' \in [version : Versions, genuine : {TRUE}] /\ Published(installed'.version)
    BY DEF ClientInv
  <1>5. /\ faults' \in Nat /\ faults' >= faults /\ refused' \in BOOLEAN /\ (refused => refused')
        /\ reply = "down" => faults' # 0
    BY Counted
  <1>6. FailureOf(reply) = "Unavailable" /\ faults' = 0 /\ installer = "direct" =>
          ~requiresSignedUpdate(run[p].got)
    BY <1>2, <1>5
  <1>. QED
    BY <1>1, <1>3, <1>4, <1>5, <1>6, Settles

-----------------------------------------------------------------------------
(* The steps of a command.                                                 *)

LEMMA Own ==
  ASSUME FeedInv, ClientInv, NEW p \in Commands, run[p].at \notin {"idle", "killed"}
  PROVE  /\ run \in [Commands -> Updates \cup {Resting, Killed}]
         /\ run[p] \in Updates /\ Backed(run[p]) /\ Allowed(run[p]) /\ run[p].got \in Versions
  BY DEF ClientInv, Knows, Resting, Killed, Updates

LEMMA Moved ==
  ASSUME NEW r \in Updates,
         NEW s \in {"pointer", "redirect", "done"} \cup Seeking \cup Having
  PROVE  /\ [r EXCEPT !.at = s] \in Updates
         /\ [r EXCEPT !.at = s].at = s /\ [r EXCEPT !.at = s].got = r.got
         /\ [r EXCEPT !.at = s].by = r.by /\ [r EXCEPT !.at = s].want = r.want
         /\ [r EXCEPT !.at = s].current = r.current /\ [r EXCEPT !.at = s].force = r.force
         /\ [r EXCEPT !.at = s].archive = r.archive
  BY DEF Updates

LEMMA StartKeeps ==
  ASSUME FeedInv, ClientInv, NEW p \in Commands, NEW want \in {{}} \cup {{v} : v \in Versions},
         Start(p, want)
  PROVE  ClientInv'
  <1>. DEFINE got == IF want = {} THEN installed.version ELSE CHOOSE v \in want : TRUE
              r == [at |-> IF want = {} \/ installer = "homebrew" THEN "pointer" ELSE "oss",
                    want |-> want, got |-> got, by |-> "name", current |-> installed.version,
                    force |-> FALSE, archive |-> None, outcome |-> None]
  <1>1. /\ run' = [run EXCEPT ![p] = r] /\ run[p].at \in {"idle", "done"}
        /\ UNCHANGED <<installer, installed, staged, faults, refused, feedVars>>
    BY DEF Start
  <1>2. want \subseteq Versions /\ (want # {} => want = {got}) /\ got \in Versions
    BY DEF ClientInv
  <1>3. r \in Updates
    BY <1>2 DEF Updates, Seeking, ClientInv, Outcomes
  <1>4. Backed(r) /\ Allowed(r)
    BY <1>2 DEF Backed, Allowed, Seeking, Having, Direct
  <1>5. /\ faults' \in Nat /\ faults' >= faults
        /\ refused' \in BOOLEAN /\ (refused => refused')
    <2>1. faults \in Nat /\ refused \in BOOLEAN
      BY DEF ClientInv
    <2>2. refused' \in BOOLEAN /\ (refused => refused')
      BY <1>1, <2>1, Zenon
    <2>. QED
      BY <1>1, <2>1, <2>2
  <1>. HIDE DEF r
  <1>6. r.at # "done"
    BY DEF r
  <1>. QED
    BY <1>1, <1>3, <1>4, <1>5, <1>6, Proceeds

\* A command goes on to step s with what it has.
LEMMA MovesOn ==
  ASSUME FeedInv, ClientInv, NEW p \in Commands, run[p].at \notin {"idle", "brew", "killed"},
         NEW s \in {"pointer", "redirect"} \cup Seeking \cup Having, MoveTo(p, s),
         s \in Seeking => Published(run[p].got) \/ (run[p].by = "name" /\ run[p].want = {run[p].got}),
         s \in Having => Published(run[p].got),
         s = "api" => ~requiresSignedUpdate(run[p].got),
         s \in {"cask", "brew"} => installer = "homebrew",
         s \in Direct => CompareVersions(run[p].got, run[p].current) > 0 \/ run[p].force,
         s # "replace", UNCHANGED <<feedVars, installer, installed, staged>>,
         faults' \in Nat, faults' >= faults, refused' \in BOOLEAN, refused => refused'
  PROVE  ClientInv'
  <1>1. /\ run \in [Commands -> Updates \cup {Resting, Killed}]
        /\ run[p] \in Updates
    BY Own
  <1>. DEFINE r == [run[p] EXCEPT !.at = s]
  <1>2. run' = [run EXCEPT ![p] = r]
    BY <1>1 DEF MoveTo
  <1>3. /\ r \in Updates /\ r.at = s /\ r.got = run[p].got /\ r.want = run[p].want
        /\ r.by = run[p].by /\ r.current = run[p].current /\ r.force = run[p].force
    BY <1>1, Moved
  <1>. HIDE DEF r
  <1>4. Backed(r) /\ Allowed(r)
    BY <1>3 DEF Backed, Allowed
  <1>5. s # "done"
    BY DEF Seeking, Having, Direct
  <1>. QED
    BY <1>2, <1>3, <1>4, <1>5, Proceeds

LEMMA LatestVersionKeeps ==
  ASSUME FeedInv, ClientInv, NEW p \in Commands, LatestVersion(p)
  PROVE  ClientInv'
  <1>1. /\ run[p].at = "pointer" /\ UNCHANGED <<installer, installed, staged, feedVars>>
    BY DEF LatestVersion, KeepMachine
  <1>2. /\ run \in [Commands -> Updates \cup {Resting, Killed}]
        /\ run[p] \in Updates
    BY <1>1, Own
  <1>3. PICK reply \in {"good"} \cup Faulty :
          /\ CountFault(reply)
          /\ IF reply = "good"
             THEN run' = [run EXCEPT ![p].at = "oss", ![p].got = pointer, ![p].by = "pointer"]
             ELSE IF Unavailable(reply) THEN MoveTo(p, "redirect")
             ELSE Fail(p, reply)
    BY DEF LatestVersion
  <1>4. /\ faults' \in Nat /\ faults' >= faults /\ refused' \in BOOLEAN /\ (refused => refused')
    BY <1>3, Counted
  <1>5. CASE reply = "good"
    <2>. DEFINE r == [run[p] EXCEPT !.at = "oss", !.got = pointer, !.by = "pointer"]
    <2>1. run' = [run EXCEPT ![p] = r]
      BY <1>2, <1>3, <1>5
    <2>2. pointer \in Versions /\ Published(pointer)
      BY DEF FeedInv, FeedTypes, Mirrored
    <2>3. r \in Updates /\ r.at = "oss" /\ r.got = pointer
      BY <1>2, <2>2 DEF Updates, Seeking
    <2>. HIDE DEF r
    <2>4. Backed(r) /\ Allowed(r)
      BY <2>2, <2>3 DEF Backed, Allowed, Having, Direct
    <2>. QED
      BY <1>1, <1>4, <2>1, <2>3, <2>4, Proceeds
  <1>6. CASE reply # "good" /\ Unavailable(reply)
    BY <1>1, <1>3, <1>4, <1>6, MovesOn DEF Seeking, Having, Direct
  <1>7. CASE reply # "good" /\ ~Unavailable(reply)
    <2>1. reply \in {"refused", "expired"}
      BY <1>3, <1>7, BaseIsVersion, Replies DEF Unavailable
    <2>. QED
      BY <1>1, <1>2, <1>3, <1>7, <2>1, Fails
  <1>. QED
    BY <1>5, <1>6, <1>7

LEMMA RedirectKeeps ==
  ASSUME FeedInv, ClientInv, NEW p \in Commands, resolveLatestGitHubReleaseVersion(p)
  PROVE  ClientInv'
  <1>1. /\ run[p].at = "redirect" /\ UNCHANGED <<installer, installed, staged, feedVars>>
    BY DEF resolveLatestGitHubReleaseVersion, KeepMachine
  <1>2. /\ run \in [Commands -> Updates \cup {Resting, Killed}]
        /\ run[p] \in Updates
    BY <1>1, Own
  <1>3. PICK reply \in {"good"} \cup Faulty :
          /\ CountFault(reply)
          /\ IF reply = "good"
             THEN run' = [run EXCEPT ![p].at = "github", ![p].got = latest, ![p].by = "redirect"]
             ELSE Fail(p, reply)
    BY DEF resolveLatestGitHubReleaseVersion
  <1>4. /\ faults' \in Nat /\ faults' >= faults /\ refused' \in BOOLEAN /\ (refused => refused')
    BY <1>3, Counted
  <1>5. CASE reply = "good"
    <2>. DEFINE r == [run[p] EXCEPT !.at = "github", !.got = latest, !.by = "redirect"]
    <2>1. run' = [run EXCEPT ![p] = r]
      BY <1>2, <1>3, <1>5
    <2>2. latest \in Versions /\ Published(latest)
      BY DEF FeedInv, FeedTypes, Mirrored
    <2>3. r \in Updates /\ r.at = "github" /\ r.got = latest
      BY <1>2, <2>2 DEF Updates, Seeking
    <2>. HIDE DEF r
    <2>4. Backed(r) /\ Allowed(r)
      BY <2>2, <2>3 DEF Backed, Allowed, Having, Direct
    <2>. QED
      BY <1>1, <1>4, <2>1, <2>3, <2>4, Proceeds
  <1>6. CASE reply # "good"
    <2>1. reply \in {"down", "refused", "expired"}
      BY <1>3, <1>6, BaseIsVersion, Replies
    <2>. QED
      BY <1>1, <1>2, <1>3, <1>6, <2>1, Fails
  <1>. QED
    BY <1>5, <1>6

\* A release is resolved.
LEMMA Resolves ==
  ASSUME FeedInv, ClientInv, NEW p \in Commands, run[p].at \in Seeking,
         NEW v \in Versions, Published(v), Resolve(p, v),
         UNCHANGED <<feedVars, installer, installed, staged>>,
         faults' \in Nat, faults' >= faults, refused' \in BOOLEAN, refused => refused'
  PROVE  ClientInv'
  <1>1. /\ run \in [Commands -> Updates \cup {Resting, Killed}]
        /\ run[p] \in Updates
    BY Own DEF Seeking
  <1>. DEFINE r == [run[p] EXCEPT !.at = "resolved", !.got = v, !.by = "name"]
  <1>2. run' = [run EXCEPT ![p] = r]
    BY <1>1 DEF Resolve
  <1>3. r \in Updates /\ r.at = "resolved" /\ r.got = v
    BY <1>1 DEF Updates, Having
  <1>. HIDE DEF r
  <1>4. Backed(r) /\ Allowed(r)
    BY <1>3 DEF Backed, Allowed, Seeking, Direct
  <1>. QED
    BY <1>2, <1>3, <1>4, Proceeds DEF Seeking

LEMMA OSSReleaseKeeps ==
  ASSUME FeedInv, ClientInv, NEW p \in Commands, resolveOSSRelease(p)
  PROVE  ClientInv'
  <1>1. /\ run[p].at = "oss" /\ UNCHANGED <<installer, installed, staged, feedVars>>
    BY DEF resolveOSSRelease, KeepMachine
  <1>2. /\ run \in [Commands -> Updates \cup {Resting, Killed}]
        /\ run[p] \in Updates /\ Backed(run[p]) /\ run[p].got \in Versions
    BY <1>1, Own
  <1>3. PICK reply \in SignedOSS(run[p].got) :
          /\ CountFault(reply)
          /\ IF reply = "good" THEN Resolve(p, run[p].got)
             ELSE IF Unavailable(reply) THEN NextSource(p, "github")
             ELSE Fail(p, reply)
    BY DEF resolveOSSRelease
  <1>4. /\ faults' \in Nat /\ faults' >= faults /\ refused' \in BOOLEAN /\ (refused => refused')
    BY <1>3, Counted
  <1>5. /\ reply \in {"good", "bad", "missing", "down", "refused", "expired"}
        /\ reply = "good" => Published(run[p].got)
        /\ reply = "bad" => damage > 0
    BY <1>2, <1>3, Replies
  <1>6. CASE reply = "good"
    BY <1>1, <1>2, <1>3, <1>4, <1>5, <1>6, Resolves DEF Seeking
  <1>7. CASE reply # "good" /\ Unavailable(reply)
    <2>1. MoveTo(p, "github")
      BY <1>3, <1>7 DEF NextSource
    <2>2. Published(run[p].got) \/ (run[p].by = "name" /\ run[p].want = {run[p].got})
      BY <1>1, <1>2 DEF Backed, Seeking
    <2>. QED
      BY <1>1, <1>4, <2>1, <2>2, MovesOn DEF Seeking, Having, Direct
  <1>8. CASE reply # "good" /\ ~Unavailable(reply)
    BY <1>1, <1>2, <1>3, <1>5, <1>8, Fails DEF Unavailable
  <1>. QED
    BY <1>6, <1>7, <1>8

LEMMA GitHubReleaseKeeps ==
  ASSUME FeedInv, ClientInv, NEW p \in Commands, resolveGitHubSignedRelease(p)
  PROVE  ClientInv'
  <1>1. /\ run[p].at = "github" /\ UNCHANGED <<installer, installed, staged, feedVars>>
    BY DEF resolveGitHubSignedRelease, KeepMachine
  <1>2. /\ run \in [Commands -> Updates \cup {Resting, Killed}]
        /\ run[p] \in Updates /\ Backed(run[p]) /\ run[p].got \in Versions
    BY <1>1, Own
  <1>3. PICK reply \in SignedGitHub(run[p].got) :
          /\ CountFault(reply)
          /\ IF reply = "good" THEN Resolve(p, run[p].got)
             ELSE IF reply = "expired" THEN Fail(p, reply)
             ELSE IF requiresSignedUpdate(run[p].got) THEN Settle(p, SignedFailureOf(reply))
             ELSE IF ~Unavailable(reply) /\ run[p].by # "redirect" THEN Fail(p, reply)
             ELSE MoveTo(p, "api")
    BY DEF resolveGitHubSignedRelease
  <1>4. /\ faults' \in Nat /\ faults' >= faults /\ refused' \in BOOLEAN /\ (refused => refused')
        /\ (reply = "down" => faults' # 0) /\ (reply = "refused" => refused')
    BY <1>3, Counted
  <1>5. /\ reply \in {"good", "missing", "down", "refused", "expired"}
        /\ reply = "good" => Published(run[p].got)
        /\ reply = "missing" /\ requiresSignedUpdate(run[p].got) => ~Published(run[p].got)
    BY <1>2, <1>3, Replies
  <1>6. CASE reply = "good"
    BY <1>1, <1>2, <1>3, <1>4, <1>5, <1>6, Resolves DEF Seeking
  <1>7. CASE reply = "expired"
    BY <1>1, <1>2, <1>3, <1>7, Fails
  <1>8. CASE reply \notin {"good", "expired"} /\ requiresSignedUpdate(run[p].got)
    <2>1. Settle(p, SignedFailureOf(reply)) /\ SignedFailureOf(reply) \in Outcomes
      BY <1>3, <1>5, <1>8 DEF SignedFailureOf, FailureOf, Unavailable, Outcomes
    <2>2. SignedFailureOf(reply) = "Unavailable" => reply = "down"
      BY <1>5, <1>8 DEF SignedFailureOf, FailureOf, Unavailable
    <2>3. staged' = staged \ {p}
      BY <1>1 DEF ClientInv
    <2>4. installed' \in [version : Versions, genuine : {TRUE}] /\ Published(installed'.version)
      BY <1>1 DEF ClientInv
    <2>. QED
      BY <1>1, <1>2, <1>4, <1>8, <2>1, <2>2, <2>3, <2>4, Settles
  <1>9. CASE reply \notin {"good", "expired"} /\ ~requiresSignedUpdate(run[p].got)
    <2>1. CASE ~Unavailable(reply) /\ run[p].by # "redirect"
      BY <1>1, <1>2, <1>3, <1>5, <1>9, <2>1, Fails
    <2>2. CASE ~(~Unavailable(reply) /\ run[p].by # "redirect")
      <3>1. MoveTo(p, "api")
        BY <1>3, <1>9, <2>2
      <3>2. Published(run[p].got) \/ (run[p].by = "name" /\ run[p].want = {run[p].got})
        BY <1>1, <1>2 DEF Backed, Seeking
      <3>. QED
        BY <1>1, <1>4, <1>9, <3>1, <3>2, MovesOn DEF Seeking, Having, Direct
    <2>. QED
      BY <2>1, <2>2
  <1>. QED
    BY <1>6, <1>7, <1>8, <1>9

\* The pointer is not ahead of the release the API knows.
LEMMA PointerAgrees ==
  ASSUME FeedInv, ClientInv, NEW p \in Commands, run[p].at = "api"
  PROVE  ~(CompareVersions(run[p].got, IF run[p].by = "pointer" THEN latest ELSE run[p].got) > 0)
  <1>1. /\ run[p] \in Updates /\ Backed(run[p]) /\ run[p].got \in Versions /\ latest \in Versions
    BY Own DEF FeedInv, FeedTypes
  <1>2. CASE run[p].by # "pointer"
    BY <1>1, <1>2, Newer DEF FeedInv, FeedTypes
  <1>3. CASE run[p].by = "pointer"
    <2>1. Published(run[p].got) /\ Published(latest)
      BY <1>1, <1>3 DEF Backed, Seeking, FeedInv, Mirrored
    <2>2. run[p].got \in tags /\ latest \in tags
      BY <1>1, <2>1 DEF FeedInv, Tagged, Published
    <2>3. /\ run[p].got = Base
          /\ latest = Base \/ CompareVersions(latest, Base) > 0
      BY <1>1, <2>2 DEF Backed, FeedInv, Tagged
    <2>. QED
      BY <1>1, <1>3, <2>3, BaseIsVersion, Newer DEF FeedInv, FeedTypes
  <1>. QED
    BY <1>2, <1>3

LEMMA ReleaseKeeps ==
  ASSUME FeedInv, ClientInv, NEW p \in Commands, resolveRelease(p)
  PROVE  ClientInv'
  <1>. DEFINE v == IF run[p].by = "pointer" THEN latest ELSE run[p].got
  <1>1. /\ run[p].at = "api" /\ UNCHANGED <<installer, installed, staged, feedVars>>
    BY DEF resolveRelease, KeepMachine
  <1>2. /\ run[p] \in Updates /\ Backed(run[p]) /\ run[p].got \in Versions /\ latest \in Versions
    BY <1>1, Own DEF FeedInv, FeedTypes
  <1>3. PICK reply \in GitHub(v) :
          /\ CountFault(reply)
          /\ IF reply # "good" THEN Fail(p, reply)
             ELSE IF CompareVersions(run[p].got, v) < 0 THEN Settle(p, "Unavailable")
             ELSE IF CompareVersions(run[p].got, v) > 0 THEN Settle(p, "Integrity")
             ELSE Resolve(p, v)
    BY DEF resolveRelease
  <1>4. /\ faults' \in Nat /\ faults' >= faults /\ refused' \in BOOLEAN /\ (refused => refused')
    BY <1>3, Counted
  <1>5. /\ reply \in {"good", "missing", "down", "refused", "expired"}
        /\ reply = "good" => Published(v)
    BY <1>2, <1>3, Replies
  <1>6. ~requiresSignedUpdate(run[p].got)
    BY <1>1, <1>2 DEF Backed
  <1>7. ~(CompareVersions(run[p].got, v) > 0)
    BY <1>1, PointerAgrees
  <1>8. CASE reply # "good"
    BY <1>1, <1>2, <1>3, <1>5, <1>6, <1>8, Fails
  <1>9. CASE reply = "good" /\ CompareVersions(run[p].got, v) < 0
    <2>1. Settle(p, "Unavailable")
      BY <1>3, <1>9
    <2>2. staged' = staged \ {p}
      BY <1>1 DEF ClientInv
    <2>3. installed' \in [version : Versions, genuine : {TRUE}] /\ Published(installed'.version)
      BY <1>1 DEF ClientInv
    <2>. QED
      BY <1>1, <1>2, <1>4, <1>6, <2>1, <2>2, <2>3, Settles DEF Outcomes
  <1>10. CASE reply = "good" /\ ~(CompareVersions(run[p].got, v) < 0)
    BY <1>1, <1>2, <1>3, <1>4, <1>5, <1>7, <1>10, Resolves DEF Seeking
  <1>. QED
    BY <1>8, <1>9, <1>10

\* A command that settles without touching the machine.
LEMMA Stops ==
  ASSUME FeedInv, ClientInv, NEW p \in Commands, run[p].at \notin {"idle", "killed", "brew"},
         NEW outcome \in Outcomes, Settle(p, outcome),
         outcome = "Unavailable" => installer = "homebrew",
         UNCHANGED <<feedVars, installer, installed, staged>>,
         faults' \in Nat, faults' >= faults, refused' \in BOOLEAN, refused => refused'
  PROVE  ClientInv'
  <1>1. run[p] \in Updates
    BY Own
  <1>2. staged' = staged \ {p}
    BY DEF ClientInv
  <1>3. installed' \in [version : Versions, genuine : {TRUE}] /\ Published(installed'.version)
    BY DEF ClientInv
  <1>4. installer = "homebrew" => installer # "direct"
    OBVIOUS
  <1>. QED
    BY <1>1, <1>2, <1>3, <1>4, Settles

LEMMA FoundKeeps ==
  ASSUME FeedInv, ClientInv, NEW p \in Commands, run[p].at \in {"resolved", "probe"}, Found(p),
         UNCHANGED <<feedVars, installer, installed, staged>>,
         faults' \in Nat, faults' >= faults, refused' \in BOOLEAN, refused => refused'
  PROVE  ClientInv'
  <1>1. /\ run \in [Commands -> Updates \cup {Resting, Killed}]
        /\ run[p] \in Updates /\ Backed(run[p])
    BY Own
  <1>. DEFINE r == [run[p] EXCEPT !.at = "decide", !.want = {}]
  <1>2. run' = [run EXCEPT ![p] = r]
    BY <1>1 DEF Found
  <1>3. r \in Updates /\ r.at = "decide" /\ r.got = run[p].got
    BY <1>1 DEF Updates, Having
  <1>. HIDE DEF r
  <1>4. Backed(r) /\ Allowed(r)
    BY <1>1, <1>3 DEF Backed, Allowed, Seeking, Having, Direct
  <1>. QED
    BY <1>2, <1>3, <1>4, Proceeds

\* A command without requests keeps the count of faults.
LEMMA NoFault ==
  ASSUME ClientInv, UNCHANGED <<faults, refused>>
  PROVE  /\ faults' \in Nat /\ faults' >= faults
         /\ refused' \in BOOLEAN /\ (refused => refused')
  <1>1. faults \in Nat /\ refused \in BOOLEAN
    BY DEF ClientInv
  <1>2. refused' \in BOOLEAN /\ (refused => refused')
    BY <1>1, Zenon
  <1>. QED
    BY <1>1, <1>2

LEMMA ArtifactKeeps ==
  ASSUME FeedInv, ClientInv, NEW p \in Commands, validateArtifact(p)
  PROVE  ClientInv'
  <1>1. /\ run[p].at = "resolved" /\ UNCHANGED <<installer, installed, staged, feedVars>>
    BY DEF validateArtifact, KeepMachine
  <1>2. run[p] \in Updates /\ run[p].got \in Versions /\ Published(run[p].got)
    BY <1>1, Own DEF Backed, Having
  <1>3. CASE Settle(p, "InvalidTarget") /\ UNCHANGED <<faults, refused>>
    BY <1>1, <1>3, NoFault, Stops DEF Outcomes
  <1>4. CASE \E reply \in OSS(run[p].got) :
               /\ CountFault(reply)
               /\ IF verifyReleaseAssetBytes(reply) THEN Found(p)
                  ELSE IF Unavailable(reply) THEN NextSource(p, "probe")
                  ELSE Fail(p, reply)
    <2>1. PICK reply \in OSS(run[p].got) :
             /\ CountFault(reply)
             /\ IF verifyReleaseAssetBytes(reply) THEN Found(p)
                ELSE IF Unavailable(reply) THEN NextSource(p, "probe")
                ELSE Fail(p, reply)
      BY <1>4
    <2>2. /\ faults' \in Nat /\ faults' >= faults /\ refused' \in BOOLEAN /\ (refused => refused')
      BY <2>1, Counted
    <2>3. /\ reply \in {"good", "bad", "missing", "down", "refused", "expired"}
          /\ reply = "bad" => damage > 0
      BY <1>2, <2>1, Replies
    <2>4. CASE verifyReleaseAssetBytes(reply)
      BY <1>1, <2>1, <2>2, <2>4, FoundKeeps
    <2>5. CASE ~verifyReleaseAssetBytes(reply) /\ Unavailable(reply)
      <3>1. MoveTo(p, "probe")
        BY <2>1, <2>5 DEF NextSource
      <3>. QED
        BY <1>1, <1>2, <2>2, <3>1, MovesOn DEF Seeking, Having, Direct
    <2>6. CASE ~verifyReleaseAssetBytes(reply) /\ ~Unavailable(reply)
      BY <1>1, <1>2, <2>1, <2>3, <2>6, Fails DEF verifyReleaseAssetBytes, Unavailable
    <2>. QED
      BY <2>4, <2>5, <2>6
  <1>. QED
    BY <1>3, <1>4 DEF validateArtifact

LEMMA ProbeKeeps ==
  ASSUME FeedInv, ClientInv, NEW p \in Commands, probeGitHub(p)
  PROVE  ClientInv'
  <1>1. /\ run[p].at = "probe" /\ UNCHANGED <<installer, installed, staged, feedVars>>
    BY DEF probeGitHub, KeepMachine
  <1>2. run[p] \in Updates /\ run[p].got \in Versions /\ Published(run[p].got)
    BY <1>1, Own DEF Backed, Having
  <1>3. PICK reply \in GitHub(run[p].got) :
          /\ CountFault(reply)
          /\ IF reply # "good" THEN Fail(p, reply)
             ELSE IF installer = "homebrew" THEN Settle(p, "Unavailable")
             ELSE Found(p)
    BY DEF probeGitHub
  <1>4. /\ faults' \in Nat /\ faults' >= faults /\ refused' \in BOOLEAN /\ (refused => refused')
    BY <1>3, Counted
  <1>5. reply \in {"good", "down", "refused", "expired"}
    BY <1>2, <1>3, Replies
  <1>6. CASE reply # "good"
    BY <1>1, <1>2, <1>3, <1>5, <1>6, Fails
  <1>7. CASE reply = "good" /\ installer = "homebrew"
    BY <1>1, <1>3, <1>4, <1>7, Stops DEF Outcomes
  <1>8. CASE reply = "good" /\ installer # "homebrew"
    BY <1>1, <1>3, <1>4, <1>8, FoundKeeps
  <1>. QED
    BY <1>6, <1>7, <1>8

LEMMA DecideKeeps ==
  ASSUME FeedInv, ClientInv, NEW p \in Commands,
         NEW checkOnly \in BOOLEAN, NEW force \in BOOLEAN, NEW hasCask \in BOOLEAN,
         Decide(p, checkOnly, force, hasCask)
  PROVE  ClientInv'
  <1>1. /\ run[p].at = "decide" /\ UNCHANGED <<installer, installed, staged, feedVars>>
        /\ UNCHANGED <<faults, refused>>
    BY DEF Decide, KeepMachine
  <1>2. /\ run \in [Commands -> Updates \cup {Resting, Killed}]
        /\ run[p] \in Updates /\ run[p].got \in Versions /\ Published(run[p].got)
    BY <1>1, Own DEF Backed, Having
  <1>3. /\ faults' \in Nat /\ faults' >= faults
        /\ refused' \in BOOLEAN /\ (refused => refused')
    BY <1>1, NoFault
  <1>4. CASE installer = "homebrew" /\ ~hasCask
    <2>1. Settle(p, "Integrity") /\ ~requiresSignedUpdate(run[p].got)
      BY <1>4 DEF Decide
    <2>. QED
      BY <1>1, <1>3, <1>4, <2>1, Stops DEF Outcomes
  <1>5. CASE ~(installer = "homebrew" /\ ~hasCask) /\ checkOnly
    <2>1. Settle(p, "checked")
      BY <1>5 DEF Decide
    <2>. QED
      BY <1>1, <1>3, <2>1, Stops DEF Outcomes
  <1>6. CASE ~(installer = "homebrew" /\ ~hasCask) /\ ~checkOnly /\ NeedsForce(p) /\ ~force
    <2>1. Settle(p, "current") \/ Settle(p, "InvalidTarget")
      BY <1>6 DEF Decide
    <2>. QED
      BY <1>1, <1>3, <2>1, Stops DEF Outcomes
  <1>7. CASE ~(installer = "homebrew" /\ ~hasCask) /\ ~checkOnly /\ ~(NeedsForce(p) /\ ~force)
    <2>. DEFINE step == IF installer = "homebrew" THEN "cask" ELSE "download"
                r == [run[p] EXCEPT !.at = step, !.force = force]
    <2>1. run' = [run EXCEPT ![p] = r]
      BY <1>2, <1>7 DEF Decide
    <2>2. /\ r \in Updates /\ r.at = step /\ r.got = run[p].got /\ r.current = run[p].current
          /\ r.force = force
      BY <1>2 DEF Updates, Having, Direct
    <2>3. CompareVersions(run[p].got, run[p].current) > 0 \/ force
      <3>1. run[p].current \in Versions
        BY <1>2 DEF Updates
      <3>2. CompareVersions(run[p].got, run[p].current) \in {-1, 0, 1}
        BY <1>2, <3>1, Newer DEF FeedInv, FeedTypes
      <3>. QED
        BY <1>7, <3>2 DEF NeedsForce
    <2>. HIDE DEF r
    <2>4. Backed(r) /\ Allowed(r)
      BY <1>2, <2>2, <2>3 DEF Backed, Allowed, Seeking, Having, Direct
    <2>. QED
      BY <1>1, <1>3, <2>1, <2>2, <2>4, Proceeds
  <1>. QED
    BY <1>4, <1>5, <1>6, <1>7

\* The archive is there.
LEMMA ArchiveKeeps ==
  ASSUME FeedInv, ClientInv, NEW p \in Commands, run[p].at \in {"download", "fallback"},
         HaveArchive(p, "good"), UNCHANGED <<feedVars, installer, installed, staged>>,
         faults' \in Nat, faults' >= faults, refused' \in BOOLEAN, refused => refused'
  PROVE  ClientInv'
  <1>1. /\ run \in [Commands -> Updates \cup {Resting, Killed}]
        /\ run[p] \in Updates /\ Backed(run[p]) /\ Allowed(run[p])
    BY Own
  <1>. DEFINE r == [run[p] EXCEPT !.at = "replace", !.archive = "good"]
  <1>2. run' = [run EXCEPT ![p] = r]
    BY <1>1 DEF HaveArchive
  <1>3. /\ r \in Updates /\ r.at = "replace" /\ r.got = run[p].got /\ r.current = run[p].current
        /\ r.force = run[p].force /\ r.archive = "good"
    BY <1>1 DEF Updates, Having, Direct
  <1>. HIDE DEF r
  <1>4. Backed(r) /\ Allowed(r)
    BY <1>1, <1>3 DEF Backed, Allowed, Seeking, Having, Direct
  <1>. QED
    BY <1>2, <1>3, <1>4, Proceeds

LEMMA DownloadKeeps ==
  ASSUME FeedInv, ClientInv, NEW p \in Commands, downloadOSSArtifact(p)
  PROVE  ClientInv'
  <1>1. /\ run[p].at = "download" /\ UNCHANGED <<installer, installed, staged, feedVars>>
    BY DEF downloadOSSArtifact, KeepMachine
  <1>2. /\ run[p] \in Updates /\ run[p].got \in Versions /\ Published(run[p].got)
        /\ CompareVersions(run[p].got, run[p].current) > 0 \/ run[p].force
    BY <1>1, Own DEF Backed, Allowed, Having, Direct
  <1>3. PICK reply \in OSS(run[p].got) :
          /\ CountFault(reply)
          /\ IF verifyReleaseAssetBytes(reply) THEN HaveArchive(p, reply)
             ELSE IF Unavailable(reply) THEN NextSource(p, "fallback")
             ELSE Fail(p, reply)
    BY DEF downloadOSSArtifact
  <1>4. /\ faults' \in Nat /\ faults' >= faults /\ refused' \in BOOLEAN /\ (refused => refused')
    BY <1>3, Counted
  <1>5. /\ reply \in {"good", "bad", "missing", "down", "refused", "expired"}
        /\ reply = "bad" => damage > 0
    BY <1>2, <1>3, Replies
  <1>6. CASE verifyReleaseAssetBytes(reply)
    BY <1>1, <1>3, <1>4, <1>6, ArchiveKeeps DEF verifyReleaseAssetBytes
  <1>7. CASE ~verifyReleaseAssetBytes(reply) /\ Unavailable(reply)
    <2>1. MoveTo(p, "fallback")
      BY <1>3, <1>7 DEF NextSource
    <2>. QED
      BY <1>1, <1>2, <1>4, <2>1, MovesOn DEF Seeking, Having, Direct
  <1>8. CASE ~verifyReleaseAssetBytes(reply) /\ ~Unavailable(reply)
    BY <1>1, <1>2, <1>3, <1>5, <1>8, Fails DEF verifyReleaseAssetBytes, Unavailable
  <1>. QED
    BY <1>6, <1>7, <1>8

LEMMA FallbackKeeps ==
  ASSUME FeedInv, ClientInv, NEW p \in Commands, downloadArtifact(p)
  PROVE  ClientInv'
  <1>1. /\ run[p].at = "fallback" /\ UNCHANGED <<installer, installed, staged, feedVars>>
    BY DEF downloadArtifact, KeepMachine
  <1>2. run[p] \in Updates /\ run[p].got \in Versions /\ Published(run[p].got)
    BY <1>1, Own DEF Backed, Having, Direct
  <1>3. PICK reply \in GitHub(run[p].got) :
          /\ CountFault(reply)
          /\ IF verifyReleaseAssetBytes(reply) THEN HaveArchive(p, reply) ELSE Fail(p, reply)
    BY DEF downloadArtifact
  <1>4. /\ faults' \in Nat /\ faults' >= faults /\ refused' \in BOOLEAN /\ (refused => refused')
    BY <1>3, Counted
  <1>5. reply \in {"good", "down", "refused", "expired"}
    BY <1>2, <1>3, Replies
  <1>6. CASE verifyReleaseAssetBytes(reply)
    BY <1>1, <1>3, <1>4, <1>6, ArchiveKeeps DEF verifyReleaseAssetBytes
  <1>7. CASE ~verifyReleaseAssetBytes(reply)
    BY <1>1, <1>2, <1>3, <1>5, <1>7, Fails DEF verifyReleaseAssetBytes
  <1>. QED
    BY <1>6, <1>7

LEMMA ReplaceKeeps ==
  ASSUME FeedInv, ClientInv, NEW p \in Commands, replaceExecutable(p)
  PROVE  ClientInv'
  <1>1. /\ run[p].at = "replace" /\ UNCHANGED <<installer, staged, feedVars, faults, refused>>
    BY DEF replaceExecutable
  <1>2. /\ run[p] \in Updates /\ run[p].got \in Versions /\ Published(run[p].got)
        /\ run[p].archive = "good"
    BY <1>1, Own DEF Backed, Allowed, Having, Direct
  <1>3. /\ faults' \in Nat /\ faults' >= faults
        /\ refused' \in BOOLEAN /\ (refused => refused')
    BY <1>1, NoFault
  <1>4. CASE Settle(p, "Installation") /\ UNCHANGED installed
    BY <1>1, <1>3, <1>4, Stops DEF Outcomes
  <1>5. CASE /\ Settle(p, "updated")
             /\ installed' = [version |-> run[p].got, genuine |-> run[p].archive = "good"]
    <2>1. installed' = [version |-> run[p].got, genuine |-> TRUE]
      BY <1>2, <1>5, Zenon
    <2>2. installed' \in [version : Versions, genuine : {TRUE}] /\ Published(installed'.version)
      BY <1>2, <2>1
    <2>3. staged' = staged \ {p}
      BY <1>1 DEF ClientInv
    <2>. QED
      BY <1>1, <1>2, <1>3, <1>5, <2>2, <2>3, Settles DEF Outcomes
  <1>. QED
    BY <1>4, <1>5 DEF replaceExecutable

LEMMA CaskKeeps ==
  ASSUME FeedInv, ClientInv, NEW p \in Commands, stageCask(p)
  PROVE  ClientInv'
  <1>1. /\ run[p].at = "cask" /\ UNCHANGED <<installer, installed, feedVars>>
    BY DEF stageCask
  <1>2. /\ run \in [Commands -> Updates \cup {Resting, Killed}] /\ installer = "homebrew"
        /\ run[p] \in Updates /\ run[p].got \in Versions /\ Published(run[p].got)
    BY <1>1, Own DEF Backed, Allowed, Having
  <1>3. PICK reply \in GitHub(run[p].got) :
          /\ CountFault(reply)
          /\ \/ verifyReleaseAssetBytes(reply) /\ MoveTo(p, "brew") /\ staged' = staged \cup {p}
             \/ verifyReleaseAssetBytes(reply) /\ Settle(p, "Installation") /\ UNCHANGED staged
             \/ ~verifyReleaseAssetBytes(reply) /\ Fail(p, reply) /\ UNCHANGED staged
    BY DEF stageCask
  <1>4. /\ faults' \in Nat /\ faults' >= faults /\ refused' \in BOOLEAN /\ (refused => refused')
    BY <1>3, Counted
  <1>5. reply \in {"good", "down", "refused", "expired"}
    BY <1>2, <1>3, Replies
  <1>6. CASE MoveTo(p, "brew") /\ staged' = staged \cup {p}
    <2>. DEFINE r == [run[p] EXCEPT !.at = "brew"]
    <2>1. run' = [run EXCEPT ![p] = r]
      BY <1>2, <1>6 DEF MoveTo
    <2>2. r \in Updates /\ r.at = "brew" /\ r.got = run[p].got
      BY <1>2, Moved DEF Having
    <2>. HIDE DEF r
    <2>3. Backed(r) /\ Allowed(r) /\ Excused(r, faults')
      BY <1>2, <2>2 DEF Backed, Allowed, Excused, Seeking, Having, Direct
    <2>4. installed' \in [version : Versions, genuine : {TRUE}] /\ Published(installed'.version)
      BY <1>1 DEF ClientInv
    <2>. QED
      BY <1>1, <1>4, <1>6, <2>1, <2>2, <2>3, <2>4, CommandMoves
  <1>7. CASE Settle(p, "Installation") /\ UNCHANGED staged
    BY <1>1, <1>4, <1>7, Stops DEF Outcomes
  <1>8. CASE ~verifyReleaseAssetBytes(reply) /\ Fail(p, reply) /\ UNCHANGED staged
    BY <1>1, <1>2, <1>3, <1>5, <1>8, Fails DEF verifyReleaseAssetBytes
  <1>. QED
    BY <1>3, <1>6, <1>7, <1>8

LEMMA BrewKeeps ==
  ASSUME FeedInv, ClientInv, NEW p \in Commands, brew(p)
  PROVE  ClientInv'
  <1>1. /\ run[p].at = "brew" /\ UNCHANGED <<installer, feedVars, faults, refused>>
        /\ staged' = staged \ {p}
    BY DEF brew, removeStaged
  <1>2. /\ run[p] \in Updates /\ run[p].got \in Versions /\ Published(run[p].got)
    BY <1>1, Own DEF Backed, Having
  <1>3. /\ faults' \in Nat /\ faults' >= faults
        /\ refused' \in BOOLEAN /\ (refused => refused')
    BY <1>1, NoFault
  <1>4. /\ Settle(p, "updated") \/ Settle(p, "Installation")
        /\ installed' \in {installed, [version |-> run[p].got, genuine |-> TRUE]}
    BY DEF brew
  <1>5. installed' \in [version : Versions, genuine : {TRUE}] /\ Published(installed'.version)
    <2>1. CASE installed' = installed
      BY <1>1, <2>1 DEF ClientInv, feedVars, repoVars, Published
    <2>2. CASE installed' = [version |-> run[p].got, genuine |-> TRUE]
      BY <1>1, <1>2, <2>2 DEF feedVars, repoVars, Published
    <2>. QED
      BY <1>4, <2>1, <2>2
  <1>. QED
    BY <1>1, <1>2, <1>3, <1>4, <1>5, Settles DEF Outcomes

LEMMA KillKeeps ==
  ASSUME FeedInv, ClientInv, NEW p \in Commands, Kill(p)
  PROVE  ClientInv'
  <1>1. /\ run' = [run EXCEPT ![p] = Killed] /\ Killed.at = "killed"
        /\ UNCHANGED <<installer, installed, staged, feedVars, faults, refused>>
    BY DEF Kill, KeepMachine, Killed
  <1>2. /\ faults' \in Nat /\ faults' >= faults
        /\ refused' \in BOOLEAN /\ (refused => refused')
    BY <1>1, NoFault
  <1>3. installed' \in [version : Versions, genuine : {TRUE}] /\ Published(installed'.version)
    BY <1>1 DEF ClientInv
  <1>. QED
    BY <1>1, <1>2, <1>3, CommandMoves

LEMMA MeanwhileKeeps ==
  ASSUME FeedInv, ClientInv, NEW v \in Versions, InstalledMeanwhile(v)
  PROVE  ClientInv'
  <1>1. /\ UNCHANGED <<installer, staged, run, faults, refused, github, damage>>
        /\ Published(v) /\ installed' = [version |-> v, genuine |-> TRUE]
    BY DEF InstalledMeanwhile, feedVars, repoVars, mirrorVars
  <1>2. \A p \in Commands : Knows(run[p], faults)'
    BY <1>1 DEF ClientInv, Knows, Backed, Allowed, Excused, Published
  <1>. QED
    BY <1>1, <1>2 DEF ClientInv, Published

-----------------------------------------------------------------------------
(* The invariant, and what follows from it.                                *)

LEMMA UpdateInit ==
  ASSUME ReleasesWellFormed, Init
  PROVE  UpdateInv
  <1>1. FeedInv
    BY FeedStarts DEF Init
  <1>2. ClientInv
    BY BaseIsVersion
    DEF Init, FeedInit, ClientInit, ClientInv, Knows, Resting, Published
  <1>. QED
    BY <1>1, <1>2 DEF UpdateInv

LEMMA ClientStepKeeps ==
  ASSUME FeedInv, ClientInv, NEW p \in Commands, ClientStep(p)
  PROVE  ClientInv' /\ UNCHANGED feedVars
  <1>1. ClientInv'
    BY StartKeeps, LatestVersionKeeps, RedirectKeeps, OSSReleaseKeeps, GitHubReleaseKeeps,
       ReleaseKeeps, ArtifactKeeps, ProbeKeeps, DecideKeeps, DownloadKeeps, FallbackKeeps,
       ReplaceKeeps, CaskKeeps, BrewKeeps, KillKeeps DEF ClientStep
  <1>2. UNCHANGED feedVars
    BY DEF ClientStep, Start, LatestVersion, resolveLatestGitHubReleaseVersion, resolveOSSRelease,
           resolveGitHubSignedRelease, resolveRelease, validateArtifact, probeGitHub, Decide,
           downloadOSSArtifact, downloadArtifact, replaceExecutable, stageCask, brew, Kill
  <1>. QED
    BY <1>1, <1>2

LEMMA FeedStays ==
  ASSUME FeedInv, UNCHANGED feedVars
  PROVE  FeedInv'
  BY DEF FeedInv, FeedTypes, Tagged, Mirrored, Checked, TapBehind, Published, Stable, feedVars,
         repoVars, mirrorVars

LEMMA UpdateNext ==
  ASSUME UpdateInv, [Next]_vars
  PROVE  UpdateInv'
  <1>. USE DEF UpdateInv
  <1>1. CASE FeedNext /\ UNCHANGED clientVars
    BY <1>1, FeedKept, FeedMoves
  <1>2. CASE \E v \in Versions : InstalledMeanwhile(v)
    <2>1. ClientInv'
      BY <1>2, MeanwhileKeeps
    <2>2. UNCHANGED feedVars
      BY <1>2 DEF InstalledMeanwhile
    <2>. QED
      BY <2>1, <2>2, FeedStays
  <1>3. CASE \E p \in Commands : ClientStep(p)
    BY <1>3, ClientStepKeeps, FeedStays
  <1>4. CASE UNCHANGED vars
    <2>1. UNCHANGED feedVars /\ UNCHANGED clientVars
      BY <1>4 DEF vars
    <2>2. FeedInv'
      BY <2>1, FeedStays
    <2>3. ClientInv'
      BY <2>1 DEF ClientInv, Knows, Backed, Allowed, Excused, Published, clientVars, feedVars,
                  repoVars, mirrorVars
    <2>. QED
      BY <2>2, <2>3
  <1>. QED
    BY <1>1, <1>2, <1>3, <1>4 DEF Next

LEMMA UpdateInvariant == Spec => []UpdateInv
  <1>1. Init => UpdateInv
    BY ReleasesAssumption, UpdateInit
  <1>2. UpdateInv /\ [Next]_vars => UpdateInv'
    BY UpdateNext
  <1>. QED
    BY <1>1, <1>2, PTL DEF Spec

\* What is installed was published whole, and a command that ended left no
\* Cask in the tap, whatever the mirror does and whoever is killed.
THEOREM WholeReleases == Spec => []InstallsThePublished
  <1>1. UpdateInv => InstallsThePublished
    <2>. SUFFICES ASSUME UpdateInv PROVE InstallsThePublished
      OBVIOUS
    <2>1. TypeOK
      <3>1. ASSUME NEW p \in Commands, run[p].at \notin {"idle", "killed"}
            PROVE  run[p].outcome \in Outcomes
        BY <3>1, Own DEF UpdateInv, Updates
      <3>. QED
        BY <3>1 DEF UpdateInv, FeedInv, FeedTypes, ClientInv, TypeOK
    <2>2. OnlyPublishedInstalled /\ NothingStaged
      BY DEF UpdateInv, ClientInv, OnlyPublishedInstalled, NothingStaged
    <2>. QED
      BY <2>1, <2>2 DEF InstallsThePublished
  <1>. QED
    BY <1>1, UpdateInvariant, PTL

\* A command that settles keeps the release it looked for.
LEMMA Settled ==
  ASSUME ClientInv, NEW p \in Commands, run[p] \in Updates, NEW outcome, Settle(p, outcome)
  PROVE  /\ run'[p].outcome = outcome
         /\ run'[p].want = run[p].want /\ run'[p].got = run[p].got
BY DEF ClientInv, Settle, Updates

\* A request that nothing replaces accuses nobody of tampering, unless something
\* was garbled or refused.
LEMMA FailsUnaccused ==
  ASSUME FeedInv, ClientInv, NEW p \in Commands, run[p] \in Updates, NEW reply,
         reply \in {"bad", "missing", "down", "refused", "expired"}, CountFault(reply), Fail(p, reply),
         reply = "bad" => damage > 0, damage = 0, ~refused'
  PROVE  run'[p].outcome # "Integrity"
  <1>1. reply \in {"missing", "down", "expired"}
    BY Counted DEF FeedInv, FeedTypes
  <1>2. FailureOf(reply) # "Integrity"
    BY <1>1 DEF FailureOf, Unavailable
  <1>. QED
    BY <1>2, Settled DEF Fail

\* A step of one command leaves the others where they are.
LEMMA OthersRest ==
  ASSUME NEW p \in Commands, ClientStep(p), run \in [Commands -> Updates \cup {Resting, Killed}]
  PROVE  \A q \in Commands : q # p => run'[q] = run[q]
  <1>. USE DEF Settle, Fail, MoveTo, NextSource
  <1>1. CASE \/ \E want \in {{}} \cup {{v} : v \in Versions} : Start(p, want)
             \/ \E checkOnly, force, hasCask \in BOOLEAN : Decide(p, checkOnly, force, hasCask)
             \/ Kill(p)
    BY <1>1 DEF Start, Decide, Kill
  <1>2. CASE \/ LatestVersion(p) \/ resolveLatestGitHubReleaseVersion(p) \/ resolveOSSRelease(p)
    BY <1>2 DEF LatestVersion, resolveLatestGitHubReleaseVersion, resolveOSSRelease, Resolve
  <1>3. CASE resolveGitHubSignedRelease(p) \/ resolveRelease(p)
    BY <1>3 DEF resolveGitHubSignedRelease, resolveRelease, Resolve
  <1>4. CASE \/ validateArtifact(p) \/ probeGitHub(p) \/ downloadOSSArtifact(p) \/ downloadArtifact(p)
    BY <1>4 DEF validateArtifact, probeGitHub, downloadOSSArtifact, downloadArtifact, Found, HaveArchive
  <1>5. CASE replaceExecutable(p) \/ stageCask(p) \/ brew(p)
    BY <1>5 DEF replaceExecutable, stageCask, brew
  <1>. QED
    BY <1>1, <1>2, <1>3, <1>4, <1>5 DEF ClientStep

\* Looking for the newest release accuses nobody.
LEMMA LookingUnaccused ==
  ASSUME FeedInv, ClientInv, NEW p \in Commands,
         LatestVersion(p) \/ resolveLatestGitHubReleaseVersion(p),
         run'[p].at = "done", damage = 0, ~refused'
  PROVE  run'[p].outcome # "Integrity"
  <1>1. /\ run \in [Commands -> Updates \cup {Resting, Killed}]
        /\ run[p] \in Updates
    BY Own DEF LatestVersion, resolveLatestGitHubReleaseVersion
  <1>2. PICK reply \in {"good"} \cup Faulty :
          /\ CountFault(reply)
          /\ \/ reply = "good" /\ \/ run' = [run EXCEPT ![p].at = "oss", ![p].got = pointer, ![p].by = "pointer"]
                                  \/ run' = [run EXCEPT ![p].at = "github", ![p].got = latest, ![p].by = "redirect"]
             \/ MoveTo(p, "redirect")
             \/ reply # "good" /\ Fail(p, reply)
    BY DEF LatestVersion, resolveLatestGitHubReleaseVersion
  <1>3. reply # "good" /\ Fail(p, reply)
    BY <1>1, <1>2 DEF MoveTo, Updates
  <1>4. reply \in {"down", "refused", "expired"}
    BY <1>2, <1>3, BaseIsVersion, Replies
  <1>. QED
    BY <1>1, <1>2, <1>3, <1>4, FailsUnaccused

\* A named release is reported as tampered with only where GitHub has not
\* published it.
LEMMA NamingUnaccused ==
  ASSUME FeedInv, ClientInv, NEW p \in Commands, resolveOSSRelease(p) \/ resolveGitHubSignedRelease(p),
         run'[p].at = "done", run'[p].outcome = "Integrity", damage = 0, ~refused'
  PROVE  run'[p].want = {run'[p].got} /\ ~Published(run'[p].got)
  <1>1. /\ run \in [Commands -> Updates \cup {Resting, Killed}]
        /\ run[p] \in Updates /\ Backed(run[p]) /\ run[p].got \in Versions /\ run[p].at \in Seeking
    BY Own DEF resolveOSSRelease, resolveGitHubSignedRelease, Seeking
  <1>2. PICK reply \in SignedOSS(run[p].got) \cup SignedGitHub(run[p].got) :
          /\ CountFault(reply)
          /\ \/ Resolve(p, run[p].got) \/ MoveTo(p, "github") \/ MoveTo(p, "api")
             \/ reply # "good" /\ Fail(p, reply)
             \/ /\ reply \in SignedGitHub(run[p].got) /\ reply \notin {"good", "expired"}
                /\ requiresSignedUpdate(run[p].got) /\ Settle(p, SignedFailureOf(reply))
    BY DEF resolveOSSRelease, resolveGitHubSignedRelease, NextSource
  <1>3. /\ reply \in {"good", "bad", "missing", "down", "refused", "expired"}
        /\ reply = "bad" => damage > 0
    BY <1>1, <1>2, Replies
  <1>4. ~(Resolve(p, run[p].got) \/ MoveTo(p, "github") \/ MoveTo(p, "api"))
    BY <1>1 DEF Resolve, MoveTo, Updates
  <1>5. ~(reply # "good" /\ Fail(p, reply))
    BY <1>1, <1>2, <1>3, FailsUnaccused
  <1>6. /\ reply \in SignedGitHub(run[p].got) /\ reply \notin {"good", "expired"}
        /\ requiresSignedUpdate(run[p].got) /\ Settle(p, SignedFailureOf(reply))
    BY <1>2, <1>4, <1>5
  <1>7. SignedFailureOf(reply) = "Integrity" /\ run'[p].want = run[p].want /\ run'[p].got = run[p].got
    BY <1>1, <1>6, Settled
  <1>8. reply = "missing"
    <2>1. reply # "refused" /\ reply # "bad"
      BY <1>2, <1>3, Counted DEF FeedInv, FeedTypes
    <2>2. reply # "down"
      BY <1>7 DEF SignedFailureOf, FailureOf, Unavailable
    <2>. QED
      BY <1>3, <1>6, <2>1, <2>2
  <1>9. ~Published(run[p].got)
    BY <1>1, <1>6, <1>8, Replies
  <1>. QED
    BY <1>1, <1>7, <1>9 DEF Backed

\* Neither does the release API, with whose release the pointer agrees.
LEMMA ReleaseUnaccused ==
  ASSUME FeedInv, ClientInv, NEW p \in Commands, resolveRelease(p),
         run'[p].at = "done", damage = 0, ~refused'
  PROVE  run'[p].outcome # "Integrity"
  <1>. DEFINE v == IF run[p].by = "pointer" THEN latest ELSE run[p].got
  <1>1. /\ run \in [Commands -> Updates \cup {Resting, Killed}] /\ run[p].at = "api"
        /\ run[p] \in Updates /\ Backed(run[p]) /\ run[p].got \in Versions /\ latest \in Versions
    BY Own DEF resolveRelease, FeedInv, FeedTypes
  <1>2. PICK reply \in GitHub(v) :
          /\ CountFault(reply)
          /\ IF reply # "good" THEN Fail(p, reply)
             ELSE IF CompareVersions(run[p].got, v) < 0 THEN Settle(p, "Unavailable")
             ELSE IF CompareVersions(run[p].got, v) > 0 THEN Settle(p, "Integrity")
             ELSE Resolve(p, v)
    BY DEF resolveRelease
  <1>3. reply \in {"good", "missing", "down", "refused", "expired"}
    BY <1>1, <1>2, Replies
  <1>4. ~(CompareVersions(run[p].got, v) > 0)
    BY <1>1, PointerAgrees
  <1>5. CASE reply # "good"
    BY <1>1, <1>2, <1>3, <1>5, FailsUnaccused
  <1>6. CASE reply = "good"
    <2>1. Settle(p, "Unavailable") \/ Resolve(p, v)
      BY <1>2, <1>4, <1>6
    <2>2. ~Resolve(p, v)
      BY <1>1 DEF Resolve, Updates
    <2>. QED
      BY <1>1, <2>1, <2>2, Settled
  <1>. QED
    BY <1>5, <1>6

\* Nor do the requests for the files of a release that was found.
LEMMA FilesUnaccused ==
  ASSUME FeedInv, ClientInv, NEW p \in Commands,
         \/ validateArtifact(p) \/ probeGitHub(p) \/ downloadOSSArtifact(p)
         \/ downloadArtifact(p) \/ stageCask(p),
         run'[p].at = "done", damage = 0, ~refused'
  PROVE  run'[p].outcome # "Integrity"
  <1>1. /\ run \in [Commands -> Updates \cup {Resting, Killed}]
        /\ run[p] \in Updates /\ run[p].got \in Versions
    BY Own DEF validateArtifact, probeGitHub, downloadOSSArtifact, downloadArtifact, stageCask
  <1>2. CASE Settle(p, "InvalidTarget") \/ Settle(p, "Unavailable") \/ Settle(p, "Installation")
    BY <1>1, <1>2, Settled
  <1>3. CASE \/ Found(p) \/ MoveTo(p, "probe") \/ MoveTo(p, "fallback") \/ MoveTo(p, "brew")
             \/ \E reply : HaveArchive(p, reply)
    BY <1>1, <1>3 DEF Found, MoveTo, HaveArchive, Updates
  <1>4. CASE \E reply \in OSS(run[p].got) \cup GitHub(run[p].got) :
               reply # "good" /\ CountFault(reply) /\ Fail(p, reply)
    BY <1>1, <1>4, Replies, FailsUnaccused
  <1>. QED
    BY <1>2, <1>3, <1>4
    DEF validateArtifact, probeGitHub, downloadOSSArtifact, downloadArtifact, stageCask, NextSource,
        verifyReleaseAssetBytes

\* Who is accused of tampering.
LEMMA Accuses ==
  ASSUME UpdateInv, [Next]_vars, NEW p \in Commands,
         run[p].at # "done", run'[p].at = "done", run'[p].outcome = "Integrity",
         damage = 0, ~refused'
  PROVE  \/ run'[p].want = {run'[p].got} /\ ~Published(run'[p].got)
         \/ run[p].at = "decide" /\ installer = "homebrew" /\ ~requiresSignedUpdate(run[p].got)
  <1>. USE DEF UpdateInv
  <1>1. PICK q \in Commands : ClientStep(q)
    BY DEF Next, vars, clientVars, InstalledMeanwhile
  <1>2. run' # run /\ run \in [Commands -> Updates \cup {Resting, Killed}]
    BY DEF ClientInv
  <1>3. ClientStep(p)
    <2>1. \A c \in Commands : c # q => run'[c] = run[c]
      BY <1>1, <1>2, OthersRest
    <2>. QED
      BY <1>1, <2>1
  <1>4. CASE (\E want \in {{}} \cup {{v} : v \in Versions} : Start(p, want)) \/ Kill(p)
    BY <1>2, <1>4 DEF Start, Kill, Killed
  <1>5. CASE LatestVersion(p) \/ resolveLatestGitHubReleaseVersion(p)
    BY <1>5, LookingUnaccused
  <1>6. CASE resolveOSSRelease(p) \/ resolveGitHubSignedRelease(p)
    BY <1>6, NamingUnaccused
  <1>7. CASE resolveRelease(p)
    BY <1>7, ReleaseUnaccused
  <1>8. CASE \/ validateArtifact(p) \/ probeGitHub(p) \/ downloadOSSArtifact(p)
             \/ downloadArtifact(p) \/ stageCask(p)
    BY <1>8, FilesUnaccused
  <1>9. CASE \E checkOnly, force, hasCask \in BOOLEAN : Decide(p, checkOnly, force, hasCask)
    <2>1. PICK checkOnly, force, hasCask \in BOOLEAN : Decide(p, checkOnly, force, hasCask)
      BY <1>9
    <2>2. run[p].at = "decide" /\ run[p] \in Updates
      BY <2>1, Own DEF Decide
    <2>3. CASE installer = "homebrew" /\ ~hasCask
      BY <2>1, <2>2, <2>3 DEF Decide
    <2>4. CASE ~(installer = "homebrew" /\ ~hasCask)
      <3>1. \/ \E outcome \in {"checked", "current", "InvalidTarget"} : Settle(p, outcome)
            \/ run' = [run EXCEPT ![p].at = IF installer = "homebrew" THEN "cask" ELSE "download",
                                  ![p].force = force]
        BY <2>1, <2>4 DEF Decide
      <3>2. CASE \E outcome \in {"checked", "current", "InvalidTarget"} : Settle(p, outcome)
        BY <2>2, <3>2, Settled
      <3>3. CASE run' = [run EXCEPT ![p].at = IF installer = "homebrew" THEN "cask" ELSE "download",
                                    ![p].force = force]
        BY <1>2, <2>2, <3>3 DEF Updates
      <3>. QED
        BY <3>1, <3>2, <3>3
    <2>. QED
      BY <2>3, <2>4
  <1>10. CASE replaceExecutable(p) \/ brew(p)
    <2>1. run[p] \in Updates
      BY <1>10, Own DEF replaceExecutable, brew
    <2>2. Settle(p, "updated") \/ Settle(p, "Installation")
      BY <1>10 DEF replaceExecutable, brew
    <2>. QED
      BY <2>1, <2>2, Settled
  <1>. QED
    BY <1>3, <1>4, <1>5, <1>6, <1>7, <1>8, <1>9, <1>10 DEF ClientStep

\* A mirror that lags is not reported as an attack (a command that ends with
\* UpdateIntegrityFailed named a release that was not published, or Homebrew
\* found no Cask in a legacy one), nor, to whom GitHub can help, as an outage.
THEOREM LagDoesNoHarm == Spec => LagIsHarmless
  <1>1. UpdateInv /\ [Next]_vars =>
          [\A p \in Commands :
             run[p].at # "done" /\ run'[p].at = "done" /\ run'[p].outcome = "Integrity"
               /\ damage = 0 /\ ~refused' =>
               \/ run'[p].want = {run'[p].got} /\ ~Published(run'[p].got)
               \/ /\ run[p].at = "decide" /\ installer = "homebrew"
                  /\ ~requiresSignedUpdate(run[p].got)]_vars
    BY Accuses
  <1>2. UpdateInv => LagIsNoOutage
    <2>. SUFFICES ASSUME UpdateInv PROVE LagIsNoOutage
      OBVIOUS
    <2>1. ASSUME NEW p \in Commands, run[p].at = "done"
          PROVE  Excused(run[p], faults)
      BY <2>1 DEF UpdateInv, ClientInv, Knows, Resting, Killed
    <2>. QED
      BY <2>1 DEF Excused, LagIsNoOutage
  <1>3. Spec => LagIsNoTampering
    BY <1>1, UpdateInvariant, PTL DEF Spec, LagIsNoTampering
  <1>4. Spec => []LagIsNoOutage
    BY <1>2, UpdateInvariant, PTL
  <1>. QED
    BY <1>3, <1>4 DEF LagIsHarmless

LEMMA TagsGrow ==
  ASSUME UpdateInv, [Next]_vars, NEW v \in tags' \ tags, NEW t \in tags
  PROVE  CompareVersions(v, t) > 0
  <1>1. TagRelease
    <2>1. CASE FeedNext
      BY <2>1 DEF FeedNext, StartRelease, RevertVersion, ResumeRelease, BuildDraft, AttachManifest,
                  PublishDraft, Notify, UpdateTap, JobFails, MirrorCopies, MirrorPoints, MirrorGarbles,
                  MirrorStepsBack, repoVars
    <2>2. CASE ~FeedNext
      <3>1. tags' = tags
        BY <2>2, ClientStepKeeps DEF UpdateInv, Next, InstalledMeanwhile, vars, feedVars, repoVars
      <3>. QED
        BY <3>1
    <2>. QED
      BY <2>1, <2>2
  <1>2. job.at = "tag" /\ v = job.version
    BY <1>1 DEF TagRelease, At
  <1>. QED
    BY <1>2 DEF UpdateInv, FeedInv, Checked

LEMMA TapGrows ==
  ASSUME UpdateInv, [Next]_vars
  PROVE  CompareVersions(tapCask', tapCask) >= 0
  <1>. USE DEF UpdateInv, FeedInv
  <1>1. CASE tapCask' = tapCask
    <2>1. CompareVersions(tapCask, tapCask) = 0
      BY Newer DEF FeedTypes
    <2>. QED
      BY <1>1, <2>1
  <1>2. CASE tapCask' # tapCask
    <2>1. UpdateTap
      <3>1. FeedNext
        BY <1>2, ClientStepKeeps DEF Next, InstalledMeanwhile, vars, feedVars, repoVars
      <3>. QED
        BY <1>2, <3>1
        DEF FeedNext, StartRelease, RevertVersion, ResumeRelease, TagRelease, BuildDraft,
            AttachManifest, PublishDraft, Notify, JobFails, MirrorCopies, MirrorPoints,
            MirrorGarbles, MirrorStepsBack, repoVars
    <2>2. job.at = "wait" /\ Stable(job.version) /\ tapCask' = job.version
      BY <1>2, <2>1 DEF UpdateTap, At
    <2>3. latest = job.version
      BY <2>2 DEF Checked, Announcing
    <2>. QED
      BY <2>2, <2>3 DEF TapBehind
  <1>. QED
    BY <1>1, <1>2

LEMMA InstalledGrows ==
  ASSUME UpdateInv, [Next]_vars, installer = "direct",
         CompareVersions(installed'.version, installed.version) < 0
  PROVE  \E p \in Commands : run[p].at = "replace" /\ run[p].force
  <1>. USE DEF UpdateInv
  <1>1. installed.version \in Versions /\ ReleasesWellFormed
    BY DEF ClientInv, FeedInv, FeedTypes
  <1>2. installed' # installed
    BY <1>1, Newer
  <1>3. ~\E v \in Versions : InstalledMeanwhile(v)
    <2>. SUFFICES ASSUME NEW v \in Versions, InstalledMeanwhile(v) PROVE FALSE
      OBVIOUS
    <2>1. installed'.version = v /\ CompareVersions(v, installed.version) > 0
      BY DEF InstalledMeanwhile
    <2>2. CompareVersions(v, installed.version) \in {-1, 0, 1}
      BY <1>1, Newer
    <2>. QED
      BY <2>1, <2>2
  <1>4. PICK p \in Commands : ClientStep(p)
    BY <1>2, <1>3 DEF Next, vars, clientVars
  <1>5. replaceExecutable(p) \/ brew(p)
    <2>1. CASE \/ \E want \in {{}} \cup {{v} : v \in Versions} : Start(p, want)
               \/ \E checkOnly, force, hasCask \in BOOLEAN : Decide(p, checkOnly, force, hasCask)
               \/ stageCask(p) \/ Kill(p)
      BY <1>2, <2>1 DEF Start, Decide, stageCask, Kill, KeepMachine
    <2>2. CASE \/ LatestVersion(p) \/ resolveLatestGitHubReleaseVersion(p)
               \/ resolveOSSRelease(p) \/ resolveGitHubSignedRelease(p) \/ resolveRelease(p)
      BY <1>2, <2>2
      DEF LatestVersion, resolveLatestGitHubReleaseVersion, resolveOSSRelease,
          resolveGitHubSignedRelease, resolveRelease, KeepMachine
    <2>3. CASE \/ validateArtifact(p) \/ probeGitHub(p)
               \/ downloadOSSArtifact(p) \/ downloadArtifact(p)
      BY <1>2, <2>3
      DEF validateArtifact, probeGitHub, downloadOSSArtifact, downloadArtifact, KeepMachine
    <2>. QED
      BY <1>4, <2>1, <2>2, <2>3 DEF ClientStep
  <1>6. run[p].at \in {"replace", "brew"}
    BY <1>5 DEF replaceExecutable, brew
  <1>7. /\ run[p] \in Updates /\ Allowed(run[p]) /\ run[p].got \in Versions
        /\ run[p].current \in Versions
    BY <1>6, Own DEF Updates
  <1>8. replaceExecutable(p) /\ run[p].at = "replace"
    BY <1>5, <1>6, <1>7 DEF Allowed, brew, replaceExecutable
  <1>9. installed'.version = run[p].got /\ installed.version = run[p].current
    BY <1>2, <1>8 DEF replaceExecutable, StillCurrent
  <1>10. CompareVersions(run[p].got, run[p].current) > 0 \/ run[p].force
    BY <1>7, <1>8 DEF Allowed, Direct
  <1>11. CompareVersions(run[p].got, run[p].current) \in {-1, 0, 1}
    BY <1>1, <1>7, Newer
  <1>. QED
    BY <1>8, <1>9, <1>10, <1>11

\* Neither a machine, unless forced, nor the tags, nor the tap go back,
\* whatever commands run side by side and whichever releases fail.
THEOREM NeverGoesBack == Spec => NothingGoesBack
  <1>1. UpdateInv /\ [Next]_vars =>
          [installer = "direct" /\ CompareVersions(installed'.version, installed.version) < 0 =>
             \E p \in Commands : run[p].at = "replace" /\ run[p].force]_vars
    BY InstalledGrows
  <1>2. UpdateInv /\ [Next]_vars =>
          [\A v \in tags' \ tags : \A t \in tags : CompareVersions(v, t) > 0]_vars
    BY TagsGrow
  <1>3. UpdateInv /\ [Next]_vars => [CompareVersions(tapCask', tapCask) >= 0]_vars
    BY TapGrows
  <1>4. Spec => OlderOnlyByForce
    BY <1>1, UpdateInvariant, PTL DEF Spec, OlderOnlyByForce
  <1>5. Spec => TagsAdvance
    BY <1>2, UpdateInvariant, PTL DEF Spec, TagsAdvance
  <1>6. Spec => TapAdvances
    BY <1>3, UpdateInvariant, PTL DEF Spec, TapAdvances
  <1>. QED
    BY <1>4, <1>5, <1>6 DEF NothingGoesBack

-----------------------------------------------------------------------------
(* The automatic check.                                                    *)

Times == {Never} \cup 0..MaxClock
Caches == [checked : Times, failed : Times, verified : 0..LastRelease]
Runs == [at : {"idle", "lock", "resolve", "write", "done"}, now : 0..MaxClock,
         state : Caches, notice : 0..LastRelease]

CheckTypes ==
  /\ clock \in 0..MaxClock
  /\ newest \in 1..LastRelease /\ served \in 1..LastRelease /\ current \in 1..LastRelease
  /\ cache \in Caches /\ checks \in [Checkers -> Runs]
  /\ lock \in Checkers \cup {Nobody} /\ steps \in Nat /\ checked \in Times

\* A cache in which the last check is found again.
Records(c) == checked # Never => c.checked = checked /\ c.verified # NoRelease

\* What the holder of the lock has read or is about to write keeps the mark,
\* and the last check unless it is a check itself.
Carried(p) ==
  /\ checks[p].state.verified >= cache.verified
  /\ IF checks[p].at = "write" /\ checks[p].state.failed = Never
       THEN checks[p].state.checked = checks[p].now /\ checks[p].state.verified # NoRelease
       ELSE Records(checks[p].state)

Remembered ==
  /\ Records(cache)
  /\ \A p \in Checkers : checks[p].at \in {"resolve", "write"} => Carried(p)

CheckInv == CheckTypes /\ LockOwner /\ Remembered

-----------------------------------------------------------------------------
\* What a command has read and found stays of its type when it goes on.
LEMMA GoesOn ==
  ASSUME NEW x \in Runs, NEW a \in {"idle", "lock", "resolve", "write", "done"}
  PROVE  /\ \A t \in 0..MaxClock : [x EXCEPT !.at = a, !.now = t] \in Runs
         /\ \A n \in 0..LastRelease :
              /\ [x EXCEPT !.at = a, !.notice = n] \in Runs
              /\ \A c \in Caches : [x EXCEPT !.at = a, !.state = c, !.notice = n] \in Runs
BY DEF Runs

LEMMA Rests == NotChecking \in Runs /\ NoCache \in Caches
<1>1. NoCache \in Caches
  BY BoundsAssumption DEF NoCache, Caches, Times, NoRelease
<1> QED BY <1>1, BoundsAssumption DEF NotChecking, Runs, NoRelease

LEMMA StartStep == ASSUME CheckInv, NEW p \in Checkers, StartCheck(p) PROVE CheckInv'
<1> USE BoundsAssumption, NobodyAssumption DEF CheckInv, StartCheck, Never, NoRelease
<1>1. CheckTypes'
  <2>1. [NotChecking EXCEPT !.at = "lock", !.now = clock] \in Runs
    BY GoesOn, Rests DEF CheckTypes
  <2> QED BY <2>1 DEF CheckTypes
<1>2. LockOwner'
  BY DEF CheckTypes, Runs, LockOwner, NotChecking
<1>3. Remembered'
  BY DEF CheckTypes, Runs, Caches, Times, LockOwner, Remembered, Carried, Records, NotChecking
<1> QED BY <1>1, <1>2, <1>3

LEMMA LockBusyStep == ASSUME CheckInv, NEW p \in Checkers, LockBusy(p) PROVE CheckInv'
<1> USE BoundsAssumption, NobodyAssumption DEF CheckInv, LockBusy, Busy, Done, Never, NoRelease
<1>1. CheckTypes'
  <2>1. [checks[p] EXCEPT !.at = "done", !.notice = NoRelease] \in Runs
    <3>1. checks[p] \in Runs /\ NoRelease \in 0..LastRelease
      BY DEF CheckTypes
    <3> HIDE DEF NoRelease
    <3> QED BY <3>1, GoesOn
  <2>2. checks' = [checks EXCEPT ![p] = [checks[p] EXCEPT !.at = "done", !.notice = NoRelease]]
    BY DEF CheckTypes
  <2>3. checks' \in [Checkers -> Runs]
    BY <2>1, <2>2 DEF CheckTypes
  <2> QED BY <2>3 DEF CheckTypes
<1>2. LockOwner'
  BY DEF CheckTypes, Runs, LockOwner
<1>3. Remembered'
  BY DEF CheckTypes, Runs, Caches, Times, LockOwner, Remembered, Carried, Records
<1> QED BY <1>1, <1>2, <1>3

LEMMA LockStep == ASSUME CheckInv, NEW p \in Checkers, Lock(p) PROVE CheckInv'
<1> USE BoundsAssumption, NobodyAssumption
    DEF CheckInv, Lock, Done, Notice, Fresh, Within, Never, NoRelease
<1>1. CheckTypes'
  BY DEF CheckTypes, Runs, Caches, Times
<1>2. LockOwner'
  BY DEF CheckTypes, Runs, LockOwner
<1>3. Remembered'
  BY DEF CheckTypes, Runs, Caches, Times, LockOwner, Remembered, Carried, Records
<1> QED BY <1>1, <1>2, <1>3

LEMMA ResolveFailsStep == ASSUME CheckInv, NEW p \in Checkers, ResolveFails(p) PROVE CheckInv'
<1> USE BoundsAssumption, NobodyAssumption DEF CheckInv, ResolveFails, FailedState, Never, NoRelease
<1>1. CheckTypes'
  BY ZenonT(60) DEF CheckTypes, Runs, Caches, Times
<1>2. LockOwner'
  BY DEF CheckTypes, Runs, LockOwner
<1>3. Remembered'
  BY DEF CheckTypes, Runs, Caches, Times, LockOwner, Remembered, Carried, Records
<1> QED BY <1>1, <1>2, <1>3

LEMMA ResolveStep == ASSUME CheckInv, NEW p \in Checkers, ResolveLatest(p) PROVE CheckInv'
<1> USE BoundsAssumption, NobodyAssumption
    DEF CheckInv, ResolveLatest, RolledBack, FailedState, Notice, Never, NoRelease
<1>1. CheckTypes'
  <2>1. /\ [checks[p].state EXCEPT !.failed = checks[p].now] \in Caches
        /\ [checked |-> checks[p].now, failed |-> Never, verified |-> served] \in Caches
    BY SMTT(30) DEF CheckTypes, Runs, Caches, Times
  <2> DEFINE c == IF RolledBack(served, checks[p].state) THEN FailedState(p)
                  ELSE [checked |-> checks[p].now, failed |-> Never, verified |-> served]
             n == IF RolledBack(served, checks[p].state) THEN NoRelease ELSE Notice(served)
  <2>2. c \in Caches /\ n \in 0..LastRelease
    BY <2>1 DEF CheckTypes
  <2>3. [checks[p] EXCEPT !.at = "write", !.state = c, !.notice = n] \in Runs
    BY <2>2, GoesOn DEF CheckTypes
  <2>4. checks' = [checks EXCEPT ![p] = [checks[p] EXCEPT !.at = "write", !.state = c, !.notice = n]]
    BY DEF CheckTypes
  <2>5. checks' \in [Checkers -> Runs]
    BY <2>3, <2>4 DEF CheckTypes
  <2> QED BY <2>5 DEF CheckTypes
<1>2. LockOwner'
  BY DEF CheckTypes, Runs, LockOwner
<1>3. Remembered'
  <2>1. Carried(p) /\ Records(cache) /\ checks[p].at = "resolve" /\ checks[p].now \in 0..MaxClock
    BY DEF CheckTypes, Runs, Remembered
  <2>2. checks'[p].at = "write" /\ checks'[p].now = checks[p].now /\ UNCHANGED <<cache, checked>>
    BY DEF CheckTypes, Runs
  <2>3. Carried(p)'
    <3>1. CASE RolledBack(served, checks[p].state)
      <4>1. /\ checks'[p].state = [checks[p].state EXCEPT !.failed = checks[p].now]
            /\ checks[p].state \in Caches
        BY <3>1 DEF CheckTypes, Runs
      <4>2. /\ checks'[p].state.verified = checks[p].state.verified
            /\ checks'[p].state.checked = checks[p].state.checked
            /\ checks'[p].state.failed # -1
        BY <2>1, <4>1 DEF Caches
      <4> QED BY <2>1, <2>2, <4>2 DEF Carried, Records
    <3>2. CASE served >= checks[p].state.verified
      <4>1. checks'[p].state = [checked |-> checks[p].now, failed |-> -1, verified |-> served]
        BY <3>2 DEF CheckTypes, Runs, Caches
      <4>2. served >= cache.verified /\ served # 0
        BY <2>1, <3>2 DEF Carried, CheckTypes, Runs, Caches
      <4> QED BY <2>2, <4>1, <4>2 DEF Carried
    <3> QED BY <3>1, <3>2 DEF CheckTypes, Runs, Caches
  <2>4. \A q \in Checkers : q # p => checks'[q].at \notin {"resolve", "write"}
    <3>1. \A q \in Checkers : q # p => checks'[q] = checks[q]
      BY DEF CheckTypes
    <3> QED BY <2>1, <3>1 DEF LockOwner
  <2>5. Records(cache)'
    BY <2>1, <2>2 DEF Records
  <2> HIDE DEF CheckInv, ResolveLatest
  <2> QED BY <2>3, <2>4, <2>5 DEF Remembered
<1> QED BY <1>1, <1>2, <1>3

LEMMA WriteCacheStep == ASSUME CheckInv, NEW p \in Checkers, WriteCache(p) PROVE CheckInv'
<1> USE BoundsAssumption, NobodyAssumption DEF CheckInv, WriteCache, Done, Never, NoRelease
<1>1. CheckTypes'
  BY ZenonT(60) DEF CheckTypes, Runs, Caches, Times
<1>2. LockOwner'
  BY DEF CheckTypes, Runs, LockOwner
<1>3. Remembered'
  BY DEF CheckTypes, Runs, Caches, Times, LockOwner, Remembered, Carried, Records
<1> QED BY <1>1, <1>2, <1>3

LEMMA WriteFailsStep == ASSUME CheckInv, NEW p \in Checkers, WriteFails(p) PROVE CheckInv'
<1> USE BoundsAssumption, NobodyAssumption DEF CheckInv, WriteFails, Done, Unlock, Never, NoRelease
<1>1. CheckTypes'
  <2>1. [checks[p] EXCEPT !.at = "done", !.notice = NoRelease] \in Runs
    <3>1. checks[p] \in Runs /\ NoRelease \in 0..LastRelease
      BY DEF CheckTypes
    <3> HIDE DEF NoRelease
    <3> QED BY <3>1, GoesOn
  <2>2. checks' = [checks EXCEPT ![p] = [checks[p] EXCEPT !.at = "done", !.notice = NoRelease]]
    BY DEF CheckTypes
  <2>3. checks' \in [Checkers -> Runs]
    BY <2>1, <2>2 DEF CheckTypes
  <2> QED BY <2>3 DEF CheckTypes
<1>2. LockOwner'
  BY DEF CheckTypes, Runs, LockOwner
<1>3. Remembered'
  BY DEF CheckTypes, Runs, Caches, Times, LockOwner, Remembered, Carried, Records
<1> QED BY <1>1, <1>2, <1>3

LEMMA KillStep == ASSUME CheckInv, NEW p \in Checkers, KillCheck(p) PROVE CheckInv'
<1> USE BoundsAssumption, NobodyAssumption
    DEF CheckInv, KillCheck, NotChecking, NoCache, Never, NoRelease
<1>1. CheckTypes'
  BY DEF CheckTypes, Runs, Caches, Times
<1>2. LockOwner'
  BY DEF CheckTypes, Runs, LockOwner
<1>3. Remembered'
  BY DEF CheckTypes, Runs, Caches, Times, LockOwner, Remembered, Carried, Records
<1> QED BY <1>1, <1>2, <1>3

LEMMA TickStep == ASSUME CheckInv, Tick PROVE CheckInv'
<1> USE BoundsAssumption, NobodyAssumption DEF CheckInv, Tick, Never, NoRelease
<1>1. CheckTypes'
  BY DEF CheckTypes, Runs, Caches, Times
<1>2. LockOwner'
  BY DEF CheckTypes, Runs, LockOwner
<1>3. Remembered'
  BY DEF CheckTypes, Runs, Caches, Times, LockOwner, Remembered, Carried, Records
<1> QED BY <1>1, <1>2, <1>3

LEMMA SetClockBackStep == ASSUME CheckInv, SetClockBack PROVE CheckInv'
<1> USE BoundsAssumption, NobodyAssumption DEF CheckInv, SetClockBack, Never, NoRelease
<1>1. CheckTypes'
  BY DEF CheckTypes, Runs, Caches, Times
<1>2. LockOwner'
  BY DEF CheckTypes, Runs, LockOwner
<1>3. Remembered'
  BY DEF CheckTypes, Runs, Caches, Times, LockOwner, Remembered, Carried, Records
<1> QED BY <1>1, <1>2, <1>3

LEMMA LoseCacheStep == ASSUME CheckInv, LoseCache PROVE CheckInv'
<1> USE BoundsAssumption, NobodyAssumption DEF CheckInv, LoseCache, NoCache, Never, NoRelease
<1>1. CheckTypes'
  BY DEF CheckTypes, Runs, Caches, Times
<1>2. LockOwner'
  BY DEF CheckTypes, Runs, LockOwner
<1>3. Remembered'
  BY DEF CheckTypes, Runs, Caches, Times, LockOwner, Remembered, Carried, Records
<1> QED BY <1>1, <1>2, <1>3

LEMMA ReleaseStep == ASSUME CheckInv, Release PROVE CheckInv'
<1> USE BoundsAssumption, NobodyAssumption DEF CheckInv, Release, Never, NoRelease
<1>1. CheckTypes'
  BY DEF CheckTypes, Runs, Caches, Times
<1>2. LockOwner'
  BY DEF CheckTypes, Runs, LockOwner
<1>3. Remembered'
  BY DEF CheckTypes, Runs, Caches, Times, LockOwner, Remembered, Carried, Records
<1> QED BY <1>1, <1>2, <1>3

LEMMA ServeOlderStep == ASSUME CheckInv, ServeOlder PROVE CheckInv'
<1> USE BoundsAssumption, NobodyAssumption DEF CheckInv, ServeOlder, Never, NoRelease
<1>1. CheckTypes'
  BY DEF CheckTypes, Runs, Caches, Times
<1>2. LockOwner'
  BY DEF CheckTypes, Runs, LockOwner
<1>3. Remembered'
  BY DEF CheckTypes, Runs, Caches, Times, LockOwner, Remembered, Carried, Records
<1> QED BY <1>1, <1>2, <1>3

LEMMA InstallStep == ASSUME CheckInv, Install PROVE CheckInv'
<1> USE BoundsAssumption, NobodyAssumption DEF CheckInv, Install, Never, NoRelease
<1>1. CheckTypes'
  BY DEF CheckTypes, Runs, Caches, Times
<1>2. LockOwner'
  BY DEF CheckTypes, Runs, LockOwner
<1>3. Remembered'
  BY DEF CheckTypes, Runs, Caches, Times, LockOwner, Remembered, Carried, Records
<1> QED BY <1>1, <1>2, <1>3

-----------------------------------------------------------------------------
\* Nothing is known, nobody checks.
LEMMA CheckStarts == CheckInit => CheckInv
<1> SUFFICES ASSUME CheckInit PROVE CheckInv
  OBVIOUS
<1> USE BoundsAssumption, NobodyAssumption DEF CheckInit, NotChecking, NoCache, Never, NoRelease
<1>1. CheckTypes
  BY DEF CheckTypes, Runs, Caches, Times
<1>2. LockOwner /\ Remembered
  BY DEF LockOwner, Remembered, Records
<1> QED BY <1>1, <1>2 DEF CheckInv

\* No step of a command or of the world breaks the invariant.
LEMMA CheckKept == CheckInv /\ [CheckNext]_checkVars => CheckInv'
<1> SUFFICES ASSUME CheckInv, [CheckNext]_checkVars PROVE CheckInv'
  OBVIOUS
<1>1. CASE UNCHANGED checkVars
  BY <1>1 DEF checkVars, CheckInv, CheckTypes, LockOwner, Remembered, Carried, Records
<1> QED BY <1>1, StartStep, LockBusyStep, LockStep, ResolveFailsStep, ResolveStep, WriteCacheStep,
           WriteFailsStep, KillStep, TickStep, SetClockBackStep, LoseCacheStep, ReleaseStep,
           ServeOlderStep, InstallStep DEF CheckNext

\* The file holds the mark its writer has read, or a newer one.
LEMMA MarkStep ==
  ASSUME CheckInv, [CheckNext]_checkVars
  PROVE  cache'.verified < cache.verified => cache' = NoCache
<1>1. ASSUME NEW p \in Checkers, WriteCache(p) PROVE cache'.verified >= cache.verified
  BY <1>1 DEF CheckInv, Remembered, Carried, WriteCache
<1>2. CASE LoseCache
  BY <1>2 DEF LoseCache
<1>3. CASE UNCHANGED cache
  BY <1>3 DEF CheckInv, CheckTypes, Caches
<1>4. (\E p \in Checkers : WriteCache(p)) \/ LoseCache \/ UNCHANGED cache
  BY DEF CheckNext, checkVars, StartCheck, LockBusy, Lock, ResolveFails, ResolveLatest, WriteFails, KillCheck, Tick,
      SetClockBack, Release, ServeOlder, Install
<1>5. cache.verified \in Int /\ cache'.verified \in Int
  BY CheckKept DEF CheckInv, CheckTypes, Caches
<1> QED BY <1>1, <1>2, <1>3, <1>4, <1>5

\* Who goes to the network has read the time of the last check.
LEMMA AskStep ==
  ASSUME CheckInv, [CheckNext]_checkVars, NEW p \in Checkers, Asks(p), JustChecked
  PROVE  checks[p].now < checked \/ checks[p].now > clock
<1>1. Lock(p)
  <2> USE DEF Asks, CheckInv, CheckTypes, Runs
  <2>1. ASSUME NEW q \in Checkers, StartCheck(q) \/ LockBusy(q) \/ ResolveFails(q) \/ ResolveLatest(q)
        PROVE  FALSE
    BY <2>1 DEF StartCheck, LockBusy, Done, ResolveFails, ResolveLatest, NotChecking
  <2>2. ASSUME NEW q \in Checkers, WriteCache(q) \/ WriteFails(q) \/ KillCheck(q)
        PROVE  FALSE
    BY <2>2 DEF WriteCache, WriteFails, Done, KillCheck, NotChecking
  <2>3. ASSUME NEW q \in Checkers, Lock(q)
        PROVE  q = p
    BY <2>3 DEF Lock, Done
  <2>4. checks' # checks
    OBVIOUS
  <2>5. ~(Tick \/ SetClockBack \/ LoseCache \/ Release \/ ServeOlder \/ Install \/ UNCHANGED checkVars)
    BY <2>4 DEF checkVars, Tick, SetClockBack, LoseCache, Release, ServeOlder, Install
  <2> QED BY <2>1, <2>2, <2>3, <2>5 DEF CheckNext
<1>2. ~Fresh(cache, checks[p].now)
  BY <1>1 DEF Asks, Lock, Done, CheckInv, CheckTypes, Runs
<1>3. checks[p].now - checked \notin 0..(autoCheckInterval - 1)
  BY <1>2 DEF Fresh, Within, JustChecked, CheckInv, Remembered, Records
<1> QED BY <1>3, IntervalAssumption, BoundsAssumption
        DEF JustChecked, CheckInv, CheckTypes, Runs, Times, Never

\* Whoever is between reading the cache and writing it holds the lock, and the
\* highest version that was verified is not taken back as long as there is a
\* cache, whatever the clock does (AutoCheck, acquireCacheLock, writeCache).
THEOREM CacheKept == CheckSpec => CacheIsKept
<1>1. CheckInv => CheckTypeOK /\ LockOwner
  BY DEF CheckInv, CheckTypes, Runs, Caches, Times, CheckTypeOK
<1>2. CheckInv /\ [CheckNext]_checkVars =>
        [cache'.verified < cache.verified => cache' = NoCache]_checkVars
  BY MarkStep
<1> QED BY CheckStarts, CheckKept, <1>1, <1>2, PTL DEF CheckSpec, CacheIsKept, HighWaterMark

\* With a successful check less than a day old nobody asks the network again,
\* except a command that read the clock before that check, or before the clock
\* was set back (AutoCheck's interval).
THEOREM AskedRarely == CheckSpec => ResolvesRarely
<1>1. CheckInv /\ [CheckNext]_checkVars =>
        [\A p \in Checkers :
           Asks(p) /\ JustChecked => checks[p].now < checked \/ checks[p].now > clock]_checkVars
  BY AskStep
<1> QED BY CheckStarts, CheckKept, <1>1, PTL DEF CheckSpec, ResolvesRarely
=============================================================================
