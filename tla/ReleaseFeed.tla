---------------------------- MODULE ReleaseFeed ----------------------------
(***************************************************************************)
(* How a release comes about: the release workflow                         *)
(* (.github/workflows/release.yml) with the checks of cmd/releaseprep, the *)
(* immutable releases of GitHub and the OSS mirror, which copies them when *)
(* the workflow's webhook asks it to.                                      *)
(*                                                                         *)
(* The workflow runs in a concurrency group, one run at a time, but a run  *)
(* may fail at every step and be recovered later, when other releases have *)
(* overtaken it.  The mirror is a service outside the repository: it       *)
(* copies a release file by file, moves its pointer before or after the    *)
(* files, may lose or garble what it has, and may step back.               *)
(***************************************************************************)
EXTENDS Versions, FiniteSets

CONSTANTS Releases,      \* the versions the project may release
          Base,          \* the legacy release that is out at the start
          MaxFailures,   \* bound: runs of the workflow that fail
          MaxDamage,     \* bound: files garbled, pointers set back
          MaxFaults,     \* bound: requests that go wrong on their way
          MaxTrouble     \* bound: all three together

VARIABLES head,      \* version.txt on the main branch
          tags,      \* the versions tagged
          github,    \* state of each version's GitHub release
          latest,    \* the release GitHub calls the latest
          job,       \* the run of the workflow
          failures,  \* how many runs have failed
          tapCask,   \* the version in the tap's Cask
          mirror,    \* what the mirror has of each version
          asked,     \* the versions the mirror was asked for
          pointer,   \* version.txt of the mirror
          damage,    \* how often the mirror was damaged
          faults     \* how many requests of a client went wrong

repoVars == <<head, tags, github, latest, job, failures, tapCask>>
mirrorVars == <<mirror, asked, pointer, damage>>
feedVars == <<repoVars, mirrorVars>>

Spare == failures + damage + faults < MaxTrouble

Versions == Releases \cup {Base}
\* What the project releases are versions both algorithms accept.
ReleasesWellFormed == Versions \subseteq WellFormed
ASSUME ReleasesAssumption == ReleasesWellFormed

Idle == [at |-> "idle"]
Stable(v) == ~isPrereleaseVersion(v)
Published(v) == github[v] = "published"

FeedInit ==
  /\ head = Base /\ tags = {Base} /\ latest = Base /\ tapCask = Base /\ pointer = Base
  /\ github = [v \in Versions |-> IF v = Base THEN "published" ELSE "absent"]
  /\ mirror = [v \in Versions |-> IF v = Base THEN "complete" ELSE "none"]
  /\ job = Idle /\ failures = 0 /\ asked = {Base} /\ damage = 0

-----------------------------------------------------------------------------
(* The checks of the release tool.                                         *)

\* New releases must have a signed manifest.
signedUpdateV2Required(v) == ~CompareSemVersion(v, firstSignedUpdate)

\* The version is newer than every one of these: it may equal a tag of its
\* own, left by a run that failed.
MutCheckReleaseVersion(v, released) == TRUE \* mutant: no advancement check
checkReleaseVersion(v, released) == \A t \in released \ {v} : CompareSemVersion(t, v)

\* A stable release replaces the tap's Cask by a newer one; a prerelease
\* leaves the Cask alone.
MutCheckHomebrewCaskVersion(v) == TRUE \* mutant: the tap is not consulted
checkHomebrewCaskVersion(v) == Stable(v) => CompareSemVersion(tapCask, v)

-----------------------------------------------------------------------------
(* The workflow.                                                           *)

\* A push of a newer version.txt to main, or a manual run for what is there.
StartRelease(v) ==
  /\ job = Idle
  /\ v = head \/ CompareSemVersion(head, v)
  /\ head' = v
  /\ IF /\ signedUpdateV2Required(v) /\ checkReleaseVersion(v, tags)
        /\ ~Published(v) /\ checkHomebrewCaskVersion(v)
     THEN job' = [at |-> "tag", version |-> v, recovery |-> FALSE]
     ELSE job' = Idle
  /\ UNCHANGED <<tags, github, latest, failures, tapCask, mirrorVars>>

\* A push that takes version.txt back: its run fails, a manual one may follow.
RevertVersion(v) ==
  /\ job = Idle /\ failures < MaxFailures /\ Spare
  /\ CompareSemVersion(v, head)
  /\ head' = v /\ failures' = failures + 1
  /\ UNCHANGED <<tags, github, latest, job, tapCask, mirrorVars>>

\* A manual run with recovery_tag: a draft is resumed, a published release
\* only announced again, and a stable one only while it is the latest.
ResumeRelease(v) ==
  /\ job = Idle /\ v \in tags
  /\ \/ /\ ~Published(v) /\ checkHomebrewCaskVersion(v)
        /\ job' = [at |-> "tag", version |-> v, recovery |-> TRUE]
     \/ /\ Published(v) /\ (Stable(v) => latest = v)
        /\ job' = [at |-> "notify", version |-> v, recovery |-> TRUE]
  /\ UNCHANGED <<head, tags, github, latest, failures, tapCask, mirrorVars>>

At(step) == job.at = step
Proceed(step) == job' = [job EXCEPT !.at = step]

\* A recovery must find its draft.
TagRelease ==
  /\ At("tag")
  /\ job.recovery => github[job.version] \in {"draft", "complete"}
  /\ tags' = tags \cup {job.version}
  /\ Proceed("draft")
  /\ UNCHANGED <<head, github, latest, failures, tapCask, mirrorVars>>

BuildDraft ==
  /\ At("draft")
  /\ github' = [github EXCEPT ![job.version] = "draft"]
  /\ Proceed("manifest")
  /\ UNCHANGED <<head, tags, latest, failures, tapCask, mirrorVars>>

\* The Cask, the manifest and its signature are added.
AttachManifest ==
  /\ At("manifest")
  /\ github' = [github EXCEPT ![job.version] = "complete"]
  /\ Proceed("publish")
  /\ UNCHANGED <<head, tags, latest, failures, tapCask, mirrorVars>>

\* From here on GitHub keeps the release as it is.
PublishDraft ==
  /\ At("publish") /\ github[job.version] = "complete"
  /\ github' = [github EXCEPT ![job.version] = "published"]
  /\ latest' = IF Stable(job.version) THEN job.version ELSE latest
  /\ Proceed("notify")
  /\ UNCHANGED <<head, tags, failures, tapCask, mirrorVars>>

Notify ==
  /\ At("notify")
  /\ asked' = asked \cup {job.version}
  /\ Proceed("wait")
  /\ UNCHANGED <<head, tags, github, latest, failures, tapCask, mirror, pointer, damage>>

\* The mirror is compared with GitHub, then the tap gets the Cask.
MirrorVerified(v) == mirror[v] = "complete" /\ (Stable(v) => pointer = v)
UpdateTap ==
  /\ At("wait") /\ MirrorVerified(job.version)
  /\ tapCask' = IF Stable(job.version) THEN job.version ELSE tapCask
  /\ job' = Idle
  /\ UNCHANGED <<head, tags, github, latest, failures, mirrorVars>>

\* A step of the workflow fails, or its runner is lost.
JobFails ==
  /\ job # Idle /\ failures < MaxFailures /\ Spare
  /\ job' = Idle /\ failures' = failures + 1
  /\ UNCHANGED <<head, tags, github, latest, tapCask, mirrorVars>>

-----------------------------------------------------------------------------
(* The mirror.                                                             *)

MirrorCopies(v) ==
  /\ v \in asked /\ mirror[v] \in {"none", "partial"}
  /\ mirror' = [mirror EXCEPT ![v] = IF @ = "none" THEN "partial" ELSE "complete"]
  /\ UNCHANGED <<asked, pointer, damage, repoVars>>

MirrorPoints(v) ==
  /\ v \in asked /\ Stable(v) /\ CompareVersions(v, pointer) > 0
  /\ pointer' = v
  /\ UNCHANGED <<asked, mirror, damage, repoVars>>

MirrorGarbles(v) ==
  /\ mirror[v] \in {"partial", "complete"} /\ damage < MaxDamage /\ Spare
  /\ mirror' = [mirror EXCEPT ![v] = "damaged"]
  /\ damage' = damage + 1
  /\ UNCHANGED <<asked, pointer, repoVars>>

MirrorStepsBack(v) ==
  /\ v \in asked /\ Stable(v) /\ CompareVersions(v, pointer) < 0 /\ damage < MaxDamage /\ Spare
  /\ pointer' = v /\ damage' = damage + 1
  /\ UNCHANGED <<asked, mirror, repoVars>>

FeedNext ==
  \/ \E v \in Versions : StartRelease(v) \/ RevertVersion(v) \/ ResumeRelease(v)
  \/ TagRelease \/ BuildDraft \/ AttachManifest \/ PublishDraft \/ Notify \/ UpdateTap
  \/ JobFails
  \/ \E v \in Versions :
       MirrorCopies(v) \/ MirrorPoints(v) \/ MirrorGarbles(v) \/ MirrorStepsBack(v)
=============================================================================
