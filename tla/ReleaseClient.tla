--------------------------- MODULE ReleaseClient ---------------------------
(***************************************************************************)
(* `ecctl update` and `ecctl update --check` (pkg/updater: install.go,     *)
(* client.go, archive.go, errors.go): which release is resolved, from      *)
(* which source its files come, and what ends up installed, while the      *)
(* project releases and the mirror copies, lags and fails (ReleaseFeed).   *)
(*                                                                         *)
(* A request has one of these outcomes, as classifyAvailability sorts      *)
(* them: the file, good or not what was published; missing (404) or down,  *)
(* both of which make the source unavailable and let the client go on to   *)
(* the next one; refused (TLS, a foreign redirect, an oversized body) and  *)
(* expired (the context ended), which do not.                              *)
(***************************************************************************)
EXTENDS ReleaseFeed

CONSTANTS Commands,     \* the update commands running on the machine
          MaxRuns       \* bound: commands started

VARIABLES installer,    \* "direct" or "homebrew" (detectInstaller)
          installed,    \* the executable: its version, and whether its bytes
                        \* are the ones that were published
          staged,       \* Casks staged in the tap
          run,          \* what each command is doing
          runs,         \* how many were started
          refused       \* a source was ever refused

clientVars == <<installer, installed, staged, run, faults, runs, refused>>
vars == <<feedVars, clientVars>>

None == "none"
Resting == [at |-> "idle"]
Killed == [at |-> "killed"]

ClientInit ==
  /\ installer \in {"direct", "homebrew"}
  /\ installed = [version |-> Base, genuine |-> TRUE]
  /\ staged = {}
  /\ run = [p \in Commands |-> Resting]
  /\ faults = 0 /\ runs = 0 /\ refused = FALSE

-----------------------------------------------------------------------------
(* Requests.                                                               *)

MutUnavailable(reply) == reply = "down" \* mutant: a missing file is no lag
Unavailable(reply) == reply \in {"missing", "down"}

\* What a file may come back as: faults of the way are bounded, what the
\* source has is not.
Faulty == IF faults < MaxFaults /\ Spare THEN {"down", "refused", "expired"} ELSE {}
MirrorHas(v) == CASE mirror[v] = "none"     -> {"missing"}
                  [] mirror[v] = "partial"  -> {"good", "missing"}
                  [] mirror[v] = "complete" -> {"good"}
                  [] OTHER                  -> {"good", "bad", "missing"}
OSS(v)    == MirrorHas(v) \cup Faulty
GitHub(v) == (IF Published(v) THEN {"good"} ELSE {"missing"}) \cup Faulty
\* The manifest and its bundle: a legacy release has none.
SignedOSS(v)    == IF requiresSignedUpdate(v) THEN OSS(v) ELSE {"missing"} \cup Faulty
SignedGitHub(v) == IF requiresSignedUpdate(v) THEN GitHub(v) ELSE {"missing"} \cup Faulty

CountFault(reply) ==
  /\ faults' = IF reply \in {"down", "refused", "expired"} THEN faults + 1 ELSE faults
  /\ refused' = (refused \/ reply = "refused")

-----------------------------------------------------------------------------
(* How a command ends, and how it goes on.                                 *)

MoveTo(p, step) == run' = [run EXCEPT ![p].at = step]
MutNextSource(p, step) == run' = [run EXCEPT ![p].at = "done", ![p].outcome = "Unavailable"] \* mutant: there is none
NextSource(p, step) == MoveTo(p, step)
\* What a command that ended has no more use for is forgotten.
Settle(p, outcome) ==
  run' = [run EXCEPT ![p] = [@ EXCEPT !.at = "done", !.outcome = outcome, !.by = "name", !.current = Base,
                                      !.force = FALSE, !.archive = None]]

\* unavailableOrIntegrityError: what a request that cannot be replaced by
\* another one makes of the command.
MutFailureOf(reply) == IF Unavailable(reply) THEN "Unavailable" ELSE reply \* mutant: the kind is lost
FailureOf(reply) == CASE Unavailable(reply)  -> "Unavailable"
                      [] reply = "expired"   -> "Timeout"
                      [] OTHER               -> "Integrity"
Fail(p, reply) == Settle(p, FailureOf(reply))

\* requiredSignedReleaseError.
SignedFailureOf(reply) == IF reply = "missing" THEN "Integrity" ELSE FailureOf(reply)

KeepMachine == UNCHANGED <<installer, installed, staged, runs>>

-----------------------------------------------------------------------------
(* Resolving the release.                                                  *)

\* newUpdateCommand, for the latest release (want is empty) or for a named
\* one.  Whether it is a check, and whether it is forced, matters from Decide
\* on and is chosen there.
Start(p, want) ==
  /\ run[p].at \in {"idle", "done"} /\ runs < MaxRuns
  /\ run' = [run EXCEPT ![p] =
       [at |-> IF want = {} \/ installer = "homebrew" THEN "pointer" ELSE "oss",
        want |-> want, got |-> IF want = {} THEN installed.version ELSE CHOOSE v \in want : TRUE,
        by |-> "name", current |-> installed.version,
        force |-> FALSE, archive |-> None, outcome |-> None]]
  /\ runs' = runs + 1
  /\ UNCHANGED <<installer, installed, staged, faults, refused, feedVars>>

\* LatestVersion: the mirror's pointer, else the release GitHub redirects
\* "latest" to.
LatestVersion(p) ==
  /\ run[p].at = "pointer"
  /\ \E reply \in {"good"} \cup Faulty :
       /\ CountFault(reply)
       /\ IF reply = "good" THEN run' = [run EXCEPT ![p].at = "oss", ![p].got = pointer, ![p].by = "pointer"]
          ELSE IF Unavailable(reply) THEN MoveTo(p, "redirect")
          ELSE Fail(p, reply)
  /\ KeepMachine /\ UNCHANGED feedVars

resolveLatestGitHubReleaseVersion(p) ==
  /\ run[p].at = "redirect"
  /\ \E reply \in {"good"} \cup Faulty :
       /\ CountFault(reply)
       /\ IF reply = "good"
          THEN run' = [run EXCEPT ![p].at = "github", ![p].got = latest, ![p].by = "redirect"]
          ELSE Fail(p, reply)
  /\ KeepMachine /\ UNCHANGED feedVars

\* parseSignedRelease: only a manifest that is signed and says the version
\* asked for resolves it.
Resolve(p, v) == run' = [run EXCEPT ![p].at = "resolved", ![p].got = v, ![p].by = "name"]

resolveOSSRelease(p) ==
  /\ run[p].at = "oss"
  /\ \E reply \in SignedOSS(run[p].got) :
       /\ CountFault(reply)
       /\ IF reply = "good" THEN Resolve(p, run[p].got)
          ELSE IF Unavailable(reply) THEN NextSource(p, "github")
          ELSE Fail(p, reply)
  /\ KeepMachine /\ UNCHANGED feedVars

\* A release that must be signed is not looked for any further; of a legacy
\* one the API has the digests.
resolveGitHubSignedRelease(p) ==
  /\ run[p].at = "github"
  /\ \E reply \in SignedGitHub(run[p].got) :
       /\ CountFault(reply)
       /\ IF reply = "good" THEN Resolve(p, run[p].got)
          ELSE IF reply = "expired" THEN Fail(p, reply)
          ELSE IF requiresSignedUpdate(run[p].got) THEN Settle(p, SignedFailureOf(reply))
          ELSE IF ~Unavailable(reply) /\ run[p].by # "redirect" THEN Fail(p, reply)
          ELSE MoveTo(p, "api")
  /\ KeepMachine /\ UNCHANGED feedVars

\* resolveRelease: the release of that tag, or the latest one when the
\* pointer led here; then the pointer must agree with it.
resolveRelease(p) ==
  LET v == IF run[p].by = "pointer" THEN latest ELSE run[p].got
  IN /\ run[p].at = "api"
     /\ \E reply \in GitHub(v) :
          /\ CountFault(reply)
          /\ IF reply # "good" THEN Fail(p, reply)
             ELSE IF CompareVersions(run[p].got, v) < 0 THEN Settle(p, "Unavailable")
             ELSE IF CompareVersions(run[p].got, v) > 0 THEN Settle(p, "Integrity")
             ELSE Resolve(p, v)
     /\ KeepMachine /\ UNCHANGED feedVars

-----------------------------------------------------------------------------
(* What of it is there, and what is to be done.                            *)

\* verifyReleaseAssetBytes: size and digest of the descriptor.
MutVerifyReleaseAssetBytes(reply) == reply \in {"good", "bad"} \* mutant: not compared
verifyReleaseAssetBytes(reply) == reply = "good"

\* From here on it does not matter whether a release was asked for by name.
Found(p) == run' = [run EXCEPT ![p].at = "decide", ![p].want = {}]

\* Homebrew installs the latest release only.  The archive is looked for in
\* the mirror, with the checksums there, else at GitHub.
validateArtifact(p) ==
  /\ run[p].at = "resolved"
  /\ IF installer = "homebrew" /\ run[p].want \notin {{}, {run[p].got}}
     THEN Settle(p, "InvalidTarget") /\ UNCHANGED <<faults, refused>>
     ELSE \E reply \in OSS(run[p].got) :
            /\ CountFault(reply)
            /\ IF verifyReleaseAssetBytes(reply) THEN Found(p)
               ELSE IF Unavailable(reply) THEN NextSource(p, "probe")
               ELSE Fail(p, reply)
  /\ KeepMachine /\ UNCHANGED feedVars

\* Homebrew itself downloads from the mirror: GitHub does not help it.
probeGitHub(p) ==
  /\ run[p].at = "probe"
  /\ \E reply \in GitHub(run[p].got) :
       /\ CountFault(reply)
       /\ IF reply # "good" THEN Fail(p, reply)
          ELSE IF installer = "homebrew" THEN Settle(p, "Unavailable")
          ELSE Found(p)
  /\ KeepMachine /\ UNCHANGED feedVars

\* The rest of checkResolved and Update: a release without Cask cannot be
\* installed with Homebrew (a signed one has it, of a legacy one nobody
\* knows); an older one takes --force, and so does the same one.
NeedsForce(p) == CompareVersions(run[p].got, run[p].current) <= 0
Decide(p, checkOnly, force, hasCask) ==
  /\ run[p].at = "decide"
  /\ ~(checkOnly /\ force)
  /\ requiresSignedUpdate(run[p].got) => hasCask
  /\ IF installer = "homebrew" /\ ~hasCask THEN Settle(p, "Integrity")
     ELSE IF checkOnly THEN Settle(p, "checked")
     ELSE IF NeedsForce(p) /\ ~force
       THEN Settle(p, IF run[p].got = run[p].current THEN "current" ELSE "InvalidTarget")
     ELSE run' = [run EXCEPT ![p].at = IF installer = "homebrew" THEN "cask" ELSE "download",
                             ![p].force = force]
  /\ KeepMachine /\ UNCHANGED <<faults, refused, feedVars>>

-----------------------------------------------------------------------------
(* Direct installation.                                                    *)

HaveArchive(p, reply) == run' = [run EXCEPT ![p].at = "replace", ![p].archive = reply]

downloadOSSArtifact(p) ==
  /\ run[p].at = "download"
  /\ \E reply \in OSS(run[p].got) :
       /\ CountFault(reply)
       /\ IF verifyReleaseAssetBytes(reply) THEN HaveArchive(p, reply)
          ELSE IF Unavailable(reply) THEN NextSource(p, "fallback")
          ELSE Fail(p, reply)
  /\ KeepMachine /\ UNCHANGED feedVars

downloadArtifact(p) ==
  /\ run[p].at = "fallback"
  /\ \E reply \in GitHub(run[p].got) :
       /\ CountFault(reply)
       /\ IF verifyReleaseAssetBytes(reply) THEN HaveArchive(p, reply) ELSE Fail(p, reply)
  /\ KeepMachine /\ UNCHANGED feedVars

\* replaceExecutable, as UnixUpdate has it in detail: the executable is
\* still the one the command started as, or nothing is installed.  A disk
\* error or another update under way fails it too.
MutStillCurrent(p) == TRUE \* mutant: the executable is not asked again
StillCurrent(p) == installed.version = run[p].current
replaceExecutable(p) ==
  /\ run[p].at = "replace"
  /\ \/ /\ StillCurrent(p)
        /\ installed' = [version |-> run[p].got, genuine |-> run[p].archive = "good"]
        /\ Settle(p, "updated")
     \/ /\ Settle(p, "Installation")
        /\ UNCHANGED installed
  /\ UNCHANGED <<installer, staged, runs, faults, refused, feedVars>>

-----------------------------------------------------------------------------
(* Homebrew installation: updateWithHomebrew.                              *)

\* The Cask comes from GitHub; its bytes and its text are checked, and they
\* are staged inside the tap, where Homebrew takes them from.
stageCask(p) ==
  /\ run[p].at = "cask"
  /\ \E reply \in GitHub(run[p].got) :
       /\ CountFault(reply)
       /\ \/ verifyReleaseAssetBytes(reply) /\ MoveTo(p, "brew") /\ staged' = staged \cup {p}
          \/ verifyReleaseAssetBytes(reply) /\ Settle(p, "Installation") /\ UNCHANGED staged
          \/ ~verifyReleaseAssetBytes(reply) /\ Fail(p, reply) /\ UNCHANGED staged
  /\ UNCHANGED <<installer, installed, runs, feedVars>>

\* brew upgrade, or reinstall, downloads the archive from the mirror and
\* compares it with the Cask; what was staged is removed whatever happens.
MutRemoveStaged(p) == staged \* mutant: the staging directory stays
removeStaged(p) == staged \ {p}
brew(p) ==
  /\ run[p].at = "brew"
  /\ \/ /\ "good" \in OSS(run[p].got)
        /\ installed' = [version |-> run[p].got, genuine |-> TRUE]
        /\ Settle(p, "updated")
     \/ /\ Settle(p, "Installation")
        /\ UNCHANGED installed
  /\ staged' = removeStaged(p)
  /\ UNCHANGED <<installer, runs, faults, refused, feedVars>>

-----------------------------------------------------------------------------
\* Something else installs a newer release: another command, the installer.
\* A command looks at the executable when it starts and when it replaces it,
\* so that is when it matters; bound: beforehand, only between two releases and
\* while nothing has failed.
InstalledMeanwhile(v) ==
  /\ \/ runs < MaxRuns /\ job = Idle /\ failures + damage = 0
     \/ \E p \in Commands : run[p].at = "replace"
  /\ Published(v) /\ CompareVersions(v, installed.version) > 0
  /\ installed' = [version |-> v, genuine |-> TRUE]
  /\ UNCHANGED <<installer, staged, run, runs, faults, refused, feedVars>>

\* The command is killed, and what it staged stays: nobody starts again
\* under its name.
Over == {"idle", "done", "killed"}
Kill(p) ==
  /\ run[p].at \notin Over
  /\ run' = [run EXCEPT ![p] = Killed]
  /\ KeepMachine /\ UNCHANGED <<faults, refused, feedVars>>

ClientStep(p) ==
  \/ \E want \in {{}} \cup {{v} : v \in Versions} : Start(p, want)
  \/ LatestVersion(p) \/ resolveLatestGitHubReleaseVersion(p)
  \/ resolveOSSRelease(p) \/ resolveGitHubSignedRelease(p) \/ resolveRelease(p)
  \/ validateArtifact(p) \/ probeGitHub(p)
  \/ \E checkOnly, force, hasCask \in BOOLEAN : Decide(p, checkOnly, force, hasCask)
  \/ downloadOSSArtifact(p) \/ downloadArtifact(p) \/ replaceExecutable(p)
  \/ stageCask(p) \/ brew(p)
  \/ Kill(p)

\* Bound: once the last command has ended, the feed need not go on.
Watched == runs < MaxRuns \/ \E p \in Commands : run[p].at \notin Over

Init == FeedInit /\ ClientInit
Next ==
  \/ FeedNext /\ Watched /\ UNCHANGED clientVars
  \/ \E v \in Versions : InstalledMeanwhile(v)
  \/ \E p \in Commands : ClientStep(p)
Spec == Init /\ [][Next]_vars

-----------------------------------------------------------------------------
(* Properties.                                                             *)

Outcomes == {None, "checked", "current", "updated", "Unavailable", "Integrity", "Timeout",
             "InvalidTarget", "Installation"}

TypeOK ==
  /\ tags \subseteq Versions /\ {head, latest, tapCask, pointer} \subseteq Versions
  /\ github \in [Versions -> {"absent", "draft", "complete", "published"}]
  /\ mirror \in [Versions -> {"none", "partial", "complete", "damaged"}]
  /\ installed.version \in Versions /\ staged \subseteq Commands
  /\ \A p \in Commands : run[p].at \notin {"idle", "killed"} => run[p].outcome \in Outcomes

\* The executable is always, bit for bit, one that was published: whatever
\* the mirror lost or garbled, whichever source the files came from.
OnlyPublishedInstalled == installed.genuine /\ Published(installed.version)

\* Nobody is accused of tampering who only lags behind: while nothing was
\* garbled, set back or refused, a command that ends with UpdateIntegrityFailed
\* named a release, and at that moment the release was not published.  One
\* exception: Homebrew cannot install a legacy release without a Cask, and the
\* client calls that UpdateIntegrityFailed too, published or not.
LagIsNoTampering ==
  [][\A p \in Commands :
       run[p].at # "done" /\ run'[p].at = "done" /\ run'[p].outcome = "Integrity"
         /\ damage = 0 /\ ~refused' =>
         \/ run'[p].want = {run'[p].got} /\ ~Published(run'[p].got)
         \/ /\ run[p].at = "decide" /\ installer = "homebrew"
            /\ ~requiresSignedUpdate(run[p].got)]_vars

\* A mirror that lags, or has lost files, does not keep a direct installation
\* from a signed release: as long as every request gets its answer the
\* update does not end as unavailable.
LagIsNoOutage ==
  \A p \in Commands :
    run[p].at = "done" /\ run[p].outcome = "Unavailable" /\ faults = 0 /\ installer = "direct" =>
      ~requiresSignedUpdate(run[p].got)

\* An update that was not forced does not take the machine back to an older
\* version, though another command updated it meanwhile (direct installation).
OlderOnlyByForce ==
  [][installer = "direct" /\ CompareVersions(installed'.version, installed.version) < 0 =>
       \E p \in Commands : run[p].at = "replace" /\ run[p].force]_vars

\* A command that ended, well or badly, left no Cask in the tap.
NothingStaged == \A p \in Commands : run[p].at = "done" => p \notin staged

\* Releases are tagged in the order in which the client compares them, though
\* the release tool has a comparison of its own and failed releases are
\* taken up again later.
TagsAdvance ==
  [][\A v \in tags' \ tags : \A t \in tags : CompareVersions(v, t) > 0]_vars

\* The tap never goes back to an older Cask, in whatever order releases fail
\* and are recovered.
TapAdvances == [][CompareVersions(tapCask', tapCask) >= 0]_vars

\* What is installed was published whole, and no Cask is left behind.
InstallsThePublished == TypeOK /\ OnlyPublishedInstalled /\ NothingStaged

\* A mirror that lags is neither an attack nor an outage (resolveRelease,
\* validateArtifact, downloadArtifact), with the exception LagIsNoTampering
\* names.
LagIsHarmless == LagIsNoTampering /\ []LagIsNoOutage

\* Neither a machine, nor the tags, nor the tap go back (Decide, the release
\* workflow's guards).
NothingGoesBack == OlderOnlyByForce /\ TagsAdvance /\ TapAdvances
=============================================================================
