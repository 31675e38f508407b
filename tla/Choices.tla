------------------------------ MODULE Choices ------------------------------
(***************************************************************************)
(* What a command decides without its line: the credential it uses, what   *)
(* it shows of what it found, for the developers' tool whether a change of *)
(* metadata is compatible, and how it collects the pages of a list, which  *)
(* others change meanwhile.  A behaviour asks one question; Decisions adds *)
(* the questions about lines and input.                                    *)
(***************************************************************************)
EXTENDS Collection

CONSTANTS
  Names, Env, Malformed, None,                          \* of CredentialChoice
  CredentialQuestions, MetadataQuestions, MetadataRequests,
  MatchQuestions, PayloadQuestions                      \* families of questions of each kind


VARIABLES about,    \* what the question is about
          question,
          answer    \* <<>> or <<the answer>>

asking == <<about, question, answer>>
paging == <<mode, all, limit, list, added, removed, page, token, asked, total, got, outcome>>
choiceVars == <<asking, paging>>

Credentials == INSTANCE CredentialChoice
Metadata == INSTANCE MetadataDiff
Output == INSTANCE ActionOutput

\* Names, places and values are told apart, a profile is of its name,
\* metadata are documents, and items are listed.
ASSUME NamesAssumption ==
  /\ IsFiniteSet(Names) /\ None \notin Names /\ Env \notin Names /\ Env # None
  /\ None \notin Credentials!Modes \cup Credentials!Codes
ASSUME CredentialAssumption ==
  \A questions \in CredentialQuestions : \A q \in questions :
    /\ q.name \in Names /\ q.env.name = Env
    /\ \A n \in Names : q.aliyun[n].source \in Names \cup {None} /\
                       (q.aliyun[n] = Credentials!NoProfile \/ q.aliyun[n].name = n)
ASSUME MetadataAssumption ==
  \A doc \in UNION {{q.base, q.candidate} : q \in UNION MetadataQuestions} : Metadata!IsDocument(doc)
ASSUME MatchAssumption ==
  \A questions \in MatchQuestions : \A q \in questions :
    q.items \in Seq(ToSet(q.items)) /\ q.wants \in Seq(ToSet(q.wants))

-----------------------------------------------------------------------------
NotReading ==
  /\ mode = "page" /\ all = FALSE /\ limit = 0 /\ list = {} /\ added = {} /\ removed = {} /\ page = 0
  /\ token = 0 /\ asked = {} /\ total = <<>> /\ got = <<>> /\ outcome = "idle"
Asks(k, families) == about = k /\ (\E questions \in families : question \in questions) /\ NotReading

ChoiceInit ==
  /\ answer = <<>>
  /\ \/ Asks("credential", CredentialQuestions)
     \/ Asks("metadata", MetadataQuestions)
     \/ Asks("match", MatchQuestions)
     \/ Asks("payload", PayloadQuestions)
     \/ about = "pages" /\ question = <<>> /\ StartReading

Reply(k, value) ==
  about = k /\ answer = <<>> /\ answer' = <<value>> /\ UNCHANGED <<about, question, paging>>

ResolveCredential == Reply("credential", Credentials!resolveOpenAPIProfile(question))
CompareMetadata == Reply("metadata", Metadata!Changes(question.base, question.candidate))
MatchItems ==
  Reply("match", Output!captureItemsMatched(question.items, question.wants, question.select.by))
ShowResult ==
  Reply("payload", Output!resourceActionPayload(question.action, question.input, question.result))
ReadPages == about = "pages" /\ ReadOn /\ UNCHANGED asking

ChoiceNext == ResolveCredential \/ CompareMetadata \/ MatchItems \/ ShowResult \/ ReadPages
ChoiceSpec == ChoiceInit /\ [][ChoiceNext]_choiceVars

-----------------------------------------------------------------------------
Answered(k) == about = k /\ answer # <<>>

\* The credential comes from where the profile says (but a profile without a
\* mode, whose own source a whole key pair replaces), and a chain of profiles
\* assumes the selected one's role or is a loop (resolveOpenAPIProfile,
\* resolveAliyunProfileCredentialWithCache).
SourceIsTheProfiles ==
  Answered("credential") =>
    /\ Credentials!StaysWithItsSource(question, answer[1])
    /\ Credentials!ChainAssumesItsRole(question, answer[1])

\* Changes of metadata that are all judged compatible keep every caller
\* working; prose alone is no change, and nothing else is left out
\* (metadataCompatibility, normalizeMetadata).
ChangesAreJudged ==
  Answered("metadata") =>
    /\ Metadata!CompatibleKeepsCallers(question.base, question.candidate, answer[1], MetadataRequests)
    /\ Metadata!OnlyProseIgnored(question.base, question.candidate, answer[1])

\* A wait for added items ends when, and only when, each is there, every
\* changed item is shown once, and nothing a probe brings along takes the place
\* of what was found (captureItemsMatched, selectOutputMatches, withResultExtra).
ResultsAreShown ==
  /\ Answered("match") =>
       /\ Output!HitIsExact(question.items, question.wants, question.select.by)
       /\ Output!ShownOnce(question.items, question.wants, question.select)
  /\ Answered("payload") => Output!ShowsWhatWasFound(question.action, question.input, question.result)

\* A list that does not change is shown whole, and --all is honest about one
\* that does (runAllProbePages, runAllTokenProbePages).
PagesAreHonest == about = "pages" => UnchangedIsWhole /\ AllIsHonest

\* "Environment credentials are consulted when no stored profile is selected,
\* when the selected ecctl profile carries no credentials, or when
\* ALIBABA_CLOUD_IGNORE_PROFILE=TRUE" (website/docs/credentials/ak.md).  It
\* does not hold of a token.
ProfileKeyStandsAlone == Answered("credential") => Credentials!ProfileKeyStandsAlone(question, answer[1])
=============================================================================
