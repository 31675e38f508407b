\* Every question once.  A behaviour ends with its answer.
SPECIFICATION Spec
CONSTANTS
  Names = {"p", "s", "t"}
  Env = "environment"
  Malformed = "malformed"
  None = "none"
  Numbers <- NumbersDef
  Truncated <- TruncatedDef
  Items = {1, 2, 3, 4, 5}
  Unnamed = {5}
  Limits = {1, 2}
  MaxTokenPages = 4
  MaxChanges = 2
  CredentialQuestions <- CredentialQuestionsDef
  MetadataQuestions <- MetadataQuestionsDef
  MetadataRequests <- MetadataRequestsDef
  MappingQuestions <- MappingQuestionsDef
  InputQuestions <- InputQuestionsDef
  ObjectQuestions <- ObjectQuestionsDef
  MatchQuestions <- MatchQuestionsDef
  PayloadQuestions <- PayloadQuestionsDef
  Resources <- ResourcesDef
  ProductSpecs <- ProductSpecsDef
  Dotted <- DottedDef
  Settings <- SettingsDef
  LineQuestions <- LineQuestionsDef
  Catalogue <- CatalogueDef
  Spellings <- SpellingsDef
  OSSOperations <- OSSOperationsDef
  Literals <- LiteralsDef
  Requests <- RequestsDef
  Assignments <- AssignmentsDef
  CallQuestions <- CallQuestionsDef
  DiscoverQuestions <- DiscoverQuestionsDef
CHECK_DEADLOCK FALSE
INVARIANTS SourceIsTheProfiles ChangesAreJudged RequestsSayAll  ResultsAreShown
INVARIANTS PagesAreHonest TreeIsExact SettingsAreTheProfiles CallsAreFaithful
