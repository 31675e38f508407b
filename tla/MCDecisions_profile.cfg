\* The documented line with two profiles: one of the configuration, one of the cluster.
SPECIFICATION Spec
CONSTANTS
  Names = {"p", "s", "t"}
  Env = "environment"
  Malformed = "malformed"
  None = "none"
  Numbers <- NumbersDef
  Truncated <- TruncatedDef
  Items = {1, 2, 3, 4, 5}
  Unnamed = {5}
  Limits = {1, 2}
  MaxTokenPages = 4
  MaxChanges = 2
  CredentialQuestions = {}
  MetadataQuestions = {}
  MetadataRequests <- MetadataRequestsDef
  MappingQuestions = {}
  InputQuestions = {}
  ObjectQuestions = {}
  MatchQuestions = {}
  PayloadQuestions = {}
  Resources <- ResourcesDef
  ProductSpecs <- ProductSpecsDef
  Dotted <- DottedDef
  Settings <- SettingsDef
  LineQuestions <- ClusterCreateQuestions
  Catalogue <- CatalogueDef
  Spellings <- SpellingsDef
  OSSOperations <- OSSOperationsDef
  Literals <- LiteralsDef
  Requests <- RequestsDef
  Assignments <- AssignmentsDef
  CallQuestions = {}
  DiscoverQuestions = {}
CHECK_DEADLOCK FALSE
INVARIANT ProfileBeforeIsConfiguration
