------------------------------- MODULE CallLine -------------------------------
(***************************************************************************)
(* ecctl call: the line's flags are sorted into ecctl's own, parameters of *)
(* the OpenAPI operation and arguments of the aliyun CLI (pkg/cli/root.go);*)
(* the command lists, describes or calls operations (pkg/cli/api.go); and  *)
(* a call of OSS becomes a command line of ossutil                         *)
(* (pkg/aliyun/ossutil_caller.go).                                         *)
(***************************************************************************)
EXTENDS CommandLine

CONSTANTS
  Catalogue,     \* of a product's code: of an operation's name: [deprecated, types], the
                 \* types of the parameters
  Spellings,     \* of an operation's name in other letter case: the name
  OSSOperations, \* of a name: [command, transfer, parameters], these a sequence of
                 \* [name, flag, type, required]
  Literals,      \* of a text that JSON reads: [type, text] of the value
  Requests,      \* of a text of --request that is a JSON object: the object
  Assignments    \* the texts that have a "="

-----------------------------------------------------------------------------
(* Operations.                                                             *)

ossUtilProduct ==
  LET Types(parameters) ==
        [n \in {parameters[i].name : i \in DOMAIN parameters} |-> parameters[CHOOSE i \in DOMAIN parameters : parameters[i].name = n].type]
  IN  [o \in DOMAIN OSSOperations |-> [deprecated |-> FALSE, types |-> Types(OSSOperations[o].parameters)]]
OpenAPIProducts == [p \in DOMAIN Catalogue \cup {"oss"} |-> IF p = "oss" THEN ossUtilProduct ELSE Catalogue[p]]

apiProductAliasCodes(code) ==
  CASE code = "ack" -> {"cs"} [] code = "lingjun" -> {"eflo", "eflo-cnp", "eflo-controller"} [] OTHER -> {}
apiProductHasCallableOperations(product) ==
  \E o \in DOMAIN OpenAPIProducts[product] : ~OpenAPIProducts[product][o].deprecated
\* The products that a name or an alias stands for.
apiProductSelectionByCode(code) ==
  LET codes == IF apiProductAliasCodes(code) # {} THEN apiProductAliasCodes(code) ELSE {code}
  IN  {p \in codes \cap DOMAIN OpenAPIProducts : apiProductHasCallableOperations(p)}

OpenAPIOperationName(product, operation) ==
  LET names == DOMAIN OpenAPIProducts[product]
  IN  IF operation \in names THEN {operation}
      ELSE {n \in names : operation \in DOMAIN Spellings /\ Spellings[operation] = n}
\* The pairs that a product's and an operation's name match: one, or an error.
resolveAPIOperation(code, operation) ==
  UNION {{<<p, n>> : n \in OpenAPIOperationName(p, operation)} : p \in apiProductSelectionByCode(code)}
deprecatedAPIOperationError(product, operation) == OpenAPIProducts[product][operation].deprecated
resolveRunnableAPIOperation(code, operation) ==
  LET matches == resolveAPIOperation(code, operation)
  IN  IF Cardinality(matches) # 1 THEN {} ELSE {m \in matches : ~deprecatedAPIOperationError(m[1], m[2])}

MutOperationItems(product) == {<<product, o>> : o \in DOMAIN OpenAPIProducts[product]}
apiProductOperationItems(product) ==
  {<<product, o>> : o \in {n \in DOMAIN OpenAPIProducts[product] : ~OpenAPIProducts[product][n].deprecated}}
apiProductSelectionOperations(products) == UNION {apiProductOperationItems(p) : p \in products}
apiProducts == {p \in DOMAIN OpenAPIProducts : apiProductHasCallableOperations(p)}

apiParameterType(code, operation, name) ==
  LET matches == resolveAPIOperation(code, operation)
      known == {m \in matches : Cardinality(matches) = 1 /\ name \in DOMAIN OpenAPIProducts[m[1]][m[2]].types}
  IN  {OpenAPIProducts[m[1]][m[2]].types[name] : m \in known}

-----------------------------------------------------------------------------
(* The flags of a line are sorted.                                         *)

apiCallAliyunCLIValueFlags ==
  {"mode", "language", "config-path", "access-key-id", "access-key-secret", "sts-token", "sts-region", "ram-role-name",
   "ram-role-arn", "source-profile", "role-session-name", "external-id", "private-key", "key-pair-name", "read-timeout",
   "connect-timeout", "retry-count", "expired-seconds", "process-command", "oidc-provider-arn", "oidc-token-file",
   "cloud-sso-sign-in-url", "cloud-sso-access-config", "cloud-sso-account-id", "oauth-site-type", "endpoint-type",
   "endpoint", "external-account-type", "auto-plugin-install", "auto-plugin-install-enable-pre", "bearer-token",
   "bearer-token-header-key", "version", "header", "body", "body-file", "accept", "output", "waiter", "cli-query",
   "method", "user-agent", "parallel", "part-size"}
apiCallAliyunCLILongFlags ==
  apiCallAliyunCLIValueFlags \cup
  {"skip-secure-verify", "secure", "force", "pager", "dryrun", "quiet", "yes", "roa", "cli-ai-mode", "no-cli-ai-mode", "help"}
apiCallAliyunCLIShortFlags == {"-p", "-e", "-o", "-q", "-y", "-h"}
Short(token) == token.flag \in apiCallAliyunCLIShortFlags
apiCallAliyunCLIFlag(token) == token.flag \in apiCallAliyunCLILongFlags \/ (Short(token) /\ Alone(token))
apiCallAliyunCLIValueFlag(token) ==
  token.flag \in apiCallAliyunCLIValueFlags \/ (token.flag \in {"-p", "-e", "-o"} /\ Alone(token))
LocalValues == {"request", "api-param", "filter", "limit", "region", "profile", "lang"}
apiCallKnownValueFlag(token) == token.flag \in LocalValues \cup apiCallAliyunCLIValueFlags
apiCallKnownFlag(token) ==
  apiCallAliyunCLIFlag(token) \/
  token.flag \in LocalValues \cup {"list", "schema", "generate-request", "json", "agent-envelope", "no-color"}
apiCallGlobalValueFlag(token) == token.flag \in {"region", "profile", "lang", "output"}

apiCallCommandIndex(line) == \* {} or the place of the word "call"
  LET Takes(token) == apiCallGlobalValueFlag(token) /\ Alone(token)
  IN  {i \in First({j \in Places(line, Takes) : IsWord(line[j])}) : line[i].text = "call"}
apiCallUsesMetadataMode(tokens) == \E i \in DOMAIN tokens : tokens[i].flag \in {"list", "schema"}

AliyunArg(token) == FlagWith("aliyun-arg", token)
Param(name, value) == [flag |-> "api-param", text |-> name, inline |-> <<value>>]
\* What a token becomes: others, the last place read for it, and the words
\* read so far, the first two of which are the product and the operation.
Became(out, to, words) == [out |-> out, to |-> to, words |-> words]
ValueNext(line, i) == Alone(line[i]) /\ i < Len(line)
WordNext(line, i) == ValueNext(line, i) /\ IsWord(line[i + 1])

normalizeAPICallOutputFlag(line, i, words) ==
  LET value == IF Alone(line[i]) THEN line[i + 1].text ELSE line[i].inline[1]
      out == IF value \in Supported THEN <<FlagWith("output", value)>>
             ELSE <<AliyunArg(Flag(line[i].flag)), AliyunArg(Word(value))>>
  IN  IF Alone(line[i]) /\ ~WordNext(line, i) THEN Became(<<Flag("output")>>, i, words)
      ELSE Became(out, IF Alone(line[i]) THEN i + 1 ELSE i, words)

\* A waiter also takes the assignments behind its value.
appendAliyunCLIExtraValues(line, i, from) ==
  IF line[i].flag # "waiter" THEN from
  ELSE CHOOSE to \in from .. Len(line) :
         /\ \A k \in from + 1 .. to : IsWord(line[k]) /\ line[k].text \in Assignments
         /\ to = Len(line) \/ ~(IsWord(line[to + 1]) /\ line[to + 1].text \in Assignments)
AliyunFlag(line, i, head, takes, words) ==
  LET to == appendAliyunCLIExtraValues(line, i, IF takes /\ ValueNext(line, i) THEN i + 1 ELSE i)
  IN  Became(head \o [k \in 1 .. to - i |-> AliyunArg(line[i + k])], to, words)
appendAliyunCLIFlagArg(token) ==
  IF Alone(token) THEN <<AliyunArg(token)>> ELSE <<AliyunArg(Flag(token.flag)), AliyunArg(Word(token.inline[1]))>>

BeforeOperation(line, i, words) ==
  LET token == line[i]
  IN  CASE apiCallAliyunCLIFlag(token) ->
             AliyunFlag(line, i, appendAliyunCLIFlagArg(token), apiCallAliyunCLIValueFlag(token), words)
        [] apiCallKnownValueFlag(token) /\ ValueNext(line, i) -> Became(<<token, line[i + 1]>>, i + 1, words)
        [] IsWord(token) -> Became(<<token>>, i, Append(words, token.text))
        [] OTHER -> Became(<<token>>, i, words)

BehindOperation(line, i, words) ==
  LET token == line[i]
      types == apiParameterType(words[1], words[2], token.flag)
  IN  CASE IsWord(token) -> Became(<<AliyunArg(token)>>, i, words)
        [] apiCallAliyunCLIFlag(token) -> AliyunFlag(line, i, <<AliyunArg(token)>>, apiCallKnownValueFlag(token), words)
        [] apiCallKnownFlag(token) ->
             IF apiCallKnownValueFlag(token) /\ ValueNext(line, i) THEN Became(<<token, line[i + 1]>>, i + 1, words)
             ELSE Became(<<token>>, i, words)
        [] token.flag = "--" \/ Short(token) -> Became(<<token>>, i, words)
        [] ~Alone(token) -> Became(<<Param(token.flag, token.inline[1])>>, i, words)
        [] WordNext(line, i) -> Became(<<Param(token.flag, line[i + 1].text)>>, i + 1, words)
        [] types \subseteq {"Boolean"} -> Became(<<Param(token.flag, "true")>>, i, words)
        [] OTHER -> Became(<<Flag("api-param"), Word(token.flag)>>, i, words)

RECURSIVE NormalizeFrom(_, _, _)
NormalizeFrom(line, i, words) ==
  LET step ==
        CASE line[i].flag \in {"output", "-o"} -> normalizeAPICallOutputFlag(line, i, words)
          [] line[i].flag \in {"help", "-h"} -> Became(<<line[i]>>, i, words)
          [] Len(words) < 2 -> BeforeOperation(line, i, words)
          [] OTHER -> BehindOperation(line, i, words)
  IN  IF i > Len(line) THEN <<>> ELSE step.out \o NormalizeFrom(line, step.to + 1, step.words)
normalizeAPICallParameterFlags(line) ==
  LET at == apiCallCommandIndex(line)
      call == CHOOSE i \in at : TRUE
      behind == SubSeq(line, call + 1, Len(line))
  IN  IF at = {} \/ apiCallUsesMetadataMode(behind) THEN line
      ELSE SubSeq(line, 1, call) \o NormalizeFrom(behind, 1, <<>>)

-----------------------------------------------------------------------------
(* The request.                                                            *)

NoRequest == [name \in {} |-> 0]
parseAPIRequestParamValue(text) == IF text \in DOMAIN Literals THEN Literals[text] ELSE [type |-> "string", text |-> text]
\* Of two values for a name the later counts.
MutMergeParams(request, params) ==
  [n \in DOMAIN request \cup {params[i].text : i \in DOMAIN params} |->
     IF n \in DOMAIN request THEN request[n]
     ELSE LET i == CHOOSE i \in DOMAIN params : params[i].text = n IN parseAPIRequestParamValue(params[i].inline[1])]
mergeAPIRequestParams(request, params) ==
  [n \in DOMAIN request \cup {params[i].text : i \in DOMAIN params} |->
     LET given == {i \in DOMAIN params : params[i].text = n}
         last == CHOOSE i \in given : \A j \in given : i >= j
     IN  IF given = {} THEN request[n] ELSE parseAPIRequestParamValue(params[last].inline[1])]
apiCallPassthroughHasFlag(args, name) ==
  \E i \in DOMAIN args : args[i].flag = name \/ (name = "profile" /\ args[i].flag = "-p")
resolveAPIRegion(options, request, args) ==
  CASE options.region # "" -> options.region
    [] options.region = "" /\ "RegionId" \in DOMAIN request -> request["RegionId"].text
    [] apiCallPassthroughHasFlag(args, "profile") \/ apiCallPassthroughHasFlag(args, "config-path") -> ""
    [] OTHER -> SettingsOf(options.profile).region

-----------------------------------------------------------------------------
(* ossutil.  A command is [command, source, destination, flags, region],   *)
(* the flags being pairs.  In a sequence of one at most, <<>> is an error. *)

Forwarded(transfer) ==
  [flag \in {"endpoint", "-e", "read-timeout", "connect-timeout", "retry-count", "user-agent"}
             \cup (IF transfer THEN {"parallel", "part-size"} ELSE {}) |->
     CASE flag = "-e" -> "endpoint" [] flag = "retry-count" -> "retry-times" [] OTHER -> flag]
RECURSIVE ossUtilPassthroughArgs(_, _)
ossUtilPassthroughArgs(args, transfer) ==
  LET flag == args[1]
      value == CASE ~Alone(flag) -> flag.inline
                 [] Alone(flag) /\ Len(args) > 1 -> IF IsWord(args[2]) THEN <<args[2].text>> ELSE <<>>
                 [] OTHER -> <<>>
      rest == ossUtilPassthroughArgs(SubSeq(args, IF Alone(flag) THEN 3 ELSE 2, Len(args)), transfer)
  IN  CASE args = <<>> -> << <<>> >>
        [] args # <<>> /\ (flag.flag \notin DOMAIN Forwarded(transfer) \/ value \in {<<>>, <<"">>}) -> <<>>
        [] OTHER -> IF rest = <<>> THEN <<>>
                    ELSE << << <<Forwarded(transfer)[flag.flag], value[1]>> >> \o rest[1] >>

\* A parameter's flags: a boolean has no value.
Encoded(parameter, request) ==
  LET value == request[parameter.name]
  IN  IF parameter.name \notin DOMAIN request THEN <<>>
      ELSE IF parameter.type = "Boolean" THEN (IF value.text = "true" THEN << <<parameter.flag, "">> >> ELSE <<>>)
      ELSE IF value.text = "" THEN <<>> ELSE << <<parameter.flag, value.text>> >>
Missing(parameter, request) ==
  /\ parameter.required
  /\ parameter.name \notin DOMAIN request \/ (parameter.type # "Boolean" /\ request[parameter.name].text = "")
Invalid(parameter, request) ==
  parameter.type = "Boolean" /\ parameter.name \in DOMAIN request /\ request[parameter.name].type # "boolean"
Command(name, source, destination, flags, region) ==
  [command |-> name, source |-> source, destination |-> destination, flags |-> flags, region |-> region]
transferCommandArgs(operation, request, forwarded, region) ==
  LET text(name) == request[name].text
      object == "oss://" \o text("Bucket") \o "/" \o text("Key")
      upload == operation.transfer = "upload"
      force == IF "Force" \in DOMAIN request /\ text("Force") = "true" THEN << <<"force", "">> >> ELSE <<>>
  IN  Command(operation.command, IF upload THEN text("File") ELSE object, IF upload THEN object ELSE text("File"),
              force \o << <<"no-progress", "">> >> \o forwarded, region)
commandArgs(name, request, args, region) ==
  LET operation == OSSOperations[name]
      parameters == operation.parameters
      transfer == operation.transfer # ""
      forwarded == ossUtilPassthroughArgs(args, transfer)
      refused == \/ DOMAIN request \ ({"RegionId"} \cup {parameters[i].name : i \in DOMAIN parameters}) # {}
                 \/ \E i \in DOMAIN parameters : Missing(parameters[i], request) \/ Invalid(parameters[i], request)
                 \/ forwarded = <<>>
  IN  CASE refused -> <<>>
        [] ~refused /\ transfer -> <<transferCommandArgs(operation, request, forwarded[1], region)>>
        [] OTHER ->
             <<Command(operation.command, "", "",
                       FlattenSeq([i \in DOMAIN parameters |-> Encoded(parameters[i], request)]) \o forwarded[1], region)>>

-----------------------------------------------------------------------------
(* The command.                                                            *)

CallValues == {"request", "api-param", "filter", "limit", "aliyun-arg"}
CallBools == {"list", "schema", "generate-request"}
ParseCallParts(line, flags, words) ==
  LET LastOr(name, default) == Given(LastOf(line, flags, name), default)
      All(name) == InOrder(line, {i \in flags : line[i].flag = name})
  IN  [words |-> Texts(InOrder(line, words)),
       valid |-> Known(line, flags, CallValues, CallBools),
       given |-> {line[i].flag : i \in flags},
       options |-> [region |-> LastOr("region", ""), profile |-> LastOr("profile", "")],
       request |-> LastOr("request", "{}"), limit |-> LastOr("limit", "1"),
       params |-> All("api-param"),
       args |-> LET all == All("aliyun-arg") IN [i \in DOMAIN all |-> all[i].inline[1]]]
ParseCall(line) ==
  LET parts == Parts(line, Places(line, LAMBDA token : TakesValue(token, CallValues)))
  IN  ParseCallParts(line, parts.flags, parts.words)

CallOutcome(is, operations, to, command) == [is |-> is, operations |-> operations, to |-> to, command |-> command]
NoCall == [product |-> "", operation |-> "", region |-> "", profile |-> "", request |-> NoRequest]
CallRefused == CallOutcome("refused", {}, NoCall, <<>>)

runAPICall(parsed) ==
  LET runnable == resolveRunnableAPIOperation(parsed.words[1], parsed.words[2])
      found == CHOOSE m \in runnable : TRUE
      request == mergeAPIRequestParams(Requests[parsed.request], parsed.params)
      region == resolveAPIRegion(parsed.options, request, parsed.args)
      command == commandArgs(found[2], request, parsed.args, region)
      refused == \/ runnable = {}
                 \/ parsed.request \notin DOMAIN Requests
                 \/ \E i \in DOMAIN parsed.params : Alone(parsed.params[i])
  IN  CASE refused -> CallRefused
        [] ~refused /\ (IF found[1] = "oss" THEN region = "" \/ command = <<>> ELSE parsed.args # <<>>) -> CallRefused
        [] OTHER -> CallOutcome("calls", {found},
                                [product |-> found[1], operation |-> found[2], region |-> region,
                                 profile |-> parsed.options.profile, request |-> request],
                                IF found[1] = "oss" THEN command ELSE <<>>)

\* --schema --generate-request: a request with what is required.
apiParameterPlaceholder(parameter) ==
  CASE parameter.type = "Boolean" -> [type |-> "boolean", text |-> "false"]
    [] parameter.type = "Integer" -> [type |-> "number", text |-> "0"]
    [] OTHER -> [type |-> "string", text |-> "<" \o parameter.name \o ">"]
apiRequestTemplate(parameters) ==
  LET required == {i \in DOMAIN parameters : parameters[i].required}
  IN  [n \in {parameters[i].name : i \in required} |->
         apiParameterPlaceholder(parameters[CHOOSE i \in required : parameters[i].name = n])]

newAPICommand(parsed) ==
  LET words == parsed.words
      list == "list" \in parsed.given
      schema == "schema" \in parsed.given
      selection == apiProductSelectionByCode(words[1])
      Lists(operations) == CallOutcome("lists", operations, NoCall, <<>>)
  IN  CASE "generate-request" \in parsed.given /\ ~schema -> CallRefused
        [] schema -> IF list \/ Len(words) # 2 \/ Cardinality(resolveAPIOperation(words[1], words[2])) # 1 THEN CallRefused
                     ELSE CallOutcome("describes", resolveAPIOperation(words[1], words[2]), NoCall, <<>>)
        [] list /\ ~schema ->
             CASE parsed.limit = "0" \/ Len(words) > 1 -> CallRefused
               [] parsed.limit # "0" /\ words = <<>> -> Lists({<<p, "">> : p \in apiProducts})
               [] OTHER -> IF Len(words) # 1 \/ selection = {} THEN CallRefused ELSE Lists(apiProductSelectionOperations(selection))
        [] OTHER -> IF Len(words) # 2 THEN CallRefused ELSE runAPICall(parsed)

RunParsedCall(line, parsed) ==
  LET output == Given(requestedFlagValue(line, "output"), "")
  IN  CASE helpRequested(line) -> CallOutcome("help", {}, NoCall, <<>>)
        [] ~helpRequested(line) /\ (output \notin Supported \cup {""} \/ explicitEmptyRegion(line) \/ ~parsed.valid) -> CallRefused
        [] OTHER -> newAPICommand(parsed)
RunCallLine(line) == RunParsedCall(line, ParseCall(InOrder(line, DOMAIN line \ apiCallCommandIndex(line))))
RunCall(args) == RunCallLine(normalizeAPICallParameterFlags(args))

-----------------------------------------------------------------------------
(* What the rest must do together.  A question says what its line asks:    *)
(* whom to call, ossutil's command, and whether it must not be refused.    *)

\* Each part of a call is in its channel, once and in order, wherever it
\* stands in the line, or the call is refused; a sound line is not.
CallKeepsAll(q, answer) ==
  /\ answer.is = "calls" => answer.to = q.to /\ answer.command = q.command
  /\ q.sound => answer.is = "calls"

\* What --list shows can be called, but for a name that two products of an
\* alias have; and what can be called is shown.  What --schema makes a
\* template of is not refused with the template.
DiscoveredIsCallable(q, answer) ==
  LET code == q.product
      Callable(p) == \E n \in DOMAIN OpenAPIProducts[p] : resolveRunnableAPIOperation(p, n) # {}
      Twice(o) == \E p \in apiProductSelectionByCode(code) \ {o[1]} : o[2] \in DOMAIN OpenAPIProducts[p]
  IN  CASE answer.is = "lists" /\ code = "" -> answer.operations = {<<p, "">> : p \in {p \in DOMAIN OpenAPIProducts : Callable(p)}}
        [] answer.is = "lists" /\ code # "" ->
             /\ \A o \in answer.operations : resolveRunnableAPIOperation(code, o[2]) = {o} \/ Twice(o)
             /\ \A p \in apiProductSelectionByCode(code) : \A n \in DOMAIN OpenAPIProducts[p] :
                  resolveRunnableAPIOperation(code, n) \subseteq answer.operations
        [] answer.is = "describes" ->
             \A o \in answer.operations : o[1] = "oss" =>
               commandArgs(o[2], apiRequestTemplate(OSSOperations[o[2]].parameters), <<>>, "r1") # <<>>
        [] OTHER -> answer.is # "calls"
==============================================================================
