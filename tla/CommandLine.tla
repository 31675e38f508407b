----------------------------- MODULE CommandLine -----------------------------
(***************************************************************************)
(* From a command line to the command that runs: what pkg/cli/root.go      *)
(* reads of the line before it is parsed, the tree of commands it builds   *)
(* only where the line points, the filter of the public surface, and the   *)
(* search and parsing of cobra and pflag.                                  *)
(***************************************************************************)
EXTENDS CommandTokens, FiniteSets

CONSTANTS
  Resources,    \* the specs: [product, name, parent, aliases, global, actions]; an action
                \* is [name, aliases, flags], flags being those of its own that take a value
  ProductSpecs, \* of a product's name: [aliases, expose]
  Dotted,       \* of a word with dots: its parts
  Settings      \* of a profile's name, "" being the current one: [lang, output, region]

Top == ""       \* no parent, no resource, no action

-----------------------------------------------------------------------------
(* What is read before parsing.                                            *)

commandValueFlags ==
  {"fields", "filter", "limit", "region", "profile", "lang", "output", "request", "api-param", "mode",
   "config-path", "oauth-site-type", "expected-account-id"}
TakesCommandValue(token) == token.flag \in commandValueFlags /\ Alone(token)
PositionalPlaces(line) == {i \in Places(line, TakesCommandValue) : IsWord(line[i])}
commandPositionals(line) == Texts(InOrder(line, PositionalPlaces(line)))
isBuiltinRootCommand(name) ==
  name \in {"call", "config", "configure", "schema", "capabilities", "examples", "update", "completion",
            "__complete", "__completeNoDesc", "__update", "help"}

helpRequested(line) == \E i \in DOMAIN line : line[i] \in {Flag("help"), Flag("-h")}

\* A topic in dots becomes words, if help is the line's first word.
First(places) == {i \in places : \A j \in places : i <= j}
helpCommandArgIndex(line) == {i \in First(PositionalPlaces(line)) : line[i].text = "help"}
normalizeHelpTopicArgs(line) ==
  LET topic == {i + 1 : i \in helpCommandArgIndex(line)}
      Split(i) == IF i \in topic /\ line[i].text \in DOMAIN Dotted
                  THEN [k \in DOMAIN Dotted[line[i].text] |-> Word(Dotted[line[i].text][k])]
                  ELSE <<line[i]>>
  IN  FlattenSeq([i \in DOMAIN line |-> Split(i)])

\* <<>>, or the value of the first such flag among the given places.
ValueAt(line, i) ==
  CASE ~Alone(line[i]) -> line[i].inline[1]
    [] i < Len(line) -> Text(line[i + 1])
    [] OTHER -> ""
FirstValue(line, places) == IF places = {} THEN <<>> ELSE <<ValueAt(line, Min(places))>>
FlagPlaces(line, name) == {i \in DOMAIN line : line[i].flag = name}
requestedFlagValue(line, name) == FirstValue(line, FlagPlaces(line, name))
requestedBoolFlag(line, name) ==
  \E i \in First(FlagPlaces(line, name)) : Alone(line[i]) \/ line[i].inline[1] \notin {"false", "0"}

\* Behind the words "ack create", --profile is that command's own flag.
MutLocalProfile(line, i) == FALSE
ackCreateLocalProfileFlag(line, i) ==
  LET words == commandPositionals(SubSeq(line, 1, i - 1)) IN Len(words) >= 2 /\ SubSeq(words, 1, 2) = <<"ack", "create">>
requestedProfileFlagValue(line) ==
  FirstValue(line, {i \in FlagPlaces(line, "profile") : ~ackCreateLocalProfileFlag(line, i)})

explicitEmptyRegion(line) ==
  \E i \in FlagPlaces(line, "region") :
    ValueAt(line, i) = "" /\ \A j \in FlagPlaces(line, "region") : j < i => ~Alone(line[j])

SettingsOf(profile) == IF profile \in DOMAIN Settings THEN Settings[profile] ELSE [lang |-> "", output |-> "", region |-> ""]
Given(values, default) == IF values = <<>> THEN default ELSE values[1]
newGlobalOptions(line) ==
  LET lang == requestedFlagValue(line, "lang")
      json == requestedBoolFlag(line, "json")
      output == IF json THEN <<"json">> ELSE requestedFlagValue(line, "output")
      profile == Given(requestedProfileFlagValue(line), "")
  IN  [lang |-> IF Given(lang, "") = "" THEN SettingsOf(profile).lang ELSE lang[1],
       output |-> IF output # <<>> THEN output[1]
                  ELSE IF SettingsOf(profile).output # "" THEN SettingsOf(profile).output ELSE "json"]

-----------------------------------------------------------------------------
(* The public surface.                                                     *)

canonicalCLIProduct(name) ==
  IF name \notin DOMAIN ProductSpecs /\ \E p \in DOMAIN ProductSpecs : name \in ProductSpecs[p].aliases
  THEN CHOOSE p \in DOMAIN ProductSpecs : name \in ProductSpecs[p].aliases
  ELSE name
publicCLIProduct(product) ==
  canonicalCLIProduct(product) \in {"ack", "agentrun", "ecs", "lingjun", "rg", "sandbox", "tag", "vpc"}
HiddenResources ==
  {<<"ack", "auto-repair-policy">>, <<"ack", "diagnosis">>, <<"ack", "check-item">>, <<"ack", "operation-plan">>,
   <<"lingjun", "lni">>, <<"lingjun", "net-test">>, <<"lingjun", "node">>, <<"lingjun", "vcc">>, <<"lingjun", "vsc">>}
publicCLIResource(product, resource) ==
  publicCLIProduct(product) /\ <<canonicalCLIProduct(product), resource>> \notin HiddenResources
publicCLIResourceAction(product, resource, action) ==
  /\ publicCLIResource(product, resource)
  /\ ~(canonicalCLIProduct(product) = "lingjun" /\ resource = "eni" /\ action \in {"attach", "detach"})

ActionNames(resource) == {action.name : action \in resource.actions}
publicCLIDefaultResourceAction(product, action) ==
  /\ publicCLIResource(product, product)
  /\ \E r \in Resources :
       /\ r.product = product /\ r.parent = Top /\ (r.name = product \/ product \in r.aliases)
       /\ action \in ActionNames(r)
  /\ publicCLIResourceAction(product, product, action)

\* The resource and the action that words name: {} or one pair.
Path(resource) == IF resource.parent = Top THEN <<resource.name>> ELSE <<resource.parent, resource.name>>
publicCLIExampleResourceAction(words) ==
  LET product == canonicalCLIProduct(words[1])
      tail == Tail(words)
      Named(r, path) ==
        /\ Len(tail) >= Len(path) /\ SubSeq(tail, 1, Len(path)) = path
        /\ Len(tail) = Len(path) \/ tail[Len(path) + 1] \in ActionNames(r)
      Pair(r, path) == <<r.name, IF Len(tail) = Len(path) THEN Top ELSE tail[Len(path) + 1]>>
      surface == {r \in Resources : r.product = product}
      below == {r \in surface : r.name # product /\ Named(r, Path(r))}
      itself == {r \in surface : r.name = product /\ Named(r, <<>>)}
  IN  IF below # {} THEN {Pair(r, Path(r)) : r \in below} ELSE {Pair(r, <<>>) : r \in itself}

publicCLIResourceIdentifier(product, requested) ==
  \/ publicCLIResource(product, requested)
  \/ \E real \in {<<"ack", "cluster", "ack">>, <<"ack", "kc", "kubeconfig">>, <<"ack", "np", "nodepool">>,
                  <<"lingjun", "ng", "node-group">>} :
       real[1] = canonicalCLIProduct(product) /\ real[2] = requested /\ publicCLIResource(product, real[3])

NamedIsPublic(product, words, named) ==
  IF named # {} THEN \E n \in named : publicCLIResourceAction(product, n[1], n[2])
  ELSE publicCLIResourceIdentifier(product, words[2])
WordsArePublic(product, words) ==
  \/ isBuiltinRootCommand(product)
  \/ product \in {"ecs", "vpc"}
  \/ /\ product \in {"ack", "agentrun", "lingjun", "rg", "sandbox", "tag"}
     /\ \/ Len(words) = 1
        \/ publicCLIDefaultResourceAction(product, words[2])
        \/ /\ ~(product = "ack" /\ Len(words) >= 3 /\ words[2] \in {"kubeconfig", "kc"} /\ words[3] = "update")
           /\ NamedIsPublic(product, words, {n \in publicCLIExampleResourceAction(words) : n[2] # Top})
AskedIsPublic(words) ==
  words = <<>> \/ WordsArePublic(canonicalCLIProduct(words[1]), <<canonicalCLIProduct(words[1])>> \o Tail(words))
WithoutHelp(words) == IF Len(words) >= 2 /\ words[1] = "help" THEN Tail(words) ELSE words
publicCLICommandAllowed(line) == AskedIsPublic(WithoutHelp(commandPositionals(line)))

-----------------------------------------------------------------------------
(* The tree: a node is a command.  A stub has no actions.  A resource's    *)
(* command has a name: the resource's, or an alias.                        *)

TargetOf(words) ==
  LET From(i) == [product |-> canonicalCLIProduct(words[i]), whole |-> FALSE,
                  resource |-> IF Len(words) > i THEN words[i + 1] ELSE Top]
      nothing == [product |-> Top, resource |-> Top, whole |-> FALSE]
  IN  CASE words = <<>> -> nothing
        [] words # <<>> /\ words[1] \in {"completion", "__complete", "__completeNoDesc"} -> [nothing EXCEPT !.whole = TRUE]
        [] words # <<>> /\ words[1] = "help" /\ Len(words) >= 2 /\ ~isBuiltinRootCommand(words[2]) -> From(2)
        [] words # <<>> /\ words[1] \in {"call", "configure", "schema", "capabilities", "update", "__update", "help"} ->
             nothing
        [] OTHER -> From(1)
productCommandBuildTarget(line) == TargetOf(commandPositionals(line))
Whole == [product |-> Top, resource |-> Top, whole |-> TRUE]

Node(kind, product, parent, resource, action, built) ==
  [kind |-> kind, product |-> product, parent |-> parent, resource |-> resource, action |-> action, built |-> built, name |-> Top]
RootNode == Node("root", Top, Top, Top, Top, TRUE)
Child(names, node) == [names |-> names, node |-> node]

MutSurface(surface) == Resources
Surface(surface) == {r \in Resources : surface = "full" \/ publicCLIResource(r.product, r.name)}
addResourceActionCommands(surface, r) ==
  {Child({a.name} \cup a.aliases, Node("action", r.product, r.parent, r.name, a.name, TRUE)) :
     a \in {b \in r.actions : surface = "full" \/ publicCLIResourceAction(r.product, r.name, b.name)}}
ResourceNode(r, name, built) == [Node("resource", r.product, r.parent, r.name, Top, built) EXCEPT !.name = name]

MutTargetResource(r, target) == target.resource \in {r.name} \cup r.aliases
isTargetResource(r, target) == target.resource \in {r.name, r.parent} \cup r.aliases
BuildsAll(target) == target.whole \/ target.resource = Top
newResourceChild(r, target) ==
  Child({r.name} \cup r.aliases, ResourceNode(r, r.name, BuildsAll(target) \/ isTargetResource(r, target)))
newDefaultResourceAliasSubcommand(r, alias, target) ==
  Child({alias}, ResourceNode(r, alias, BuildsAll(target) \/ target.resource \in {alias, r.name}))

newProductCommand(surface, product, target) ==
  LET all == {r \in Surface(surface) : r.product = product}
      default == {r \in all : r.name = product}
      top == {r \in all \ default : r.parent = Top}
      exposed == {r \in default : ProductSpecs[product].expose}
      aliases == (UNION {r.aliases : r \in default}) \ ({r.name : r \in top \cup exposed} \cup {product})
  IN  UNION {addResourceActionCommands(surface, r) : r \in default}
      \cup {newResourceChild(r, target) : r \in top \cup exposed}
      \cup {newDefaultResourceAliasSubcommand(r, alias, target) : r \in default, alias \in aliases}
newResourceCommand(surface, node, target) ==
  LET itself == {r \in Surface(surface) : ResourceNode(r, node.name, node.built) = node}
  IN  (IF node.built THEN UNION {addResourceActionCommands(surface, r) : r \in itself} ELSE {})
      \cup {newResourceChild(r, target) :
              r \in {s \in Surface(surface) : node.parent = Top /\ s.product = node.product /\ s.parent = node.resource}}
newProductCommands(surface, target) ==
  {Child({p} \cup ProductSpecs[p].aliases, Node("product", p, Top, Top, Top, target.whole \/ p = target.product)) :
     p \in {r.product : r \in Surface(surface)}}
Builtins == {"call", "configure", "schema", "capabilities", "examples", "update", "__update", "completion", "help"}
newRootCommand(surface, target) ==
  newProductCommands(surface, target) \cup {Child({b} \cup {"config" : c \in {b} \cap {"configure"}}, Node("builtin", Top, Top, Top, b, TRUE)) : b \in Builtins}

Children(surface, target, node) ==
  CASE node.kind = "root" -> newRootCommand(surface, target)
    [] node.kind = "product" /\ node.built -> newProductCommand(surface, node.product, target)
    [] node.kind = "resource" -> newResourceCommand(surface, node, target)
    [] OTHER -> {}

-----------------------------------------------------------------------------
(* The search and the parsing.                                             *)

GlobalValues == {"region", "profile", "lang", "output"}
GlobalBools == {"json", "agent-envelope", "no-color"}
\* While it searches, cobra takes an unknown flag to have a value.
MayTakeValue(token) == ~IsWord(token) /\ token.flag \notin GlobalBools \cup {"--"} /\ Alone(token)
WordsUntil(line, places, stop) == {i \in places : IsWord(line[i]) /\ i < stop}
SearchPlaces(line) ==
  LET places == Places(line, MayTakeValue) IN WordsUntil(line, places, Stop(line, places))
stripFlags(line) == Texts(InOrder(line, SearchPlaces(line)))
WithoutFirstWord(line) == InOrder(line, DOMAIN line \ First(SearchPlaces(line)))

RECURSIVE FindFrom(_, _, _, _)
Named(children, words) == {c \in children : words # <<>> /\ words[1] \in c.names}
Descend(surface, target, node, line, next) ==
  IF next = {} THEN [node |-> node, rest |-> line]
  ELSE FindFrom(surface, target, (CHOOSE c \in next : TRUE).node, WithoutFirstWord(line))
FindFrom(surface, target, node, line) ==
  Descend(surface, target, node, line, Named(Children(surface, target, node), stripFlags(line)))
Find(surface, target, line) == FindFrom(surface, target, RootNode, line)

ResourcesOf(node) ==
  {r \in Resources : <<r.product, r.parent, r.name>> = <<node.product, node.parent, node.resource>>}
OwnFlags(node) ==
  UNION {UNION {a.flags : a \in {b \in r.actions : b.name = node.action}} : r \in ResourcesOf(node)}
commandUsesGlobalResource(node) == node.kind = "action" /\ \E r \in ResourcesOf(node) : r.global
\* A flag of the command's own hides the global one of its name.
LastValue(line, places) == IF places = {} THEN <<>> ELSE <<ValueAt(line, Max(places))>>
LastOf(line, flags, name) == LastValue(line, {i \in flags : line[i].flag = name})
TakesValue(token, own) == token.flag \in own \cup GlobalValues /\ Alone(token)
Known(line, flags, own, bools) ==
  \A i \in flags : /\ line[i].flag \in own \cup bools \cup GlobalValues \cup GlobalBools \cup {"help", "-h"}
                   /\ TakesValue(line[i], own) => i < Len(line)
ParseParts(line, own, flags, words) ==
  [words |-> Texts(InOrder(line, words)),
   valid |-> Known(line, flags, own, {}),
   help |-> \E i \in flags : line[i].flag \in {"help", "-h"},
   json |-> \E i \in flags : line[i].flag \in {"json", "agent-envelope"} /\ line[i].inline \notin {<<"false">>, <<"0">>},
   global |-> [name \in GlobalValues |-> IF name \in own THEN <<>> ELSE LastOf(line, flags, name)],
   own |-> [name \in own |-> LastOf(line, flags, name)]]
ParseOwn(line, own) ==
  LET parts == Parts(line, Places(line, LAMBDA token : TakesValue(token, own)))
  IN  ParseParts(line, own, parts.flags, parts.words)
Parse(node, line) == ParseOwn(line, OwnFlags(node))

Outcome(is, node, options) == [is |-> is, node |-> node, advice |-> <<>>, options |-> options]
NoOptions == [profile |-> "", lang |-> "", output |-> "", words |-> <<>>, own |-> [name \in {} |-> <<>>]]
Refused == Outcome("refused", RootNode, NoOptions)
Help(node) == Outcome("help", node, NoOptions)

\* <<>>, or what to try instead: a command, or a list of the product's.
MutSuggestion(words) ==
  IF Len(words) >= 3 /\ ~isBuiltinRootCommand(words[1]) /\ ~\E r \in Resources : r.name = words[2]
  THEN <<"run", words[1], words[3]>>
  ELSE <<>>
SuggestionIn(product, action, default, requested) ==
  CASE isBuiltinRootCommand(product) \/ ~\E r \in Resources : r.product = canonicalCLIProduct(product) -> <<>>
    [] requested = {} /\ action # Top /\ (\E r \in default : action \in ActionNames(r)) -> <<"run", product, action>>
    [] requested = {} -> <<"see the resources of", product>>
    [] action # Top /\ (\A r \in requested : action \notin ActionNames(r)) -> <<"see the actions of", product>>
    [] OTHER -> <<>>
unknownCommandSuggestion(words) ==
  LET Public(name) ==
        {r \in Resources : r.name = name /\ r.product = canonicalCLIProduct(words[1]) /\ publicCLIResource(words[1], name)}
  IN  IF Len(words) < 2 THEN <<>>
      ELSE SuggestionIn(words[1], IF Len(words) >= 3 THEN words[3] ELSE Top, Public(words[1]), Public(words[2]))
CommandPath(node) ==
  SelectSeq(<<node.product, node.parent, node.name>>, LAMBDA name : name # Top)

Supported == {"json", "text"}
Options(parsed, early) ==
  [profile |-> Given(parsed.global["profile"], ""), lang |-> Given(parsed.global["lang"], early.lang),
   output |-> IF parsed.json THEN "json" ELSE Given(parsed.global["output"], early.output),
   words |-> parsed.words, own |-> parsed.own]
HelpTopic(topic) == IF topic.node.kind = "root" /\ topic.rest # <<>> THEN Refused ELSE Help(topic.node)
RunCommand(surface, target, node, options) ==
  CASE node.kind = "builtin" /\ node.action = "help" ->
         HelpTopic(Find(surface, target, [i \in DOMAIN options.words |-> Word(options.words[i])]))
    [] options.output \notin Supported -> Refused
    [] node.kind \in {"action", "builtin"} -> Outcome("runs", node, options)
    [] options.words # <<>> -> [Refused EXCEPT !.advice = unknownCommandSuggestion(CommandPath(node) \o options.words)]
    [] OTHER -> Help(node)
ExecuteParsed(surface, target, node, parsed, asksHelp, early) ==
  CASE ~asksHelp /\ ~parsed.valid -> Refused
    [] parsed.help -> Help(node)
    [] OTHER -> RunCommand(surface, target, node, Options(parsed, early))
ExecuteFound(surface, target, line, found, early) ==
  IF found.node.kind = "root" /\ stripFlags(found.rest) # <<>>
  THEN [Refused EXCEPT !.advice = unknownCommandSuggestion(commandPositionals(line))]
  ELSE ExecuteParsed(surface, target, found.node, Parse(found.node, found.rest), helpRequested(line), early)
Execute(surface, target, line, early) == ExecuteFound(surface, target, line, Find(surface, target, line), early)

RunIn(surface, line, target) ==
  LET output == Given(requestedFlagValue(line, "output"), "")
      node == Find(surface, target, line).node
  IN  CASE surface = "public" /\ ~publicCLICommandAllowed(line) -> Refused
        [] ~helpRequested(line) /\ output \notin Supported \cup {""} -> Refused
        [] ~helpRequested(line) /\ explicitEmptyRegion(line) /\ ~commandUsesGlobalResource(node) -> Refused
        [] OTHER -> Execute(surface, target, line, newGlobalOptions(line))
Run(surface, args) ==
  LET line == normalizeHelpTopicArgs(args) IN RunIn(surface, line, productCommandBuildTarget(line))
-----------------------------------------------------------------------------
(* What the rest must do together.  A question is a line without a "--",   *)
(* with words for the values of its flags.                                 *)

\* A line runs, or is refused, as if the whole tree had been built.  It is not
\* so of one that names a resource below another by the other's alias, "ack
\* diag check-item list": an alias is as good as the name elsewhere
\* (docs/design/resource-spec.md), but here the words have to name the resource
\* or its parent, and what the line gets is the help or the refusal of a
\* command with nothing in it.
ByParentsAlias(line, node) ==
  \E r \in Resources :
    r.product = node.product /\ r.name = node.parent /\ \E i \in DOMAIN line, a \in r.aliases : line[i] = Word(a)
LazyIsWhole(q, answer) ==
  LET line == normalizeHelpTopicArgs(q.line) whole == RunIn(q.surface, line, Whole)
  IN  \/ answer = whole
      \/ /\ ByParentsAlias(line, whole.node)
         /\ answer.is = "refused" \/ (answer.is = "help" /\ ~answer.node.built)

IsPublic(node) ==
  CASE node.kind \in {"root", "builtin"} -> TRUE
    [] node.kind = "product" -> publicCLIProduct(node.product)
    [] node.kind = "resource" -> publicCLIResource(node.product, node.resource)
    [] OTHER -> publicCLIResourceAction(node.product, node.resource, node.action)
\* The public surface runs every public command as the full one does, runs
\* no other, and shows no other.
IsExact(answer, full) ==
  /\ full.is = "runs" /\ IsPublic(full.node) => answer = full
  /\ answer.is = "runs" => answer = full
  /\ IsPublic(answer.node)
SurfaceIsExact(q, answer) == q.surface = "public" => IsExact(answer, Run("full", q.line))

\* A command speaks the language, and has the output, of the profile whose
\* credentials it uses, unless the line says otherwise.  There are two kinds of
\* lines of which this is not so, for what is read before parsing is then about
\* another --profile than what the parser reads, though one that the line has:
\* lines with more than one --profile, of which the first gives the settings
\* and the last the credentials; and lines that create a cluster with a
\* --profile before the words "ack create", or anywhere beside "ack cluster
\* create", where it is the cluster's.
ClustersProfile(line, i) ==
  \/ \A j \in DOMAIN line : line[j] = Word("create") => i < j
  \/ \E j \in DOMAIN line : line[j] = Word("cluster")
OtherProfiles(line, answer) ==
  LET places == FlagPlaces(line, "profile")
      other == \/ Cardinality(places) > 1
               \/ "profile" \in DOMAIN answer.options.own /\ \E i \in places : ClustersProfile(line, i)
  IN  IF other THEN {ValueAt(line, i) : i \in places} ELSE {}
SettingsAreTheProfiles(q, answer) ==
  LET Said(name) == LastValue(q.line, FlagPlaces(q.line, name))
      json == \E i \in DOMAIN q.line : q.line[i] = Flag("json")
      Speaks(settings) ==
        /\ answer.options.lang = Given(Said("lang"), settings.lang)
        /\ answer.options.output = IF json THEN "json"
                                   ELSE Given(Said("output"), IF settings.output = "" THEN "json" ELSE settings.output)
  IN  answer.is = "runs" =>
        \E profile \in {answer.options.profile} \cup OtherProfiles(q.line, answer) : Speaks(SettingsOf(profile))

\* What a refusal advises is not refused.
AdviceWorks(q, answer) ==
  LET advised == Run(q.surface, [i \in DOMAIN Tail(answer.advice) |-> Word(Tail(answer.advice)[i])])
  IN  answer.advice # <<>> => advised.is = IF answer.advice[1] = "run" THEN "runs" ELSE "help"

\* The profile given in front of a command is the one it uses.
ProfileBeforeIsConfiguration(q, answer) ==
  answer.is = "runs" /\ q.line # <<>> /\ q.line[1] = Flag("profile") =>
    answer.options.profile = ValueAt(q.line, 1)
==============================================================================
