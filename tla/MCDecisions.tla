----------------------------- MODULE MCDecisions -----------------------------
(* The questions that TLC asks of Decisions.  A family is a set of them.   *)
EXTENDS Decisions, FiniteSets

UpTo1(S) == {<<>>} \cup {<<a>> : a \in S}
UpTo2(S) == UpTo1(S) \cup {<<a, b>> : a \in S, b \in S}
NumbersDef == [n \in {"0", "1", "101"} |-> CASE n = "0" -> 0 [] n = "1" -> 1 [] n = "101" -> 101]
TruncatedDef == [n \in {"1.5"} |-> "1"]

-----------------------------------------------------------------------------
(* Credentials: p is selected, s and t are there for chains.               *)

C == INSTANCE CredentialChoice
Accounts == {"a1", "a2"}
Pair == {"access_key_id", "access_key_secret"}
Role == {"ram_role_arn"}
OIDCFields == {"oidc_provider_arn", "oidc_token_file"} \cup Role
ProfileOf(n, m, has) == C!Place(n, m, has, "a1", None)
Sources(n) ==
  {ProfileOf(n, m, has) : m \in {None, "AK", "StsToken", "RamRoleArn"},
                             has \in {{}, Pair, Pair \cup {"sts_token"}, Pair \cup Role, {"access_key_id"}}}
    \cup {ProfileOf(n, m, has) : m \in {None, "OIDC"}, has \in {OIDCFields, OIDCFields \ Role}}
    \cup {ProfileOf(n, None, {f}) : f \in C!OwnFields}
    \cup {ProfileOf(n, m, {}) : m \in (C!Modes \ {"ChainableRamRoleArn"}) \cup {"Unheard"}}
    \cup {C!NoProfile}
\* Environments; an aliased one sets the other spelling of two variables.
Environment(has, aliased) ==
  [name |-> Env, m |-> None, has |-> has, account |-> "a2", source |-> None, aliased |-> aliased]
Environments ==
  {Environment(has, {}) : has \in {{}, Pair, Pair \cup Role, Pair \cup {"sts_token"}, {"access_key_id"}, {"sts_token"},
     {"access_key_secret", "sts_token"}, OIDCFields, {"oidc_token_file"}, {"ram_role_name"}, {"credentials_uri"}, {"bearer_token"}, Role}}
  \cup {Environment(Pair \cup has, has) : has \in {{"sts_token"}, Role}}
Asked(flags, name, ecctl, aliyun, env) ==
  [ignore |-> flags.ignore, explicit |-> flags.explicit, current |-> flags.current, native |-> flags.native,
   disabled |-> flags.disabled, name |-> name, ecctl |-> ecctl, aliyun |-> aliyun, env |-> env]
Flags == [ignore : BOOLEAN, explicit : BOOLEAN, current : BOOLEAN, native : {FALSE}, disabled : BOOLEAN]
OnlyP(profile) == [n \in Names |-> IF n = "p" THEN profile ELSE C!NoProfile]
Selections == {
  {Asked(f, "p", C!NoProfile, OnlyP(profile), env) : f \in Flags, profile \in Sources("p"), env \in Environments},
  {Asked(f, "p", ProfileOf("p", None, has), OnlyP(profile), env) :
         f \in {f \in Flags : f.explicit /\ ~f.current /\ ~f.disabled}, has \in SUBSET C!KeyFields,
         profile \in {C!NoProfile, ProfileOf("p", "External", {}), ProfileOf("p", None, {"sts_token"})}, env \in Environments},
  {Asked([f EXCEPT !.native = TRUE], "p", ProfileOf("p", None, has), OnlyP(ProfileOf("p", "AK", Pair)), env) :
         f \in {f \in Flags : f.current /\ ~f.disabled}, has \in {{}, {"oauth_site_type"}}, env \in Environments}}
Links(n) ==
  {C!Place(n, "ChainableRamRoleArn", has, account, source) :
     has \in {{}, Role}, account \in Accounts \cup {Malformed}, source \in Names \cup {None}}
Ends(n) == {C!NoProfile, ProfileOf(n, "AK", Pair), ProfileOf(n, "RamRoleArn", Pair \cup Role), ProfileOf(n, "AK", {}), ProfileOf(n, "EcsRamRole", {})}
Chains ==
  {Asked([ignore |-> FALSE, explicit |-> TRUE, current |-> FALSE, native |-> FALSE, disabled |-> FALSE], "p", C!NoProfile,
         [n \in Names |-> CASE n = "p" -> p [] n = "s" -> s [] n = "t" -> t], env) :
     p \in Links("p"), s \in Ends("s") \cup {l \in Links("s") : l.account # "a2"},
     t \in Ends("t") \cup {l \in Links("t") : l.account = "a2" /\ l.has = Role},
     env \in {Environment({}, {}), Environment(Pair, {}), Environment(Role, {})}}
CredentialQuestionsDef == Selections \cup {Chains}

-----------------------------------------------------------------------------
(* Metadata: a parameter A that may have an enum and a nested x, a         *)
(* parameter B or "title", and a response.                                 *)

D == INSTANCE MetadataDiff
Join(f, g) == [p \in DOMAIN f \cup DOMAIN g |-> IF p \in DOMAIN f THEN f[p] ELSE g[p]]
Flag(b) == {IF b THEN "true" ELSE "false"}
ParameterDoc(path, type, required) ==
  [p \in {path, path \o <<"type">>, path \o <<"required">>} |->
    IF p = path THEN D!IsMap ELSE IF p = path \o <<"type">> THEN {type} ELSE Flag(required)]
Leafs(path, value) == [p \in {path} |-> value]
Nothing == [p \in {} |-> {}]
Top == Leafs(<<"parameters">>, D!IsMap)
Nested(path, presence) ==
  IF presence = "none" THEN Nothing
  ELSE Join(Leafs(path \o <<"fields">>, D!IsMap), ParameterDoc(path \o <<"fields", "x">>, "string", presence = "required"))
ADocs ==
  {Join(Join(ParameterDoc(<<"parameters", "A">>, type, required), enum), Nested(<<"parameters", "A">>, nested)) :
     type \in {"string", "integer"}, required \in BOOLEAN, nested \in {"none", "optional", "required"},
     enum \in {Nothing} \cup {Leafs(<<"parameters", "A", "enum">>, e) : e \in {{"1"}, {"1", "2"}}}}
BDocs == {Nothing} \cup {ParameterDoc(<<"parameters", n>>, "string", required) : n \in {"B", "title"}, required \in BOOLEAN}
Prose(path) == Leafs(path \o <<"description">>, {"words"})
Responses ==
  {Join(Leafs(<<"responses">>, D!IsMap), Join(Leafs(<<"responses", "id">>, D!IsMap), Leafs(<<"responses", "id", "type">>, {t}))) :
     t \in {"string", "integer"}}
  \cup {Leafs(<<"responses">>, D!IsMap)}
ParameterDocs == {Join(Top, Join(a, b)) : a \in {a \in ADocs : a[<<"parameters", "A", "type">>] = {"string"}}, b \in BDocs}
TitleDoc == Join(Top, ParameterDoc(<<"parameters", "title">>, "string", FALSE))
OtherDocs ==
  {Join(Top, a) : a \in ADocs}
  \cup {Join(d, r) : d \in {Top, TitleDoc, Join(TitleDoc, Prose(<<"parameters", "title">>))},
                     r \in Responses \cup {Join(r, Prose(<<"responses">>)) : r \in Responses}}
  \cup {D!NoDocument, Join(Top, Leafs(<<"method">>, {"get"})), Join(Top, Leafs(<<"method">>, {"post"}))}
MetadataQuestionsDef ==
  {{[base |-> b, candidate |-> c] : b \in ParameterDocs, c \in ParameterDocs},
   {[base |-> b, candidate |-> c] : b \in OtherDocs, c \in OtherDocs}}
Values(values) == {[value |-> v, type |-> "string"] : v \in values}
MetadataRequestsDef ==
  UNION {[{<<"parameters", "A">>} \cup b \cup x -> Values({"1", "2"})] :
           b \in {{}, {<<"parameters", "B">>}, {<<"parameters", "title">>}}, x \in {{}, {<<"parameters", "A", "fields", "x">>}}}
  \cup {Nothing} \cup [{<<"parameters", "B">>} -> Values({"1"})]

-----------------------------------------------------------------------------
(* Requests: the changes of lists of entries, with raw parameters, in one  *)
(* request or two.                                                         *)

R == INSTANCE RequestMapping
F(name, node) == [name |-> name, node |-> node]
LeafNode(name, f) == F(name, R!Node("expr", R!Expr("field", f), <<>>))
EachNode(name, e, fields, capture) == F(name, [R!Node("each", e, fields) EXCEPT !.capture = capture])
RawNode == F("ApiParam", R!Node("raw", R!Expr("field", "api_param"), <<>>))
Signs(fn, sign, other) == [fn |-> fn, field |-> "changes", other |-> other, sign |-> sign]
Step(fields, when, requireFields, requireInputs) ==
  [fields |-> fields, when |-> when, requireFields |-> requireFields, requireInputs |-> requireInputs, requireAll |-> {}]
Cond(test, not, e) == [not |-> not, test |-> test, expr |-> e, sign |-> ""]
Has(e) == {{Cond("has", FALSE, e)}}
AddNode == EachNode("Add", Signs("prefixed_objects", "+", "cidr"), <<LeafNode("Cidr", "cidr"), LeafNode("Note", "note")>>, "added")
RemoveNode == EachNode("Remove", Signs("prefixed_objects", "-", "cidr"), <<LeafNode("Cidr", "cidr")>>, "removed")
OneRequest == <<Step(<<RawNode, LeafNode("Name", "name"), AddNode, RemoveNode>>, {}, {"Name", "Add", "Remove"}, {"api_param"})>>
TwoRequests ==
  <<Step(<<LeafNode("Name", "name"), AddNode>>, Has(Signs("prefixed_objects", "+", "cidr")), {}, {}),
    Step(<<RawNode, RemoveNode>>, Has(Signs("prefixed_objects", "-", "cidr")), {}, {})>>
TextRequests ==
  <<Step(<<LeafNode("Name", "name"), RawNode, EachNode("Add", Signs("prefixed", "+", "cidr"), <<>>, "")>>, {}, {"Name", "Add"}, {}),
    Step(<<EachNode("Remove", Signs("prefixed", "-", "cidr"), <<>>, "")>>, Has(Signs("prefixed", "-", "cidr")), {}, {})>>
NamedRequests == [TwoRequests EXCEPT ![1].requireAll = {"Name", "Add"}]
Raws == UpTo2({R!Text("", k, "raw") : k \in {<<"Name">>, <<"Add", "1", "Cidr">>, <<"Other">>, R!NoKey}})
\* Entries with each sign and with none, and keys of which some have no field.
Keys == {R!NoKey, <<"cidr">>, <<"note">>, <<"other">>}
ChangesOf(v) == {R!Text(sign, key, v) : sign \in {"+", "-", ""}, key \in Keys}
ChangeLists == UpTo1(ChangesOf("a")) \cup {<<a, b>> : a \in ChangesOf("a"), b \in {b \in ChangesOf("b") : b.key # <<"note">>}}
Mappings(steps, keys) ==
  {[steps |-> steps, sides |-> [s \in {"+", "-"} |-> IF s = "+" THEN "Add" ELSE "Remove"], keys |-> keys,
    input |-> [name |-> name, changes |-> R!Texts(changes), api_param |-> R!Texts(raw)]] :
     name \in {R!NoValue, R!One(R!Plain("n"))}, changes \in ChangeLists, raw \in Raws}
MappingQuestionsDef ==
  {Mappings(steps, [s \in {"+", "-"} |-> {"cidr"} \cup IF s = "+" THEN {"note"} ELSE {}]) :
     steps \in {OneRequest, TwoRequests, NamedRequests}}
  \cup {Mappings(TextRequests, [s \in {"+", "-"} |-> {"cidr", "note", "other"}])}

-----------------------------------------------------------------------------
(* Inputs: a list with filters and rules; an update as of an ENI           *)
(* (specs/ecs/eni.yaml, specs/ecs/instance.yaml) and one as of a Lingjun   *)
(* ER (specs/lingjun/er.yaml), whose changes ask for no sign.              *)

I == INSTANCE ActionInput
ListParams ==
  <<[I!Param("ids", "ids") EXCEPT !.control = TRUE], [I!Param("status", "text") EXCEPT !.enum = {"Up", "Down"}],
    I!Param("tag", "texts"), [I!Param("limit", "integer") EXCEPT !.control = TRUE, !.max = {100}]>>
ListFilters ==
  {I!Filter(<<"status">>, FALSE, "status", "text"), I!Filter(<<"id">>, FALSE, "ids", "list"),
   I!Filter(<<"limit">>, FALSE, "limit", "integer"), I!Filter(<<"name">>, FALSE, "name", "text"),
   I!Filter(<<"tag">>, TRUE, "tag", "key_value")}
GivenFilters ==
  {R!Text("", <<"status">>, v) : v \in {"Up", "Old", ""}}
  \cup {R!Text("", <<"tag", "k">>, "x"), R!Text("", <<"tag">>, "y"), R!Text("", <<"id">>, "c"),
        R!Text("", <<"limit">>, "1"), R!Text("", <<"name">>, "n"), R!Text("", R!NoKey, "z")}
Rules ==
  {[requireAny |-> {}, conflicts |-> {}, requireWhen |-> {}],
   [requireAny |-> {"ids", "name"}, conflicts |-> {[any |-> {"name"}, with |-> {"ids"}]},
    requireWhen |-> {[when |-> {"tag"}, any |-> {"status"}]}]}
ListQuestions ==
  {[params |-> ListParams, positionals |-> <<>>, args |-> args, files |-> Nothing,
    flags |-> [ids |-> ids, status |-> status, tag |-> tag, limit |-> size], filters |-> ListFilters, given |-> given,
    requireAny |-> rules.requireAny, conflicts |-> rules.conflicts, requireWhen |-> rules.requireWhen,
    update |-> FALSE, steps |-> <<>>] :
     args \in UpTo1({R!Plain("b")}), ids \in UpTo1({R!Plain("a"), R!Text("[", R!NoKey, "a")}),
     status \in UpTo1({R!Plain("Up"), R!Plain("")}), tag \in UpTo1({R!Text("", <<"k">>, "v")}),
     size \in UpTo1({R!Plain("0"), R!Plain("101"), R!Plain("1")}), given \in UpTo2(GivenFilters), rules \in Rules}

UpdateParams(style) ==
  <<I!Param("name", "text"), [I!Param("role", "text") EXCEPT !.allowEmpty = TRUE],
    [I!Param("text", "text") EXCEPT !.use = "@file"], [I!Param("changes", "list") EXCEPT !.use = style],
    [I!Param("api_param", "texts") EXCEPT !.control = TRUE]>>
HasField(f) == Has(R!Expr("field", f))
RoleGiven == Cond("specified", FALSE, R!Expr("field", "role"))
UpdateSteps(fn) ==
  <<Step(<<LeafNode("Name", "name"), LeafNode("Text", "text"), RawNode>>, HasField("name") \cup HasField("text"), {}, {}),
    Step(<<EachNode("Add", Signs(fn, "+", "instance"), <<>>, ""), RawNode>>, Has(Signs(fn, "+", "instance")), {}, {}),
    Step(<<EachNode("Remove", Signs(fn, "-", "instance"), <<>>, "")>>, Has(Signs(fn, "-", "instance")), {}, {}),
    Step(<<LeafNode("Role", "role")>>, {{RoleGiven, Cond("has", FALSE, R!Expr("field", "role"))}}, {}, {}),
    Step(<<LeafNode("Id", "id")>>, {{RoleGiven, Cond("has", TRUE, R!Expr("field", "role"))}}, {}, {})>>
UpdateQuestions(style, fn, requireAny) ==
  {[params |-> UpdateParams(style), positionals |-> <<"id">>, args |-> <<R!Plain("i")>>, files |-> [f \in {"f"} |-> R!Plain("t")],
    flags |-> [name |-> name, role |-> role, text |-> text, changes |-> changes, api_param |-> raw],
    filters |-> {}, given |-> <<>>, requireAny |-> requireAny, conflicts |-> {}, requireWhen |-> {},
    update |-> TRUE, steps |-> UpdateSteps(fn)] :
     name \in UpTo2({R!Plain("n"), R!Plain("")}), role \in UpTo1({R!Plain("r"), R!Plain("")}),
     text \in UpTo1({R!Plain("t"), R!Text("@", R!NoKey, "f"), R!Text("@", R!NoKey, "g")}),
     changes \in UpTo2({R!Text("+", R!NoKey, "a"), R!Text("-", R!NoKey, "b"), R!Plain("c"), R!Text("+", R!NoKey, "")}),
     raw \in UpTo1({R!Text("", <<"Other">>, "o"), R!Text("", <<"Name">>, "o")})}
InputQuestionsDef ==
  {ListQuestions, UpdateQuestions("+value|-value", "prefixed", {}),
   UpdateQuestions("", "prefixed_objects", {"name", "text", "changes"})}

-----------------------------------------------------------------------------
(* Objects given as flags.                                                 *)

O == INSTANCE ObjectInput
Child(type, enum) == [O!Schema(type, Nothing) EXCEPT !.enum = enum]
Shallow == [size |-> Child("integer", {}), kind |-> Child("string", {"a", "1"}), on |-> Child("boolean", {}), rate |-> Child("number", {})]
Deep == [size |-> Child("integer", {}), kind |-> O!Schema("object", [size |-> Child("integer", {})])]
Schemas ==
  {[O!Schema("object", fields) EXCEPT !.required = required, !.style = style] :
     fields \in {Shallow, Deep, Nothing}, required \in {{}, {"size"}}, style \in {"", "json|@file"}}
Entries ==
  {O!Entry(name, dashed, O!Token("string", text)) :
     name \in {"size", "kind", "on", "rate", "other"}, dashed \in BOOLEAN, text \in {"", "a", "1", "1.5", "true"}}
ObjectQuestionsDef ==
  {{[schema |-> schema, entries |-> entries] : schema \in Schemas,
     entries \in {e \in UpTo2(Entries) : Len(e) = 2 => e[1].name # e[2].name}}}

-----------------------------------------------------------------------------
(* What was found and what was sent; results to show.                      *)

A == INSTANCE ActionOutput
Found == {[port |-> p, cidr |-> c] : p \in {"1", "2"}, c \in {"x", "y"}}
Wanted == Found \cup {[port |-> "1", cidr |-> ""], [port |-> "", cidr |-> ""]} \cup {[cidr |-> c] : c \in {"x"}}
Selects ==
  {[from |-> "item", match |-> "wanted", by |-> by, fields |-> {}, first |-> FALSE, single |-> "rule", many |-> "rules", fallback |-> fallback] :
     by \in {{"port", "cidr"}, {"port"}}, fallback \in BOOLEAN}
MatchQuestionsDef ==
  {{[items |-> items, wants |-> wants, select |-> select] :
     items \in UpTo2(Found) \cup [1..3 -> {i \in Found : i.cidr = "x" \/ i.port = "1"}], wants \in UpTo2(Wanted), select \in Selects}}

ItemsShown == {<<>>, <<[id |-> "i", name |-> "n"]>>}
Extras == {Nothing, [one |-> <<[id |-> "other"]>>], [capacity |-> <<[id |-> "c"]>>, many |-> <<>>]}
PayloadQuestionsDef ==
  {{[action |-> action, input |-> input,
    result |-> [A!Result(item, items, Nothing) EXCEPT !.extra = extra, !.total = count, !.actions = actions, !.dryRun = dry]] :
     action \in {"list", "create", "update", "delete", "get", "start"},
     input \in {Nothing, [id |-> "i"], [id |-> "i", name |-> "m"], [dry_run |-> "true"]},
     item \in ItemsShown, items \in ItemsShown, extra \in Extras, count \in {<<>>, <<1>>},
     actions \in {<<>>, <<"Call">>}, dry \in BOOLEAN}}

-----------------------------------------------------------------------------
(* Command lines: some of the specs, global flags in front, and a flag or  *)
(* an argument behind.                                                     *)

K == INSTANCE CommandTokens
Act(name, aliases, flags) == [name |-> name, aliases |-> aliases, flags |-> flags]
Acts(names) == {Act(n, {}, {}) : n \in names}
Spec1(product, name, parent, aliases, actions) ==
  [product |-> product, name |-> name, parent |-> parent, aliases |-> aliases, global |-> name = "region", actions |-> actions]
ResourcesDef ==
  {Spec1("ack", "ack", "", {"cluster"}, {Act("create", {}, {"name", "profile"}), Act("get", {"show"}, {}), Act("list", {}, {"limit"})}),
   Spec1("ack", "kubeconfig", "", {"kc"}, {Act("create", {}, {"cluster"})}),
   Spec1("ack", "policy", "", {}, Acts({"get"})),
   Spec1("ack", "instance", "policy", {}, Acts({"list"})),
   Spec1("ack", "diagnosis", "", {"diag"}, Acts({"get"})),
   Spec1("ack", "check-item", "diagnosis", {"items"}, Acts({"list"})),
   Spec1("ack", "region", "", {}, Acts({"list"})),
   Spec1("lingjun", "eni", "", {}, Acts({"attach", "list"})),
   Spec1("lingjun", "node-group", "", {"ng"}, Acts({"list"})),
   Spec1("lingjun", "net-test", "", {"nt"}, Acts({"list"})),
   Spec1("sandbox", "sandbox", "", {}, {Act("create", {"new"}, {"name"}), Act("list", {}, {})}),
   Spec1("sandbox", "template", "", {"tpl"}, Acts({"create"}))}
ProductSpecsDef ==
  [p \in {"ack", "lingjun", "sandbox"} |->
     [aliases |-> IF p = "sandbox" THEN {"sbx"} ELSE {}, expose |-> p = "sandbox"]]
DottedDef ==
  [w \in {"ack.policy.instance", "lingjun.net-test"} |->
     IF w = "ack.policy.instance" THEN <<"ack", "policy", "instance">> ELSE <<"lingjun", "net-test">>]
SettingsDef ==
  [p \in {"", "prod", "Default", "ack"} |->
     CASE p = "" -> [lang |-> "en", output |-> "", region |-> "r1"] [] p = "prod" -> [lang |-> "zh", output |-> "text", region |-> "r2"]
       [] p = "Default" -> [lang |-> "fr", output |-> "", region |-> ""] [] p = "ack" -> [lang |-> "", output |-> "yaml", region |-> ""]]

Paths ==
  {<<p>> \o t : p \in {"ack"}, t \in UpTo2({"list", "create", "show", "cluster", "kc", "kubeconfig", "update", "policy",
                                              "instance", "diag", "check-item", "region", "bogus"})}
  \cup {<<"ack">> \o <<p, c, a>> : p \in {"policy", "diagnosis", "diag"}, c \in {"instance", "check-item", "items"}, a \in {"list", "get"}}
  \cup {<<"ack", "kc", "update", "x">>, <<"ack", "bogus", "get", "x">>}
  \cup {<<"lingjun">> \o t : t \in UpTo2({"eni", "ng", "node-group", "nt", "net-test", "attach", "list"})}
  \cup {<<p>> \o t : p \in {"sandbox", "sbx"}, t \in UpTo2({"sandbox", "template", "tpl", "create", "new", "list"})}
  \cup {<<>>, <<"bogus", "list">>, <<"update">>, <<"ack.policy.instance">>, <<"lingjun.net-test">>}
Before ==
  {<<>>, <<K!Flag("profile"), K!Word("prod")>>, <<K!FlagWith("profile", "ack"), K!Flag("lang"), K!Word("zh")>>,
   <<K!Flag("output"), K!Word("text")>>, <<K!Flag("json"), K!Flag("output"), K!Word("text")>>}
Behind ==
  {<<>>, <<K!Flag("help")>>, <<K!Word("list")>>, <<K!Flag("name"), K!Word("ack")>>, <<K!FlagWith("region", "")>>,
   <<K!Flag("output"), K!Word("yaml")>>, <<K!Flag("profile"), K!Word("Default")>>}
AsWords(texts) == [i \in DOMAIN texts |-> K!Word(texts[i])]
Lines(before, help, behind) ==
  {[surface |-> surface, line |-> before \o AsWords(help \o path) \o behind] : surface \in {"public", "full"},
     path \in Paths}
LineQuestionsDef == {Lines(before, help, behind) : help \in {<<>>, <<"help">>}, before \in Before, behind \in Behind}
ClusterCreateQuestions ==
  {{[surface |-> "public",
     line |-> <<K!Flag("profile"), K!Word("prod"), K!Word("ack"), K!Word("create"), K!Flag("profile"), K!Word(own),
                K!Flag("name"), K!Word(name)>>] : own \in {"Default", "Serverless"}, name \in {"n1", "n2"}}}

-----------------------------------------------------------------------------
(* Calls: global flags and flags of the CLI before and between the words,  *)
(* and parameters behind them.                                             *)

CatalogueDef ==
  LET Api(deprecated, types) == [deprecated |-> deprecated, types |-> types]
  IN  [p \in {"ecs", "cs", "eflo", "eflo-controller", "old"} |->
         CASE p = "ecs" -> [DescribeImages |-> Api(FALSE, [Size |-> "Integer", All |-> "Boolean"]), OldImages |-> Api(TRUE, Nothing)]
           [] p = "cs" -> [ListClusters |-> Api(FALSE, Nothing)]
           [] p = "eflo" -> [ListNodes |-> Api(FALSE, Nothing), GetVpd |-> Api(FALSE, Nothing), GetEni |-> Api(TRUE, Nothing)]
           [] p = "eflo-controller" -> [ListNodes |-> Api(FALSE, Nothing), GetEni |-> Api(FALSE, Nothing)]
           [] p = "old" -> [OldImages |-> Api(TRUE, Nothing)]]
SpellingsDef == [n \in {"describeimages", "listbuckets"} |-> IF n = "listbuckets" THEN "ListBuckets" ELSE "DescribeImages"]
OSSParameter(name, flag, type, required) == [name |-> name, flag |-> flag, type |-> type, required |-> required]
Bucket == OSSParameter("Bucket", "bucket", "String", TRUE)
OSSOperationsDef ==
  [n \in {"ListBuckets", "ListObjects", "PutObject"} |->
     CASE n = "ListBuckets" -> [command |-> "list-buckets", transfer |-> "", parameters |-> <<OSSParameter("Prefix", "prefix", "String", FALSE)>>]
       [] n = "ListObjects" -> [command |-> "list-objects-v2", transfer |-> "",
            parameters |-> <<Bucket, OSSParameter("FetchOwner", "fetch-owner", "Boolean", FALSE), OSSParameter("MaxKeys", "max-keys", "Integer", FALSE)>>]
       [] n = "PutObject" -> [command |-> "cp", transfer |-> "upload",
            parameters |-> <<Bucket, OSSParameter("Key", "key", "String", TRUE), OSSParameter("File", "file", "String", TRUE),
                             OSSParameter("Force", "force", "Boolean", FALSE)>>]]
LiteralsDef ==
  [t \in {"true", "false", "10"} |-> [type |-> IF t = "10" THEN "number" ELSE "boolean", text |-> t]]
RequestsDef == [t \in {"{}", "MaxKeys"} |-> IF t = "{}" THEN Nothing ELSE [MaxKeys |-> [type |-> "number", text |-> "20"]]]
AssignmentsDef == {"expr=x", "to=y"}

\* A part of a call: its tokens, and what it asks.
Part(tokens) == [tokens |-> tokens, param |-> <<>>, pair |-> <<>>, region |-> "", profile |-> "", sound |-> TRUE]
Pairs(flag, value, tokens) == [Part(tokens) EXCEPT !.pair = << <<flag, value>> >>]
Params1(name, value, tokens) == [Part(tokens) EXCEPT !.param = << <<name, value>> >>]
Globals ==
  {[Part(<<K!Flag("region"), K!Word("r3")>>) EXCEPT !.region = "r3"], [Part(<<K!FlagWith("profile", "prod")>>) EXCEPT !.profile = "prod"],
   Part(<<K!Flag("output"), K!Word("json")>>), Part(<<K!Flag("json")>>)}
Clis ==
  {Pairs("endpoint", "e1", <<K!Flag("endpoint"), K!Word("e1")>>), Pairs("endpoint", "e2", <<K!FlagWith("endpoint", "e2")>>),
   Pairs("endpoint", "e3", <<K!Flag("-e"), K!Word("e3")>>), Pairs("retry-times", "10", <<K!Flag("retry-count"), K!Word("10")>>)}
Unsound(part) == [part EXCEPT !.sound = FALSE]
Unsounds ==
  {Unsound(Part(tokens)) : tokens \in
     {<<K!Flag("waiter"), K!Word("expr=x"), K!Word("to=y")>>, <<K!Flag("-o"), K!Word("cols=ID")>>, <<K!Flag("force")>>,
      <<K!Flag("output"), K!Flag("json")>>, <<K!Flag("user-agent"), K!Flag("x")>>}}
Meant(name) ==
  CASE name = "PutObject" ->
         {Params1("Force", "true", <<K!Flag("Force")>>), Params1("Key", "10", <<K!FlagWith("Key", "10")>>)}
    [] name = "ListObjects" ->
         {Params1("MaxKeys", "10", <<K!Flag("MaxKeys"), K!Word("10")>>), Params1("FetchOwner", "false", <<K!FlagWith("FetchOwner", "false")>>),
          Params1("FetchOwner", "true", <<K!Flag("FetchOwner")>>), Unsound(Params1("MaxKeys", "-1", <<K!Flag("MaxKeys"), K!Flag("-1")>>)),
          Params1("MaxKeys", "20", <<K!Flag("request"), K!Word("MaxKeys")>>)}
    [] name = "DescribeImages" ->
         {Params1("Size", "10", <<K!Flag("Size"), K!Word("10")>>), Params1("All", "true", <<K!Flag("All")>>),
          Params1("Other", "", <<K!FlagWith("Other", "")>>), Unsound(Params1("Size", "--All", <<K!Flag("Size"), K!Flag("All")>>))}
Required(name) ==
  CASE name = "PutObject" ->
         <<Params1("Bucket", "b", <<K!Flag("Bucket"), K!Word("b")>>), Params1("Key", "k", <<K!Flag("Key"), K!Word("k")>>),
           Params1("File", "f", <<K!FlagWith("File", "f")>>)>>
    [] name = "ListObjects" -> <<Params1("Bucket", "b", <<K!Flag("Bucket"), K!Word("b")>>)>>
    [] OTHER -> <<>>
Joined(parts, field) == K!FlattenSeq([i \in DOMAIN parts |-> parts[i][field]])
LastOf(parts, field, default) ==
  LET given == SelectSeq(parts, LAMBDA part : part[field] # "")
  IN  IF given = <<>> THEN default ELSE given[Len(given)][field]
\* What the parts ask: parameters of --request count least.
RequestOf(parts) ==
  LET OfRequest(part) == part.tokens[1] = K!Flag("request")
      params == Joined(SelectSeq(parts, OfRequest), "param") \o Joined(SelectSeq(parts, LAMBDA part : ~OfRequest(part)), "param")
      Value(n) == LET i == CHOOSE i \in DOMAIN params : params[i][1] = n /\ \A j \in i + 1 .. Len(params) : params[j][1] # n IN params[i][2]
  IN  [n \in {params[i][1] : i \in DOMAIN params} |->
         IF Value(n) \in DOMAIN LiteralsDef THEN LiteralsDef[Value(n)]
         ELSE [type |-> IF Value(n) = "20" THEN "number" ELSE "string", text |-> Value(n)]]
CommandOf(name, request, pairs, region) ==
  LET Given(n, flag) == IF n \in DOMAIN request THEN << <<flag, request[n].text>> >> ELSE <<>>
      Bare(n, flag) == IF n \in DOMAIN request /\ request[n].text = "true" THEN << <<flag, "">> >> ELSE <<>>
      Made(command, source, destination, flags) ==
        <<[command |-> command, source |-> source, destination |-> destination, flags |-> flags \o pairs, region |-> region]>>
  IN  CASE name = "PutObject" -> Made("cp", "f", "oss://b/" \o request["Key"].text, Bare("Force", "force") \o << <<"no-progress", "">> >>)
        [] name = "ListObjects" -> Made("list-objects-v2", "", "", << <<"bucket", "b">> >> \o Bare("FetchOwner", "fetch-owner") \o Given("MaxKeys", "max-keys"))
        [] OTHER -> <<>>
CallOf(product, name, before, middle, between, first, second) ==
  LET parts == before \o middle \o between \o first \o Required(name) \o second
      profile == LastOf(parts, "profile", "")
      region == LastOf(parts, "region", SettingsDef[profile].region)
      request == RequestOf(parts)
      pairs == Joined(parts, "pair")
  IN  [line |-> Joined(before, "tokens") \o <<K!Word("call")>> \o Joined(middle, "tokens") \o <<K!Word(product)>>
                \o Joined(between, "tokens") \o <<K!Word(name)>> \o Joined(first \o Required(name) \o second, "tokens"),
       to |-> [product |-> product, operation |-> name, region |-> region, profile |-> profile, request |-> request],
       command |-> CommandOf(name, request, pairs, region),
       sound |-> (\A i \in DOMAIN parts : parts[i].sound) /\ (product = "oss" \/ pairs = <<>>)]
Asks1(product, name) ==
  {CallOf(product, name, before, middle, between, first, second) :
     before \in UpTo1({g \in Globals : g.profile # ""}), middle \in UpTo1({g \in Globals : g.region # ""} \cup Clis \cup Unsounds),
     between \in UpTo1({c \in Clis : Len(c.tokens) = 1}), first \in UpTo1(Globals \cup Clis \cup Unsounds \cup Meant(name)),
     second \in UpTo1(Meant(name))}
CallQuestionsDef == {Asks1("oss", "ListObjects"), Asks1("oss", "PutObject"), Asks1("ecs", "DescribeImages")}

DiscoverQuestionsDef ==
  {{[line |-> <<K!Word("call"), K!Flag("list")>> \o AsWords(words), product |-> IF words = <<>> THEN "" ELSE words[1]] :
      words \in UpTo1({"ecs", "cs", "ack", "lingjun", "eflo", "old", "oss", "bogus"})},
   {[line |-> <<K!Word("call"), K!Flag("schema"), K!Word("oss"), K!Word(n), K!Flag("generate-request")>>, product |-> "oss"] :
      n \in DOMAIN OSSOperationsDef \cup {"listbuckets", "bogus"}}}
=============================================================================
