--------------------------- MODULE RequestMapping ---------------------------
(***************************************************************************)
(* How an operation's input becomes the requests of its bindings: the      *)
(* expressions of pkg/engine/mapping.go, the binding trees of              *)
(* pkg/engine/binding.go and the conditions of pkg/engine/operation.go.    *)
(* A map of the program is a sequence of its entries in the order in which *)
(* the program happens to range over it.                                   *)
(***************************************************************************)
EXTENDS FiniteSets, Naturals, Sequences, SequencesExt

\* A text of the input, in its parts: "+k=v" has a sign, a key and a value,
\* "v" a value only.  A key may have dots: it is a path.
Text(sign, key, value) == [sign |-> sign, key |-> key, value |-> value]
NoKey == <<>>
Plain(value) == Text("", NoKey, value)
Empty(text) == text = Plain("")
Bare(text) == text.value = "" /\ text.key = NoKey \* nothing behind its sign

\* A value: nothing, one text, a list of texts, or a list of objects, which
\* are functions from fields to texts.
NoValue == [kind |-> "none", texts |-> <<>>, objects |-> <<>>]
One(text) == [kind |-> "text", texts |-> <<text>>, objects |-> <<>>]
Texts(texts) == [kind |-> "list", texts |-> texts, objects |-> <<>>]
Objects(objects) == [kind |-> "objects", texts |-> <<>>, objects |-> objects]
isEmpty(v) ==
  \/ v.kind = "none"
  \/ v.kind = "text" /\ Empty(v.texts[1])
  \/ v.kind = "list" /\ v.texts = <<>>
  \/ v.kind = "objects" /\ v.objects = <<>>
NoFields == [f \in {} |-> Plain("")]

\* The outcome of anything: a value, or an error of the client.
Got(v) == [error |-> "", value |-> v]
Invalid == [error |-> "InvalidParameter", value |-> NoValue]

\* stringListValue and listValue; an item is a text or an object.
stringListValue(v) == SelectSeq(v.texts, LAMBDA t : ~Empty(t))
Item(text, object) == [text |-> text, object |-> object]
listValue(v) ==
  IF v.kind = "objects" THEN [i \in DOMAIN v.objects |-> Item(Plain(""), v.objects[i])]
  ELSE [i \in DOMAIN v.texts |-> Item(v.texts[i], NoFields)]

-----------------------------------------------------------------------------
(* Expressions: a function of pkg/engine/mapping.go and its arguments.     *)

Expr(fn, field) == [fn |-> fn, field |-> field, other |-> "", sign |-> ""]
Field(ctx, name) ==
  CASE ctx.current = <<>> -> IF name \in DOMAIN ctx.input THEN ctx.input[name] ELSE NoValue
    [] OTHER -> IF name \in DOMAIN ctx.current[1].object THEN One(ctx.current[1].object[name]) ELSE NoValue
InputField(ctx, name) == Field([ctx EXCEPT !.current = <<>>], name)

\* keyValueAssignments: every text is key=value and no key is there twice.
Assigns(v) ==
  LET texts == stringListValue(v) IN
  /\ \A i \in DOMAIN texts : texts[i].key # NoKey
  /\ \A i, j \in DOMAIN texts : texts[i].key = texts[j].key => i = j
resolveKeyValueFunction(fn, v) ==
  LET texts == stringListValue(v) IN
  CASE isEmpty(v) \/ (Assigns(v) /\ texts = <<>>) -> Got(NoValue)
    [] ~Assigns(v) \/ (fn # "kv_pairs" /\ Len(texts) # 1) -> Invalid
    [] fn = "kv_pairs" -> Got(Objects([i \in DOMAIN texts |-> [f \in {"key", "value"} |->
                            IF f = "key" THEN Plain(texts[i].key[1]) ELSE Plain(texts[i].value)]]))
    [] fn = "kv_key" -> Got(One(Plain(texts[1].key[1])))
    [] fn = "kv_value" -> Got(One(Plain(texts[1].value)))

\* prefixedStringValues; prefixedKeyValueObjects of changes with one entry,
\* where a bare value is the entry of the default key; stringValuesByPrefix.
MutSigned(v, sign) == stringListValue(v) \* mutant: the sign is only cut off
Signed(v, sign) == SelectSeq(stringListValue(v), LAMBDA t : t.sign = sign)
prefixedStringValues(v, sign) ==
  LET texts == Signed(v, sign)
      bodies == [i \in DOMAIN texts |-> [texts[i] EXCEPT !.sign = ""]] IN
  Got(Texts(SelectSeq(bodies, LAMBDA t : ~Empty(t))))
prefixedKeyValueObjects(v, sign, default) ==
  LET texts == Signed(v, sign)
      Object(t) == [f \in {IF t.key = NoKey THEN default ELSE t.key[1]} |-> Plain(t.value)] IN
  IF \E i \in DOMAIN texts : Bare(texts[i]) THEN Invalid
  ELSE Got(Objects([i \in DOMAIN texts |-> Object(texts[i])]))
stringValuesByPrefix(v, sign, matching) ==
  Texts(SelectSeq(stringListValue(v), LAMBDA t : (t.sign = sign) = matching))

\* exceptStrings and capturedFieldValues.
exceptStrings(left, right) ==
  Texts(SelectSeq(stringListValue(left), LAMBDA t : t \notin ToSet(stringListValue(right))))
capturedFieldValues(ctx, name, field) ==
  IF name \notin DOMAIN ctx.captures THEN Texts(<<>>)
  ELSE LET items == SelectSeq(ctx.captures[name].items, LAMBDA o : field \in DOMAIN o) IN
       Texts([i \in DOMAIN items |-> items[i][field]])

\* ResolveExpression, v being what the field is.
ResolveOf(e, ctx, v) ==
  CASE e.fn = "$" -> Got(IF ctx.current = <<>> THEN NoValue ELSE One(ctx.current[1].text))
    [] e.fn = "field" -> Got(v)
    [] e.fn = "input" -> Got(InputField(ctx, e.field))
    [] e.fn \in {"kv_pairs", "kv_key", "kv_value"} -> resolveKeyValueFunction(e.fn, v)
    [] e.fn = "captured" -> Got(capturedFieldValues(ctx, e.field, e.other))
    [] e.fn = "except" -> Got(IF v.kind = "none" THEN NoValue ELSE exceptStrings(v, Field(ctx, e.other)))
    [] e.fn \notin {"$", "field", "input", "kv_pairs", "kv_key", "kv_value", "captured", "except"} /\ isEmpty(v) -> Got(NoValue)
    [] e.fn = "list" -> Got(Texts(stringListValue(v)))
    [] e.fn = "first" -> Got(One(v.texts[1]))
    [] e.fn = "prefixed" -> prefixedStringValues(v, e.sign)
    [] e.fn = "prefixed_objects" -> prefixedKeyValueObjects(v, e.sign, e.other)
    [] e.fn = "matching" -> Got(stringValuesByPrefix(v, e.sign, TRUE))
    [] e.fn = "not_matching" -> Got(stringValuesByPrefix(v, e.sign, FALSE))
ResolveExpression(e, ctx) == ResolveOf(e, ctx, Field(ctx, e.field))

-----------------------------------------------------------------------------
(* Binding trees.  A node has a kind: "expr", "raw", "each" or "group",    *)
(* the children among its fields, and for an "each" the sources, defaults  *)
(* and enums of its items and the capture of them.  No spec makes requests *)
(* with a "from".                                                          *)

Node(kind, expr, fields) ==
  [kind |-> kind, expr |-> expr, fields |-> fields, sources |-> <<>>, defaults |-> NoFields,
   enum |-> [f \in {} |-> {}], capture |-> ""]

\* enhancedEachItems: the items of each source, laid over the defaults; a
\* source is an expression, or fields one of which must be there.
enhancedSourceItems(source, ctx) ==
  IF source.fields = {}
  THEN LET texts == stringListValue(Field(ctx, source.field)) IN
       [i \in DOMAIN texts |-> Item(Plain(""), [f \in {"value"} |-> texts[i]])]
  ELSE LET given == {f \in source.fields : ~isEmpty(Field(ctx, f))} IN
       IF given \cap source.when_any = {} THEN <<>>
       ELSE <<Item(Plain(""), [f \in given |-> Field(ctx, f).texts[1]])>>
mergeFields(defaults, object) ==
  [f \in DOMAIN defaults \cup DOMAIN object |-> IF f \in DOMAIN object THEN object[f] ELSE defaults[f]]
Enumerated(items, enum) ==
  IF \E i \in DOMAIN items, f \in DOMAIN enum : f \in DOMAIN items[i].object /\ items[i].object[f].value \notin enum[f]
  THEN [error |-> "InvalidParameter", items |-> <<>>]
  ELSE [error |-> "", items |-> items]
Merged(items, defaults) == [i \in DOMAIN items |-> [items[i] EXCEPT !.object = mergeFields(defaults, @)]]
enhancedEachItems(node, ctx) ==
  LET items == FlattenSeq([s \in DOMAIN node.sources |-> enhancedSourceItems(node.sources[s], ctx)])
  IN  Enumerated(Merged(items, node.defaults), node.enum)
ItemsOf(r) == [error |-> r.error, items |-> IF isEmpty(r.value) THEN <<>> ELSE listValue(r.value)]
eachItems(node, ctx) ==
  IF node.sources # <<>> THEN enhancedEachItems(node, ctx) ELSE ItemsOf(ResolveExpression(node.expr, ctx))

\* What has been made so far; a request is a function from paths to values.
Made(request, captures) == [error |-> "", request |-> request, captures |-> captures]
Fails(made, error) == [made EXCEPT !.error = error]
Set(f, key, value) == [k \in DOMAIN f \cup {key} |-> IF k = key THEN value ELSE f[k]]
Put(made, path, v) == IF isEmpty(v) THEN made ELSE [made EXCEPT !.request = Set(@, path, v)]

\* expandRawBinding: parameters of the API as they are, each only once.
MutExpandRaw(made, texts) == \* mutant: a raw parameter takes the place of the field
  FoldLeft(LAMBDA m, t : IF t.key = NoKey THEN Fails(m, "InvalidParameter")
                         ELSE [m EXCEPT !.request = Set(@, t.key, One(Plain(t.value)))], made, texts)
ExpandRaw(made, texts) ==
  LET Add(m, t) == IF m.error # "" THEN m
                   ELSE IF t.key = NoKey THEN Fails(m, "InvalidParameter")
                   ELSE IF t.key \in DOMAIN m.request THEN Fails(m, "DuplicateParameter")
                   ELSE [m EXCEPT !.request = Set(@, t.key, One(Plain(t.value)))]
  IN FoldLeft(Add, made, texts)

\* captureItems, all the fields of an item, with requestDelta.
Capture(before, made, node, items) ==
  LET objects == [i \in DOMAIN items |->
                   IF items[i].object = NoFields THEN [f \in {"value"} |-> items[i].text] ELSE items[i].object]
      delta == [k \in DOMAIN made.request \ DOMAIN before.request |-> made.request[k]] IN
  IF made.error # "" \/ node.capture = "" THEN made
  ELSE [made EXCEPT !.captures = Set(@, node.capture, [items |-> objects, request |-> delta])]

\* expandBindingFields: the raw nodes after the others.
MutRawLast(fields) == fields \* mutant: whichever comes first
RawLast(fields) ==
  SelectSeq(fields, LAMBDA f : f.node.kind # "raw") \o SelectSeq(fields, LAMBDA f : f.node.kind = "raw")

Index == <<"1", "2", "3", "4">>
RECURSIVE ExpandFields(_, _, _, _)
\* expandBindingNode and expandEachBinding; an outcome has an error or not.
ExpandValue(made, path, node, r) ==
  CASE r.error # "" -> Fails(made, r.error)
    [] r.error = "" /\ node.kind = "expr" -> Put(made, path, r.value)
    [] r.error = "" /\ node.kind = "raw" -> ExpandRaw(made, stringListValue(r.value))
ExpandEach(made, path, node, ctx, each) ==
  LET ExpandItem(m, i) ==
        IF m.error # "" THEN m
        ELSE IF node.fields = <<>> THEN Put(m, path \o <<Index[i]>>, One(each.items[i].text))
        ELSE ExpandFields(m, path \o <<Index[i]>>, node.fields, [ctx EXCEPT !.current = <<each.items[i]>>])
  IN  CASE each.error # "" -> Fails(made, each.error)
        [] each.error = "" /\ each.items = <<>> -> made
        [] OTHER -> Capture(made, FoldLeft(ExpandItem, made, [i \in DOMAIN each.items |-> i]), node, each.items)
ExpandNode(made, path, node, ctx) ==
  CASE node.kind = "group" -> ExpandFields(made, path, node.fields, ctx)
    [] node.kind = "each" -> ExpandEach(made, path, node, ctx, eachItems(node, ctx))
    [] node.kind \in {"expr", "raw"} -> ExpandValue(made, path, node, ResolveExpression(node.expr, ctx))
ExpandFields(made, path, fields, ctx) ==
  LET Expand(m, f) == IF m.error # "" THEN m ELSE ExpandNode(m, path \o <<f.name>>, f.node, ctx)
  IN FoldLeft(Expand, made, RawLast(fields))

\* ResolveResourceBindingRequest.
NoRequest == [p \in {} |-> NoValue]
NoCaptures == [c \in {} |-> [items |-> <<>>, request |-> NoRequest]]
ResolveBinding(binding, ctx) == ExpandFields(Made(NoRequest, NoCaptures), <<>>, binding.fields, ctx)

-----------------------------------------------------------------------------
(* Conditions and requirements.                                            *)

\* A condition is a disjunction of conjunctions of [not, test, expr].
Test(c, v) ==
  CASE c.test = "specified" -> v.kind # "none"
    [] c.test = "has" -> ~isEmpty(v)
    [] c.test = "single" -> Len(v.texts) + Len(v.objects) = 1
    [] c.test = "multiple" -> Len(v.texts) + Len(v.objects) > 1
    [] c.test = "starts_with" -> \E t \in ToSet(stringListValue(v)) : t.sign = c.sign
Holds(c, ctx) == Test(c, ResolveExpression(c.expr, ctx).value) # c.not
conditionMatches(condition, ctx) == \E all \in condition : \A c \in all : Holds(c, ctx)
ConditionFails(condition, ctx) == \E all \in condition : \E c \in all : ResolveExpression(c.expr, ctx).error # ""

requestHasPrefix(request, name) == \E p \in DOMAIN request : p[1] = name
requireAnyBindingInput(binding, request, ctx) ==
  \/ binding.requireFields = {} /\ binding.requireInputs = {}
  \/ \E name \in binding.requireFields : requestHasPrefix(request, name)
  \/ \E name \in binding.requireInputs : ~isEmpty(InputField(ctx, name))
requireAllBindingInput(binding, request) == \A name \in binding.requireAll : requestHasPrefix(request, name)

\* The bindings of a workflow, one after the other until one fails: what is
\* sent, and the error.
SendMade(sent, step, ctx, made) ==
  IF made.error # "" THEN Fails(sent, made.error)
  ELSE IF ~(requireAnyBindingInput(step, made.request, ctx) /\ requireAllBindingInput(step, made.request))
  THEN Fails(sent, "MissingParameter")
  ELSE [sent EXCEPT !.requests = Append(@, made.request),
                    !.captures = [c \in DOMAIN @ \cup DOMAIN made.captures |->
                                    IF c \in DOMAIN made.captures THEN made.captures[c] ELSE @[c]]]
RunStep(sent, step, ctx) ==
  IF sent.error # "" THEN sent
  ELSE IF ConditionFails(step.when, ctx) THEN Fails(sent, "InvalidParameter")
  ELSE IF step.when # {} /\ ~conditionMatches(step.when, ctx) THEN sent
  ELSE SendMade(sent, step, ctx, ResolveBinding(step, ctx))
Sends(steps, input) ==
  LET Run(sent, step) == RunStep(sent, step, [input |-> input, current |-> <<>>, captures |-> sent.captures])
  IN  FoldLeft(Run, [error |-> "", requests |-> <<>>, captures |-> NoCaptures], steps)

-----------------------------------------------------------------------------
(* What may be asked of q, the steps of an operation and its input.        *)

Without(input, name) == [f \in DOMAIN input \ {name} |-> input[f]]
Backwards(step) == [step EXCEPT !.fields = Reverse(@)]

\* The order in which a map is ranged over decides nothing but which error is
\* shown (expandBindingFields).
Agree(here, there) == (here.error = "") = (there.error = "") /\ (here.error = "" => here = there)
OrderIsNothing(q, sent) == Agree(sent, Sends([i \in DOMAIN q.steps |-> Backwards(q.steps[i])], q.input))

\* --api-param adds parameters and takes none away: a request that is sent
\* has every field that the flags alone would give it, with its value, and
\* what is captured of it is the same (expandRawBinding, requestDelta).
Extends(sent, plain) ==
  sent.error = "" /\ Len(sent.requests) = Len(plain.requests) =>
    /\ sent.captures = plain.captures
    /\ \A n \in DOMAIN sent.requests :
         /\ DOMAIN plain.requests[n] \subseteq DOMAIN sent.requests[n]
         /\ \A p \in DOMAIN plain.requests[n] : sent.requests[n][p] = plain.requests[n][p]
RawOnlyAdds(q, sent) ==
  Extends(sent, Sends([i \in DOMAIN q.steps |-> [q.steps[i] EXCEPT !.requireFields = {}, !.requireInputs = {}, !.requireAll = {}]],
                      Without(q.input, "api_param")))

\* The changes of an input are sent on their sides, additions where additions
\* go, each once and in the order given, save those that the program drops
\* without a word: one without a sign, where the operation asks for none, and
\* one whose key the requests of its side have no field for
\* (prefixedKeyValueObjects, prefixedStringValues).
IsTaken(q, t, side) == t.sign = side /\ (t.key = NoKey \/ t.key[1] \in q.keys[side])
ValuesOf(texts) == [i \in DOMAIN texts |-> texts[i].value]
RawValues(q) == ToSet(ValuesOf(q.input["api_param"].texts))
SentAt(request, name, i) ==
  SetToSeq({request[p].texts[1].value : p \in {p \in DOMAIN request : p[1] = name /\ Len(p) > 1 /\ p[2] = Index[i]}})
SentOn(q, sent, side) ==
  LET In(request) == FlattenSeq([i \in DOMAIN Index |-> SentAt(request, q.sides[side], i)])
      all == FlattenSeq([n \in DOMAIN sent.requests |-> In(sent.requests[n])])
  IN  SelectSeq(all, LAMBDA v : v \notin RawValues(q))
ChangesAreMade(q, sent) ==
  sent.error = "" =>
    \A side \in {"+", "-"} :
      SentOn(q, sent, side) = ValuesOf(SelectSeq(q.input["changes"].texts, LAMBDA t : IsTaken(q, t, side)))
=============================================================================
