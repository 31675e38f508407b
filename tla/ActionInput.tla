----------------------------- MODULE ActionInput -----------------------------
(***************************************************************************)
(* How the arguments of a resource command become the input of its         *)
(* operation, and what is refused (runResourceAction of                    *)
(* pkg/cli/resource.go).  A command line q has the operation's params, in  *)
(* the order in which they are read, its positionals, filters and rules,   *)
(* and what was given: args, flags (the texts of each) and given, the      *)
(* filters.  files holds what is in a file that "@f" names.                *)
(***************************************************************************)
EXTENDS RequestMapping

CONSTANT Numbers \* the texts that are integers, with their values

\* A param: its type is "text", "texts" (a repeatable one), "list" (comma
\* separated), "integer" or "ids" (a list that takes the arguments too).
Param(name, type) ==
  [name |-> name, type |-> type, required |-> FALSE, default |-> NoValue, enum |-> {}, max |-> {},
   use |-> "", control |-> FALSE, allowEmpty |-> FALSE]
Filter(key, dynamic, target, type) == [key |-> key, dynamic |-> dynamic, target |-> target, type |-> type]

\* An input is a function from names to values.
NoInput == [n \in {} |-> NoValue]
Accepted(input) == [error |-> "", input |-> input]
Refused(error) == [error |-> error, input |-> NoInput]
ValueOf(input, name) == IF name \in DOMAIN input THEN input[name] ELSE NoValue
Present(input, names) == {n \in names : ~isEmpty(ValueOf(input, n))}

\* splitIDs.
splitIDs(texts) == Texts(SelectSeq(texts, LAMBDA t : ~Empty(t)))
IsArray(texts) == \E i \in DOMAIN texts : texts[i].sign = "["

-----------------------------------------------------------------------------
(* resourceActionInput.                                                    *)

\* stringFlagValue: a text, or what is in the file it names.
stringFlagValue(param, text, files) ==
  CASE param.use # "@file" \/ text.sign # "@" -> Got(One(text))
    [] param.use = "@file" /\ text.sign = "@" ->
         IF text.value \in DOMAIN files THEN Got(One(files[text.value])) ELSE Invalid

\* flagInputValue: NoValue is a flag that is left out of the input.
flagInputValue(param, texts, files) ==
  LET last == IF texts = <<>> THEN Plain("") ELSE texts[Len(texts)] IN
  CASE texts = <<>> /\ param.default # NoValue -> Got(param.default)
    [] texts = <<>> /\ param.default = NoValue ->
         Got(CASE ~param.required \/ param.type = "integer" -> NoValue
               [] param.required /\ param.type = "text" -> One(Plain(""))
               [] OTHER -> Texts(<<>>))
    [] texts # <<>> /\ param.type = "integer" ->
         IF last.value \in DOMAIN Numbers THEN Got(One(last)) ELSE Invalid
    [] texts # <<>> /\ param.type \in {"texts", "list"} -> Got(Texts(texts))
    [] texts # <<>> /\ param.type = "text" -> stringFlagValue(param, last, files)

\* validateParamEnum, validateParamMax and validateParamInputStyle.
MutSignedStyle(param, v) == TRUE \* mutant: a sign is not asked for
SignedStyle(param, v) ==
  param.use = "+value|-value" => \A i \in DOMAIN v.texts : v.texts[i].sign \in {"+", "-"} /\ ~Bare(v.texts[i])
ValidParam(param, v) ==
  \/ isEmpty(v)
  \/ /\ param.enum # {} /\ v.kind = "text" => v.texts[1].value \in param.enum
     /\ param.max # {} => \A m \in param.max : Numbers[v.texts[1].value] <= m
     /\ SignedStyle(param, v)

resourceActionInput(q) ==
  LET Positional == {i \in DOMAIN q.positionals : i <= Len(q.args)}
      args == [n \in {q.positionals[i] : i \in Positional} |->
                One(q.args[CHOOSE i \in Positional : q.positionals[i] = n])]
      Read(r, param) ==
        LET got == flagInputValue(param, q.flags[param.name], q.files)
            ids == splitIDs(q.flags[param.name] \o q.args) IN
        CASE r.error # "" -> r
          [] r.error = "" /\ param.type = "ids" ->
               IF IsArray(q.flags[param.name]) THEN Refused("InvalidIDs")
               ELSE Accepted(Set(r.input, param.name, ids))
          [] r.error = "" /\ param.type # "ids" ->
               IF got.error # "" \/ ~ValidParam(param, got.value) THEN Refused("InvalidParameter")
               ELSE IF got.value = NoValue THEN r
               ELSE Accepted(Set(r.input, param.name, got.value))
      read == FoldLeft(Read, Accepted(args), q.params) IN
  IF read.error = "" /\ \E i \in DOMAIN q.params : q.params[i].required /\ isEmpty(ValueOf(read.input, q.params[i].name))
  THEN Refused("MissingParameter") ELSE read

-----------------------------------------------------------------------------
(* applyFilterInput.                                                       *)

\* lookupActionFilter: a declared key, or one below a declared prefix.
lookupActionFilter(filters, key) ==
  {f \in filters : IF f.dynamic THEN Len(key) > 1 /\ key[1] = f.key[1] ELSE key = f.key}
Below(key) == SubSeq(key, 2, Len(key))

Taken(input, f) == ~f.dynamic /\ ~isEmpty(ValueOf(input, f.target))
applyFilterValue(input, f, text) ==
  LET value == Plain(text.value) IN
  CASE Taken(input, f) -> Refused("ConflictingParameters")
    [] ~Taken(input, f) /\ f.type = "integer" ->
         IF text.value \in DOMAIN Numbers THEN Accepted(Set(input, f.target, One(value))) ELSE Refused("InvalidFilter")
    [] ~Taken(input, f) /\ f.type = "list" ->
         IF text.sign = "[" THEN Refused("InvalidIDs") ELSE Accepted(Set(input, f.target, splitIDs(<<value>>)))
    [] ~Taken(input, f) /\ f.type = "key_value" ->
         IF ~f.dynamic THEN Refused("InvalidFilter")
         ELSE Accepted(Set(input, f.target,
                Texts(Append(ValueOf(input, f.target).texts, Text("", Below(text.key), text.value)))))
    [] ~Taken(input, f) /\ f.type = "text" -> Accepted(Set(input, f.target, One(value)))
applyFilterInput(q, input) ==
  LET Apply(r, text) ==
        LET found == lookupActionFilter(q.filters, text.key) IN
        IF r.error # "" THEN r
        ELSE IF text.key = NoKey \/ found = {} THEN Refused("InvalidFilter")
        ELSE applyFilterValue(r.input, CHOOSE f \in found : TRUE, text)
  IN FoldLeft(Apply, Accepted(input), q.given)

-----------------------------------------------------------------------------
(* validateResourcePagination and validateResourceActionInput.             *)

Positive(input, name) == ~isEmpty(ValueOf(input, name)) => Numbers[input[name].texts[1].value] > 0
validateOperationRequireAny(q, input) == q.requireAny # {} => Present(input, q.requireAny) # {}
validateOperationConflicts(q, input) ==
  \A c \in q.conflicts : Present(input, c.any) = {} \/ Present(input, c.with) = {}
validateOperationRequireWhen(q, input) ==
  \A c \in q.requireWhen : Present(input, c.when) = {} \/ Present(input, c.any) # {}

\* An update has to have a field to change; one that may be empty counts when
\* it is given at all.
Changing(param, input) ==
  ~param.control /\ param.name \in DOMAIN input /\ (param.allowEmpty \/ ~isEmpty(input[param.name]))
Changes(q, input) == \E i \in DOMAIN q.params : Changing(q.params[i], input)

\* updateAPIParamRunsBinding: or a parameter of the API for a binding that runs.
MutRunsBinding(q, input) == ~isEmpty(ValueOf(input, "api_param")) \* mutant: whether a binding takes it or not
bindingUsesInput(step, name) == \E i \in DOMAIN step.fields : step.fields[i].node.expr.field = name
updateAPIParamRunsBinding(q, input) ==
  LET ctx == [input |-> input, current |-> <<>>, captures |-> NoCaptures] IN
  /\ ~isEmpty(ValueOf(input, "api_param"))
  /\ \E i \in DOMAIN q.steps :
       /\ bindingUsesInput(q.steps[i], "api_param")
       /\ q.steps[i].when = {} \/ (~ConditionFails(q.steps[i].when, ctx) /\ conditionMatches(q.steps[i].when, ctx))

validateResourceActionInput(q, input) ==
  CASE ~(Positive(input, "limit") /\ Positive(input, "page")) -> Refused("InvalidLimit")
    [] Positive(input, "limit") /\ Positive(input, "page") ->
         IF ~validateOperationRequireAny(q, input) THEN Refused("MissingParameter")
         ELSE IF ~validateOperationConflicts(q, input) THEN Refused("ConflictingParameters")
         ELSE IF ~validateOperationRequireWhen(q, input) THEN Refused("MissingParameter")
         ELSE IF q.update /\ ~Changes(q, input) /\ ~updateAPIParamRunsBinding(q, input) THEN Refused("MissingParameter")
         ELSE Accepted(input)

\* runResourceAction up to its execution: the rules see the filters too.
MutReadInput(q) == \* mutant: the rules are checked before the filters are read
  LET read == resourceActionInput(q)
      valid == IF read.error # "" THEN read ELSE validateResourceActionInput(q, read.input) IN
  IF valid.error # "" THEN valid ELSE applyFilterInput(q, valid.input)
ReadInput(q) ==
  LET read == resourceActionInput(q)
      filtered == IF read.error # "" THEN read ELSE applyFilterInput(q, read.input) IN
  IF filtered.error # "" THEN filtered ELSE validateResourceActionInput(q, filtered.input)

-----------------------------------------------------------------------------
(* What may be asked of the answer r to q.                                 *)

\* Nothing that is given is dropped: with an accepted command line, the texts
\* of every flag, every argument and every filter are in the input, save
\* those of a flag that takes one text and was given several (applyFilterValue,
\* splitIDs).
Holds1(input, name, value) ==
  LET v == ValueOf(input, name) IN \E i \in DOMAIN v.texts : v.texts[i].value = value
EverythingCounts(q, r) ==
  r.error = "" =>
    /\ \A i \in DOMAIN q.params :
         LET texts == q.flags[q.params[i].name] IN
         q.params[i].use # "@file" =>
           \A t \in DOMAIN texts :
             Empty(texts[t]) \/ (q.params[i].type \in {"text", "integer"} /\ t < Len(texts))
               \/ Holds1(r.input, q.params[i].name, texts[t].value)
    /\ \A i \in DOMAIN q.given :
         \E f \in lookupActionFilter(q.filters, q.given[i].key) :
           q.given[i].value = "" \/ Holds1(r.input, f.target, q.given[i].value)

\* A filter of a flag that nothing else sets does what the flag does: the same
\* input, and the same rules hold of it; only what a flag's own declaration asks for (an
\* enum, a maximum) is not asked of a filter.
FlagFor(q, i) ==
  LET f == CHOOSE f \in lookupActionFilter(q.filters, q.given[i].key) : TRUE IN
  [q EXCEPT !.flags[f.target] = <<Plain(q.given[i].value)>>,
            !.given = SubSeq(@, 1, i - 1) \o SubSeq(@, i + 1, Len(@))]
FilterIsFlag(q, r) ==
  \A i \in DOMAIN q.given :
    LET found == lookupActionFilter(q.filters, q.given[i].key)
        alone == /\ \E f \in found : /\ ~f.dynamic /\ f.target \in DOMAIN q.flags /\ q.flags[f.target] = <<>>
                                    /\ isEmpty(ValueOf(resourceActionInput(q).input, f.target))
                 /\ \A j \in DOMAIN q.given \ {i} : q.given[j].key # q.given[i].key IN
    alone =>
      LET flag == ReadInput(FlagFor(q, i)) IN
      /\ flag.error = "" => r = flag
      /\ r.error = "" => flag.error \in {"", "InvalidParameter"}

\* An update that is accepted sends a request or is refused by a binding, for
\* what is read back is to confirm "that the change has taken effect"
\* (docs/design/lingjun/er.md, docs/design/lingjun/eni.md).  It is not so of an
\* update whose every field to change is a list of changes that asks for no
\* sign and has entries without one only (`er update --attachment vpd-1`): that
\* is accepted, sends nothing, and is read back.
Unsigned(param, v) == param.type = "list" /\ param.use = "" /\ \A i \in DOMAIN v.texts : v.texts[i].sign = ""
AcceptedUpdateSends(q, r) ==
  q.update /\ r.error = "" =>
    LET sent == Sends(q.steps, r.input)
    IN  \/ sent.error # "" \/ sent.requests # <<>>
        \/ \A i \in DOMAIN q.params : Changing(q.params[i], r.input) => Unsigned(q.params[i], r.input[q.params[i].name])
=============================================================================
