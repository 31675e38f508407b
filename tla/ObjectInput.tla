----------------------------- MODULE ObjectInput -----------------------------
(***************************************************************************)
(* An object given as a flag (pkg/cli/resource.go): key=value pairs, JSON, *)
(* or a file of either.  An entry is a key, written with a dash or an      *)
(* underscore, and a token; the keys of one object differ in their names.  *)
(***************************************************************************)
EXTENDS Functions, Naturals, Sequences, SequencesExt

CONSTANTS Numbers,  \* the texts that are integers, with their values
          Truncated \* the texts that are fractions, with their integer parts

Booleans == {"true", "false"}

\* A token of the text: its kind and its text, or the tokens of an object.
Token(kind, text) == [kind |-> kind, text |-> text, fields |-> <<>>]
Entry(name, dashed, token) == [name |-> name, dashed |-> dashed, token |-> token]
\* A field of the schema, and a member of an object with its name as it is.
Schema(type, fields) == [type |-> type, fields |-> fields, required |-> {}, enum |-> {}, style |-> ""]
Literal(entry) == IF entry.dashed THEN <<entry.name, "dashed">> ELSE <<entry.name>>

Got(object) == [error |-> "", object |-> object]
Refused(error) == [error |-> error, object |-> [n \in {} |-> Token("null", "")]]

-----------------------------------------------------------------------------
\* coerceStructuredValue: a text becomes what the field's type asks for, a
\* fraction loses its end in an integer field, and the rest stays as it is.
MutCoerce(token, type) == token \* mutant: a text is left as it is
Coerce(token, type) ==
  CASE type = "integer" /\ token.kind = "number" /\ token.text \in DOMAIN Truncated ->
         Token("number", Truncated[token.text])
    [] type \in {"integer", "number"} /\ token.kind = "string" -> Token("number", token.text)
    [] type = "boolean" /\ token.kind = "string" -> Token("bool", token.text)
    [] type = "list" /\ token.kind = "string" -> Token("list", token.text)
    [] OTHER -> token
Coercible(token, type) ==
  token.kind = "string" =>
    CASE type = "integer" -> token.text \in DOMAIN Numbers
      [] type = "number" -> token.text \in DOMAIN Numbers \cup DOMAIN Truncated
      [] type = "boolean" -> token.text \in Booleans
      [] OTHER -> TRUE

\* normalizeStructuredObject and parseInlineObject, whose tokens are strings:
\* the names with underscores, all declared; and so within an object.
IsObject(token, child) == child.type = "object" /\ token.kind = "object"
Declared(schema, entry) == DOMAIN schema.fields = {} \/ entry.name \in DOMAIN schema.fields
Child(schema, name) ==
  IF name \in DOMAIN schema.fields THEN schema.fields[name] ELSE [Schema("", <<>>) EXCEPT !.type = "undeclared"]
Flat(entries, schema) ==
  IF \A i \in DOMAIN entries :
       Declared(schema, entries[i]) /\ Coercible(entries[i].token, Child(schema, entries[i].name).type)
  THEN Got([n \in {entries[i].name : i \in DOMAIN entries} |->
             Coerce(entries[CHOOSE i \in DOMAIN entries : entries[i].name = n].token, Child(schema, n).type)])
  ELSE Refused("InvalidParameter")
normalizeStructuredObject(entries, schema) ==
  LET inner == {i \in DOMAIN entries : IsObject(entries[i].token, Child(schema, entries[i].name))}
      Inner(i) == Flat(entries[i].token.fields, Child(schema, entries[i].name))
      flat == Flat(entries, schema)
      Nested(n) == {i \in inner : entries[i].name = n} IN
  IF flat.error # "" \/ \E i \in inner : Inner(i).error # "" THEN Refused("InvalidParameter")
  ELSE Got([n \in DOMAIN flat.object |->
             IF Nested(n) = {} THEN flat.object[n]
             ELSE [flat.object[n] EXCEPT !.fields = Inner(CHOOSE i \in Nested(n) : TRUE).object]])

\* validateStructuredObject: what is required is there, what has an enum is of it.
EmptyToken(token) == token.kind = "null" \/ (token.kind \in {"string", "list"} /\ token.text = "")
                       \/ (token.kind = "object" /\ DOMAIN token.fields = {})
Allowed(schema, n, token) == Child(schema, n).enum = {} \/ EmptyToken(token) \/ token.text \in Child(schema, n).enum
validateStructuredObject(object, schema) ==
  CASE \E n \in schema.required : n \notin DOMAIN object \/ EmptyToken(object[n]) -> Refused("MissingParameter")
    [] \E n \in DOMAIN object : ~Allowed(schema, n, object[n]) -> Refused("InvalidParameter")
    [] OTHER -> Got(object)
Valid(r, schema) == IF r.error # "" THEN r ELSE validateStructuredObject(r.object, schema)

\* isShallowObjectField.
isShallowObjectField(schema) ==
  schema.type = "object" /\ DOMAIN schema.fields # {} /\ \A n \in DOMAIN schema.fields : schema.fields[n].type \notin {"object", "list"}

\* structuredObjectFlagValue: a form is "inline", "json" or "list"; API-shaped
\* JSON keeps its names and its tokens.
Form(kind, entries) == [kind |-> kind, entries |-> entries]
Verbatim(entries) ==
  [k \in {Literal(entries[i]) : i \in DOMAIN entries} |->
    entries[CHOOSE i \in DOMAIN entries : Literal(entries[i]) = k].token]
AsNamed(object) == [n \in {k[1] : k \in {k \in DOMAIN object : Len(k) = 1}} |-> object[<<n>>]]
structuredObjectFlagValue(form, schema) ==
  CASE form.kind = "list" -> Refused("InvalidParameter")
    [] form.kind = "json" /\ schema.style = "json|@file" ->
         LET valid == validateStructuredObject(AsNamed(Verbatim(form.entries)), schema) IN
         IF valid.error # "" THEN valid ELSE Got(Verbatim(form.entries))
    [] form.kind = "json" /\ schema.style # "json|@file" ->
         Valid(normalizeStructuredObject(form.entries, schema), schema)
    [] form.kind = "inline" ->
         IF schema.style = "json|@file" \/ ~isShallowObjectField(schema) THEN Refused("InvalidParameter")
         ELSE Valid(Flat(form.entries, schema), schema)

-----------------------------------------------------------------------------
(* What may be asked.                                                      *)

\* The entries as JSON would have them: numbers and booleans of their kinds.
Typed(entries, schema) ==
  [i \in DOMAIN entries |->
    LET type == Child(schema, entries[i].name).type
        text == entries[i].token.text
        kind == CASE type \in {"integer", "number"} -> "number" [] type = "boolean" -> "bool" [] OTHER -> "string" IN
    [entries[i] EXCEPT !.token = IF Coercible(@, type) THEN Token(kind, text) ELSE @]]
Dashed(entries) == [i \in DOMAIN entries |-> [entries[i] EXCEPT !.dashed = ~@]]

\* "inline key=value, JSON object, or @file" (InputStyleInlineObject): pairs
\* that are accepted give the object that the same entries give as JSON, with
\* numbers in quotes or without, and with dashes for underscores; and JSON of
\* texts is accepted only where the pairs are (coerceStructuredValue,
\* normalizeStructuredObject, parseInlineObject).
FormsAgree(entries, schema) ==
  LET inline == structuredObjectFlagValue(Form("inline", entries), schema)
      json == structuredObjectFlagValue(Form("json", entries), schema)
      typed == structuredObjectFlagValue(Form("json", Typed(entries, schema)), schema)
      dashed == structuredObjectFlagValue(Form("json", Dashed(entries)), schema) IN
  /\ inline.error = "" => json = inline /\ typed = inline /\ dashed = inline
  /\ json.error = "" /\ isShallowObjectField(schema) /\ schema.style = "" => inline = json
=============================================================================
