----------------------------- MODULE ActionOutput -----------------------------
(***************************************************************************)
(* How what an operation found is matched with what it sent and shown: the *)
(* capture waits of pkg/engine/engine.go and the output of                 *)
(* pkg/cli/resource.go.  An item is a function from fields to texts, of    *)
(* which "" is empty; letter case, which matching ignores, is left out.    *)
(***************************************************************************)
EXTENDS FiniteSetsExt, Functions, Naturals, Sequences, SequencesExt

At(item, f) == IF f \in DOMAIN item THEN item[f] ELSE "<nil>"
HasText(item, f) == f \in DOMAIN item /\ item[f] # ""
Agree(item, want, fields) == \A f \in fields : HasText(want, f) => At(item, f) = want[f]

\* captureItemMatches asks for a field to compare, outputItemMatches does not.
captureItemMatches(item, want, fields) == Agree(item, want, fields) /\ \E f \in fields : HasText(want, f)
outputItemMatches(item, want, fields) == Agree(item, want, fields)

MutUnused(items, used) == DOMAIN items \* mutant: an item may be used twice
Unused(items, used) == DOMAIN items \ used
\* The first item that fits each wanted one and is not used yet; 0 if none.
\* Which fit are pairs of an item and a wanted one.
FirstFits(items, wants, fits) ==
  LET found[w \in DOMAIN wants] ==
        LET free == {i \in Unused(items, {found[v] : v \in 1..(w - 1)}) : <<i, w>> \in fits}
        IN IF free = {} THEN 0 ELSE Min(free)
  IN found

\* captureItemsMatched, of a wait for what was added, and its opposite.
captureItemsMatched(items, wants, fields) ==
  LET fits == {p \in (DOMAIN items) \X (DOMAIN wants) : captureItemMatches(items[p[1]], wants[p[2]], fields)} IN
  wants # <<>> /\ items # <<>> /\ 0 \notin ToSet(FirstFits(items, wants, fits))
captureItemsAnyMatched(items, wants, fields) ==
  \E i \in DOMAIN items, w \in DOMAIN wants : captureItemMatches(items[i], wants[w], fields)

-----------------------------------------------------------------------------
(* Output.                                                                 *)

\* A result: optional item, items, extras, captures, total and the rest.
Result(item, items, captures) ==
  [item |-> item, items |-> items, captures |-> captures, extra |-> [k \in {} |-> <<>>],
   total |-> <<>>, id |-> "", actions |-> <<>>, dryRun |-> FALSE]

\* parseFieldSelector, selectedOutputFields and cropResultFields; no field
\* selected is all of them.
cropOutputObject(item, fields) == [f \in DOMAIN item \cap fields |-> item[f]]
cropResultFields(result, fields) ==
  IF fields = {} THEN result
  ELSE [result EXCEPT !.item = [i \in DOMAIN @ |-> cropOutputObject(@[i], fields)],
                      !.items = [i \in DOMAIN @ |-> cropOutputObject(@[i], fields)]]
selectedOutputFields(fields, known) == fields \subseteq known

\* selectOutputMatches: what was found for each wanted item, or the item.
selectOutputMatches(source, wants, select) ==
  LET fits == {p \in (DOMAIN source) \X (DOMAIN wants) : outputItemMatches(source[p[1]], wants[p[2]], select.by)}
      found == FirstFits(source, wants, fits)
      shown == [w \in DOMAIN wants |-> IF found[w] # 0 THEN <<source[found[w]]>>
                                       ELSE IF select.fallback THEN <<wants[w]>> ELSE <<>>]
  IN FlattenSeq(shown)

\* cleanOutputItems.
Clean(item, fields) ==
  LET shown == {f \in (IF fields = {} THEN DOMAIN item ELSE fields) : HasText(item, f)} IN [f \in shown |-> item[f]]
cleanOutputItems(items, fields) ==
  SelectSeq([i \in DOMAIN items |-> Clean(items[i], fields)], LAMBDA item : DOMAIN item # {})

\* outputSelectKey and outputSelectValue: a key and the items under it.
outputSelectKey(select, count) ==
  IF (select.first \/ count = 1) /\ select.single # "" THEN select.single
  ELSE IF select.many # "" THEN select.many ELSE select.single
outputExpression(expr, result) ==
  CASE expr = "items" -> result.items
    [] expr = "item" -> result.item
    [] expr \notin {"items", "item"} -> IF expr \in DOMAIN result.captures THEN result.captures[expr] ELSE <<>>
NothingSelected == [key |-> "", items |-> <<>>]
outputSelectValue(select, result) ==
  LET source == outputExpression(select.from, result)
      wants == outputExpression(select.match, result)
      matched == IF select.match = "" THEN source
                 ELSE IF wants = <<>> THEN <<>> ELSE selectOutputMatches(source, wants, select)
      chosen == IF select.first /\ Len(matched) > 1 THEN <<matched[1]>> ELSE matched
      items == cleanOutputItems(chosen, select.fields)
      key == outputSelectKey(select, Len(items)) IN
  IF items = <<>> \/ key = "" THEN NothingSelected
  ELSE [key |-> key, items |-> IF key = select.single THEN <<items[1]>> ELSE items]

\* outputResourceActionPayload: the first selection of a key wins, and none
\* replaces a field.
outputResourceActionPayload(fields, selects, result) ==
  LET shown == {f \in DOMAIN fields : outputExpression(fields[f], result) # <<>>}
      start == [f \in shown |-> outputExpression(fields[f], result)]
      Add(payload, select) ==
        LET value == outputSelectValue(select, result) IN
        IF value.key = "" \/ value.key \in DOMAIN payload THEN payload
        ELSE [k \in DOMAIN payload \cup {value.key} |-> IF k = value.key THEN value.items ELSE payload[k]]
  IN FoldLeft(Add, start, selects)

\* withResultExtra.
MutWithResultExtra(payload, extra) == \* mutant: an extra takes the place of what is there
  [k \in DOMAIN payload \cup DOMAIN extra |-> IF k \in DOMAIN extra THEN extra[k] ELSE payload[k]]
withResultExtra(payload, extra) ==
  LET added == {k \in DOMAIN extra \ DOMAIN payload : extra[k] # <<>>} IN
  [k \in DOMAIN payload \cup added |-> IF k \in DOMAIN payload THEN payload[k] ELSE extra[k]]

\* fallbackItem and firstNonNilMap: what was asked for, when nothing was read.
fallbackItem(input, result) ==
  LET id == IF result.id # "" THEN result.id ELSE IF "id" \in DOMAIN input THEN input["id"] ELSE ""
      shown == {f \in {"id", "name", "cidr", "description"} : IF f = "id" THEN id # "" ELSE HasText(input, f)}
  IN [f \in shown |-> IF f = "id" THEN id ELSE input[f]]
ItemOf(input, result) == IF result.item # <<>> THEN result.item ELSE <<fallbackItem(input, result)>>

\* resourceActionPayload of an operation that declares no output: an item is
\* under "one", items are under "many".
Keyed(keys, Value(_)) == [k \in keys |-> Value(k)]
resourceActionPayload(action, input, result) ==
  LET dry == result.dryRun \/ "dry_run" \in DOMAIN input
      Under(k) == CASE k = "one" -> ItemOf(input, result)
                    [] k = "many" -> result.items
                    [] k = "actions" -> result.actions
                    [] k = "total" -> result.total
                    [] OTHER -> <<k>>
      total == IF result.total # <<>> THEN {"total"} ELSE {}
      keys == CASE action = "list" -> {"pagination", "many"} \cup total
                [] action \in {"create", "update", "delete"} /\ dry ->
                     {"actions", "available_count", "dry_run", "requested_count"}
                [] action \in {"create", "update"} /\ ~dry -> {"actions", "one"}
                [] action = "delete" /\ ~dry -> {"actions", "deleted", "one"}
                [] action = "get" -> {"one"}
                [] OTHER -> (IF result.actions # <<>> THEN {"actions"} ELSE {}) \cup
                            (IF result.item # <<>> THEN {"one"}
                             ELSE IF result.actions = <<>> THEN {"many", "total"}
                             ELSE IF result.items # <<>> THEN {"many"} \cup total ELSE {})
  IN withResultExtra(Keyed(keys, Under), result.extra)

-----------------------------------------------------------------------------
(* What may be asked.                                                      *)

\* Each wanted item has an item of its own.
Assignment(items, wants, fields) ==
  \E f \in [DOMAIN wants -> DOMAIN items] :
    IsInjective(f) /\ \A w \in DOMAIN wants : captureItemMatches(items[f[w]], wants[w], fields)
SameFields(wants, fields) ==
  \A v, w \in DOMAIN wants : {f \in fields : HasText(wants[v], f)} = {f \in fields : HasText(wants[w], f)}

\* A wait for added items ends only when there is a separate item for each,
\* two alike included, and, if the items name the same fields, it does end
\* then (captureItemsMatched, which takes the first item that fits).
HitIsExact(items, wants, fields) ==
  LET hit == captureItemsMatched(items, wants, fields) IN
  /\ hit => Assignment(items, wants, fields) /\ captureItemsAnyMatched(items, wants, fields)
  /\ wants # <<>> /\ Assignment(items, wants, fields) /\ SameFields(wants, fields) => hit

\* What a command shows of what it changed: every wanted item once, and no
\* found item for two of them (selectOutputMatches with its fallback).
Count(seq, x) == Cardinality({i \in DOMAIN seq : seq[i] = x})
ShownOnce(source, wants, select) ==
  LET shown == selectOutputMatches(source, wants, select) IN
  /\ select.fallback => Len(shown) = Len(wants)
  /\ \A x \in ToSet(shown) : Count(shown, x) <= Count(source, x) + Count(wants, x)
  /\ ~select.fallback => \A x \in ToSet(shown) : Count(shown, x) <= Count(source, x)

\* What was found is what is shown, whatever else a probe brings along: the
\* item under its key, the items under theirs (resourceActionPayload,
\* withResultExtra); a dry run shows neither.
ShowsWhatWasFound(action, input, result) ==
  LET payload == resourceActionPayload(action, input, result)
      dry == result.dryRun \/ "dry_run" \in DOMAIN input IN
  /\ ~dry /\ result.item # <<>> /\ action # "list" => "one" \in DOMAIN payload /\ payload["one"] = result.item
  /\ action = "list" => payload["many"] = result.items
  /\ action \in {"create", "update", "delete"} =>
       /\ "actions" \in DOMAIN payload /\ payload["actions"] = result.actions
       /\ dry /\ "one" \notin DOMAIN result.extra => "one" \notin DOMAIN payload
=============================================================================
