------------------------------ MODULE SpecSync ------------------------------
(***************************************************************************)
(* Keeping the resource specs up with the OpenAPI metadata                 *)
(* (internal/specsync, cmd/specdrift): `specdrift detect` writes a report, *)
(* `specdrift sync` plans every edit of it in memory and then replaces the *)
(* spec files and the plan file together, undoing what it replaced when    *)
(* one cannot be.                                                          *)
(*                                                                         *)
(* A spec file has schema fields (paths like parameters), a request        *)
(* mapping per binding, and the input fields of each operation; the YAML   *)
(* lines that spell them are left out, and with them the blocks a line     *)
(* editor may fail to find, but for the one that depends on earlier edits: *)
(* the group of a nested parameter.  Nobody else writes the spec           *)
(* directory while a sync runs.                                            *)
(***************************************************************************)
EXTENDS SpecDrift, Functions

CONSTANTS Resources,
          ResourceOf,       \* the resource of each binding
          UsedBy,           \* the operations whose workflow calls each binding
          snakeCase,        \* a part of a name -> the field it becomes
          pluralize,        \* that field -> its plural
          Traits,           \* a parameter -> why it needs a person, as a set
          FirstLive,        \* the parameters of each binding in the beginning
          FirstFields,      \* and the fields of each resource
          Leaves,           \* the parameters metadata may add or drop
          PlanOrder,        \* every report item, in the order plans have
          MaxChanges        \* bound: changes to the metadata and by people

PlanFile == "drift-plan.json"
Kinds == {KindMissing, KindRemoved, KindUncovered}
Items == [binding : Bindings, kind : Kinds, param : Parameters]

\* A field is a sequence of names too, and the group it is in is a field.
Grouped(fields) == \A f \in fields : Len(f) = 2 => <<f[1]>> \in fields

ASSUME ResourcesAssumption ==
  /\ IsFiniteSet(Resources) /\ PlanFile \notin Resources
  /\ ResourceOf \in [Bindings -> Resources]
  /\ FirstLive \in [Bindings -> SUBSET Parameters] /\ Leaves \subseteq Parameters
  /\ \A r \in Resources : Grouped(FirstFields[r])
ASSUME OrderAssumption == PlanOrder \in Seq(Items) /\ Items \subseteq Range(PlanOrder)
ASSUME MaxChangesAssumption == MaxChanges \in Nat

\* What may be missing is a sequence of at most one.
Nothing == <<>>
Just(x) == <<x>>
The(x) == x[1]

VARIABLES live,       \* the embedded metadata: the parameters of each binding
          baseline,   \* drift-baseline.json
          specs,      \* the spec files
          plan,       \* the plan file, or Nothing
          report,     \* drift.json, or Nothing
          sync,       \* the sync under way
          changes     \* changes made

vars == <<live, baseline, specs, plan, report, sync, changes>>

Outputs == Resources \cup {PlanFile}
BindingsOf(r) == {b \in Bindings : ResourceOf[b] = r}
OperationsOf(r) == UNION {UsedBy[b] : b \in BindingsOf(r)}
RequestsIn(files) ==
  [b \in UNION {DOMAIN files[r].request : r \in Resources} |-> files[ResourceOf[b]].request[b]]

FirstSpec(r) ==
  [fields |-> FirstFields[r],
   request |-> [b \in BindingsOf(r) |-> FirstLive[b]],
   input |-> [o \in OperationsOf(r) |-> {}]]

NoSync == [at |-> "idle", queue |-> <<>>, staged |-> <<>>, replaced |-> 0, temps |-> {}, result |-> "none",
           broken |-> FALSE, before |-> Nothing, goal |-> Nothing]

Init ==
  /\ live = FirstLive
  /\ specs = [r \in Resources |-> FirstSpec(r)]
  /\ baseline = [b \in Bindings |-> BaselineEntry(FirstLive[b], FirstLive[b])]
  /\ plan = Nothing /\ report = Nothing /\ changes = 0
  /\ sync = NoSync

-----------------------------------------------------------------------------
(* Planning, item by item, each on the files the earlier ones left.        *)

Idle == sync.at = "idle"

fieldPath(p) == [i \in DOMAIN p |-> snakeCase[p[i]]]
normalizedFieldKey(item) == <<ResourceOf[item.binding], fieldPath(item.param)>>

\* Parameters of one resource that would become the same field.
MutCollisions(items) == {}   \* mutant: no collision is looked for
Collisions(items) ==
  LET missing == {i \in items : i.kind = KindMissing}
  IN  {normalizedFieldKey(i) : i \in {i \in missing : \E j \in missing :
         j.param # i.param /\ normalizedFieldKey(j) = normalizedFieldKey(i)}}

\* schemaParentLocation: a group is the first of its name and its plural that
\* is a field, provided that it has fields of its own.
GroupNames(part) == {snakeCase[part], pluralize[snakeCase[part]]}
GroupName(fields, part) ==
  IF <<snakeCase[part]>> \in fields THEN snakeCase[part] ELSE pluralize[snakeCase[part]]
IsGroup(fields, name) == <<name>> \in fields /\ \E f \in fields : Len(f) = 2 /\ f[1] = name

\* The field a parameter is given, and whether its group is there.
HasGroup(fields, p) == Len(p) = 1 \/ IsGroup(fields, GroupName(fields, p[1]))
FieldFor(fields, p) ==
  IF Len(p) = 1 THEN <<snakeCase[p[1]]>> ELSE <<GroupName(fields, p[1]), snakeCase[p[2]]>>

\* What a person has to model: names that are no identifiers, required
\* parameters, types that are not scalar, references to other resources,
\* billing and permissions, enumerations.
flagForItem(item) == Traits[item.param]

\* The guards of planItem: everything else is flagged.
NeedsPerson(item, spec, collisions) ==
  \/ item.kind # KindMissing
  \/ item.binding \notin DOMAIN spec.request
  \/ normalizedFieldKey(item) \in collisions
  \/ UsedBy[item.binding] = {}
  \/ flagForItem(item) # {}
  \/ ~HasGroup(spec.fields, item.param)

\* A nested mapping goes into its group's, which must be spelt out already.
HasBlock(item, spec) ==
  \/ Len(item.param) = 1
  \/ \E q \in spec.request[item.binding] : Len(q) = 2 /\ q[1] = item.param[1]

\* addOperationField, in the operations the binding is used by.
Exposing(input, b, name) ==
  [o \in DOMAIN input |-> IF o \in UsedBy[b] THEN input[o] \cup {name} ELSE input[o]]

\* planTopLevel, planNested: the field, its mapping and the operations that
\* expose it.
MutExposes(item, spec) ==   \* mutant: only the first operation exposes the field
  LET f == FieldFor(spec.fields, item.param)
      o == CHOOSE o \in UsedBy[item.binding] : TRUE
  IN  [fields |-> spec.fields \cup {f},
       request |-> [spec.request EXCEPT ![item.binding] = @ \cup {item.param}],
       input |-> [spec.input EXCEPT ![o] = @ \cup {f[1]}]]
WithItem(item, spec) ==
  LET f == FieldFor(spec.fields, item.param)
  IN  [fields |-> spec.fields \cup {f},
       request |-> [spec.request EXCEPT ![item.binding] = @ \cup {item.param}],
       input |-> Exposing(spec.input, item.binding, f[1])]

MutPlanItem(work, item, collisions) ==
  \* mutant: a mapping already there is added again, which the parser refuses
  LET r == ResourceOf[item.binding] spec == work.files[r] IN
  IF work.failed \/ NeedsPerson(item, spec, collisions) THEN work
  ELSE [files |-> [work.files EXCEPT ![r] = WithItem(item, spec)],
        plan |-> Append(work.plan, [item |-> item, action |-> "patched"]),
        failed |-> item.param \in spec.request[item.binding]]
planItem(work, item, collisions) ==
  LET r == ResourceOf[item.binding] spec == work.files[r] IN
  IF work.failed THEN work
  ELSE IF NeedsPerson(item, spec, collisions)
  THEN [work EXCEPT !.plan = Append(@, [item |-> item, action |-> "flagged"])]
  ELSE IF WithItem(item, spec) = spec
  THEN [work EXCEPT !.plan = Append(@, [item |-> item, action |-> "already-synced"])]
  ELSE IF ~HasBlock(item, spec) THEN [work EXCEPT !.failed = TRUE]
  ELSE [work EXCEPT !.files[r] = WithItem(item, spec),
                    !.plan = Append(@, [item |-> item, action |-> "patched"])]

\* planReport: one item after the other, the missing ones first.
planReport(items, files) ==
  LET steps == {0} \cup {n \in DOMAIN PlanOrder : PlanOrder[n] \in items}
      collisions == Collisions(items)
      work[n \in steps] ==
        IF n = 0 THEN [files |-> files, plan |-> <<>>, failed |-> FALSE]
        ELSE planItem(work[Max({m \in steps : m < n})], PlanOrder[n], collisions)
  IN  work[Max(steps)]

-----------------------------------------------------------------------------
(* specdrift sync.                                                         *)

\* The spec files to write, in some order.
Changed(goal) == {r \in Resources : goal.files[r] # specs[r]}
Orders(S) == {q \in [1..Cardinality(S) -> S] : Range(q) = S}

\* Where the user wants the plan: nowhere, in its file, or, by mistake, over
\* a spec.  With -dry-run nothing but the plan is written.
Start ==
  /\ Idle /\ report # Nothing
  /\ LET goal == planReport(The(report).items, specs)
         outputs == {PlanFile} \cup Changed(goal)
     IN \E planOut \in {Nothing} \cup {Just(f) : f \in outputs}, dryRun \in BOOLEAN,
           order \in Orders(Changed(goal)) :
       /\ dryRun => planOut = Just(PlanFile)
       /\ sync' = IF goal.failed THEN [NoSync EXCEPT !.result = "failed"]
                  ELSE [NoSync EXCEPT !.at = "stage", !.goal = Just(goal),
                          !.before = Just([specs |-> specs, plan |-> plan]),
                          !.queue = (IF dryRun THEN <<>> ELSE order) \o planOut]
  /\ UNCHANGED <<live, baseline, specs, plan, report, changes>>

\* stageFileUpdates: each output is read and its replacement written beside
\* it.  The same file twice, or any failure, ends the run with nothing staged.
Exists(file) == file # PlanFile \/ plan # Nothing
Contents(file) == IF file = PlanFile THEN plan ELSE specs[file]
IsStaged(file) == \E i \in DOMAIN sync.staged : sync.staged[i].file = file

Stage ==
  /\ sync.at = "stage" /\ sync.queue # <<>>
  /\ ~IsStaged(Head(sync.queue))
  /\ LET file == Head(sync.queue) IN
     sync' = [sync EXCEPT !.queue = Tail(@), !.temps = @ \cup {file},
                          !.staged = Append(@, [file |-> file, existed |-> Exists(file),
                                                original |-> Contents(file)])]
  /\ UNCHANGED <<live, baseline, specs, plan, report, changes>>

StagedFiles == {sync.staged[i].file : i \in DOMAIN sync.staged}
End(result, temps) ==
  [NoSync EXCEPT !.result = result, !.temps = temps, !.broken = sync.broken,
                 !.before = sync.before, !.goal = sync.goal]

\* cleanupStagedUpdates, also after the disk refused to write.
StageFails ==
  /\ sync.at = "stage" /\ sync.queue # <<>>
  /\ sync' = End("failed", sync.temps \ StagedFiles)
  /\ UNCHANGED <<live, baseline, specs, plan, report, changes>>

Put(file, contents) ==
  IF file = PlanFile THEN plan' = contents /\ UNCHANGED specs
  ELSE specs' = [specs EXCEPT ![file] = contents] /\ UNCHANGED plan
Planned(file) == IF file = PlanFile THEN Just(The(sync.goal).plan) ELSE The(sync.goal).files[file]

\* commitFileUpdates: one rename after the other.
Replace ==
  /\ sync.at = "stage" /\ sync.queue = <<>> /\ sync.replaced < Len(sync.staged)
  /\ LET file == sync.staged[sync.replaced + 1].file IN
     /\ Put(file, Planned(file))
     /\ sync' = [sync EXCEPT !.replaced = @ + 1, !.temps = @ \ {file}]
  /\ UNCHANGED <<live, baseline, report, changes>>

MutReplaceFails ==   \* mutant: the last file replaced is not put back
  /\ sync.at = "stage" /\ sync.queue = <<>> /\ sync.replaced < Len(sync.staged)
  /\ sync' = [sync EXCEPT !.at = "rollback", !.replaced = IF @ > 0 THEN @ - 1 ELSE @]
  /\ UNCHANGED <<live, baseline, specs, plan, report, changes>>
ReplaceFails ==
  /\ sync.at = "stage" /\ sync.queue = <<>> /\ sync.replaced < Len(sync.staged)
  /\ sync' = [sync EXCEPT !.at = "rollback"]
  /\ UNCHANGED <<live, baseline, specs, plan, report, changes>>

\* rollbackFileUpdates, the last replaced first; one that cannot be restored
\* does not keep the others from it.  Only the plan may be new, and it is
\* replaced last.
Rollback ==
  /\ sync.at = "rollback" /\ sync.replaced > 0
  /\ LET u == sync.staged[sync.replaced] IN
     \/ /\ Put(u.file, IF u.existed THEN u.original ELSE Nothing)
        /\ sync' = [sync EXCEPT !.replaced = @ - 1]
     \/ /\ sync' = [sync EXCEPT !.replaced = @ - 1, !.broken = TRUE]
        /\ UNCHANGED <<specs, plan>>
  /\ UNCHANGED <<live, baseline, report, changes>>

\* The deferred removal of every temporary file staged, then the end.
Finish ==
  /\ \/ sync.at = "stage" /\ sync.queue = <<>> /\ sync.replaced = Len(sync.staged)
     \/ sync.at = "rollback" /\ sync.replaced = 0
  /\ sync' = End(IF sync.at = "stage" THEN "done" ELSE "failed", sync.temps \ StagedFiles)
  /\ UNCHANGED <<live, baseline, specs, plan, report, changes>>

\* Nobody removes the temporary files of a run that was killed.
Kill ==
  /\ ~Idle
  /\ sync' = End("killed", sync.temps)
  /\ UNCHANGED <<live, baseline, specs, plan, report, changes>>

-----------------------------------------------------------------------------
(* Between two syncs: detection, a new baseline, new metadata, people.     *)

\* A report stands for itself: what it says of the specs may be old by the
\* time it is used.
DetectDrift ==
  /\ Idle
  /\ report' = Just(Detect(live, baseline, RequestsIn(specs))) /\ report' # report
  /\ sync' = NoSync
  /\ UNCHANGED <<live, baseline, specs, plan, changes>>

\* CollectBaseline and WriteBaseline, by rename.
RefreshBaseline ==
  /\ Idle
  /\ baseline' = [b \in DOMAIN RequestsIn(specs) |-> BaselineEntry(live[b], RequestsIn(specs)[b])]
  /\ baseline' # baseline
  /\ sync' = NoSync
  /\ UNCHANGED <<live, specs, plan, report, changes>>

UpdateMetadata ==
  /\ Idle /\ changes < MaxChanges
  /\ \E b \in Bindings, p \in Leaves :
       live' = [live EXCEPT ![b] = IF p \in @ THEN @ \ {p} ELSE @ \cup {p}]
  /\ changes' = changes + 1 /\ sync' = NoSync
  /\ UNCHANGED <<baseline, specs, plan, report>>

\* People drop a mapping or a whole binding.
EditSpec ==
  /\ Idle /\ changes < MaxChanges
  /\ \E b \in DOMAIN RequestsIn(specs) : LET r == ResourceOf[b] IN
       \/ \E p \in specs[r].request[b] :
            specs' = [specs EXCEPT ![r].request[b] = @ \ {p}]
       \/ specs' = [specs EXCEPT ![r].request = [c \in DOMAIN @ \ {b} |-> @[c]]]
  /\ changes' = changes + 1 /\ sync' = NoSync
  /\ UNCHANGED <<live, baseline, plan, report>>

Run == Start \/ Stage \/ StageFails \/ Replace \/ ReplaceFails \/ Rollback \/ Finish
Next == Run \/ Kill \/ DetectDrift \/ RefreshBaseline \/ UpdateMetadata \/ EditSpec

Spec == Init /\ [][Next]_vars

-----------------------------------------------------------------------------
(* Properties.                                                             *)

Actions == {"patched", "flagged", "already-synced"}

\* Every variable keeps its shape: a spec never maps a parameter outside the
\* metadata's, exposes fields its schema does not have, or loses an operation.
TypeOK ==
  /\ live \in [Bindings -> SUBSET Parameters] /\ changes \in 0..MaxChanges
  /\ \A b \in DOMAIN baseline : baseline[b].covered \cup baseline[b].parameters \subseteq Parameters
  /\ \A r \in Resources :
       /\ DOMAIN specs[r].request \subseteq BindingsOf(r)
       /\ DOMAIN specs[r].input = OperationsOf(r)
       /\ \A o \in OperationsOf(r) : {<<n>> : n \in specs[r].input[o]} \subseteq specs[r].fields
  /\ \A i \in DOMAIN plan : \A j \in DOMAIN plan[i] : plan[i][j].action \in Actions
  /\ sync.at \in {"idle", "stage", "rollback"} /\ sync.replaced \in 0..Len(sync.staged)

\* transaction.go: a run that says it failed left every file as it was, unless
\* a file could not be restored, and one that says it succeeded wrote all of
\* them; either way no temporary file of it is left.
AllOrNothing ==
  /\ Idle /\ sync.result # "killed" => sync.temps = {}
  /\ Idle /\ sync.result = "failed" /\ sync.before # Nothing /\ ~sync.broken =>
       The(sync.before) = [specs |-> specs, plan |-> plan]
  /\ Idle /\ sync.result = "done" /\ plan # The(sync.before).plan => plan = Just(The(sync.goal).plan)
  /\ Idle /\ sync.result = "done" /\ specs # The(sync.before).specs => specs = The(sync.goal).files

\* A run cut short anywhere, by a kill or by files it could not restore, is
\* finished by running again: from any mixture of old and new files the report
\* leads to the same specs.
Resumable ==
  sync.goal # Nothing =>
    LET again == planReport(The(report).items, specs)
    IN  ~again.failed /\ again.files = The(sync.goal).files

\* A sync closes the drift it patched: detection no longer reports any of
\* those parameters, and every operation that calls the binding has the field
\* to set it by.
FieldsOf(p) ==
  IF Len(p) = 1 THEN {<<snakeCase[p[1]]>>} ELSE {<<g, snakeCase[p[2]]>> : g \in GroupNames(p[1])}
ClosesDrift ==
  sync.result = "done" /\ specs = The(sync.goal).files =>
    \A i \in DOMAIN The(sync.goal).plan :
      LET item == The(sync.goal).plan[i].item
          spec == specs[ResourceOf[item.binding]]
      IN  The(sync.goal).plan[i].action = "patched" =>
            /\ item \notin Detect(live, baseline, RequestsIn(specs)).items
            /\ \E f \in spec.fields \cap FieldsOf(item.param) :
                 \A o \in UsedBy[item.binding] : f[1] \in spec.input[o]

\* A parameter that a run patched in shares no field with another parameter of
\* the resource, in whichever binding that is mapped, but in two cases for which
\* the planner does not look: the other one was mapped before the run, for only
\* the parameters of one report are compared; or it is of a group whose name is
\* the plural of this one's, or this one's of that one's, for a group may be
\* found by its plural (Tag.Key and Tags.Key are both tags.key).
OneParameterPerField ==
  sync.goal # Nothing =>
    \A i \in DOMAIN The(sync.goal).plan :
      LET item == The(sync.goal).plan[i].item
          r == ResourceOf[item.binding]
          old == The(sync.before).specs[r].request
          new == The(sync.goal).files[r].request
      IN  The(sync.goal).plan[i].action = "patched" =>
            \A b \in DOMAIN new : \A p \in new[b] \ {item.param} :
              FieldsOf(p) \cap FieldsOf(item.param) # {} =>
                \/ p \in old[b]
                \/ Len(p) = 2 /\ snakeCase[p[1]] # snakeCase[item.param[1]]

\* A run takes effect as a whole, now or when it is run again (transaction.go).
RunsAreWhole == TypeOK /\ AllOrNothing /\ Resumable

\* What a run patched is no drift any more and can be set, by a field that the
\* run gave to no other parameter unless its group is named twice (planReport,
\* normalizedFieldCollisions, schemaParentLocation).
SyncIsEffective == ClosesDrift /\ OneParameterPerField
=============================================================================
