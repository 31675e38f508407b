---------------------------- MODULE MetadataDiff ----------------------------
(***************************************************************************)
(* How two revisions of an API's metadata are compared and the differences *)
(* judged (internal/drift/metadata_diff.go).  A document is a function     *)
(* from the paths of its JSON tree to what is there: "map" for an object,  *)
(* a set for a leaf (an enum's values; a one-element set for a type or a   *)
(* flag).  The metadata of an API that does not exist is NoDocument.       *)
(***************************************************************************)
EXTENDS Naturals, Sequences

IsMap == {"map"}
True == {"true"}
False == {"false"}
Absent == {}
NoDocument == [p \in {} |-> Absent]

At(doc, path) == IF path \in DOMAIN doc THEN doc[path] ELSE Absent
Parent(path) == SubSeq(path, 1, Len(path) - 1)
Last(path) == path[Len(path)]

-----------------------------------------------------------------------------
\* ignoredMetadataKey: prose.
ignoredMetadataKey == {"description", "example", "title", "summary"}

\* What holds named nodes.
Containers == {"properties", "schemas", "parameters", "fields"}

MutIgnored(path, i) == path[i] \in ignoredMetadataKey \* mutant: names are taken for prose
\* normalizeMetadata leaves prose out, but not a property or schema of such a
\* name; a parameter's name is no key at all.
Ignored(path, i) ==
  path[i] \in ignoredMetadataKey /\ path[i - 1] \notin Containers

\* semanticOperation.
Sections == {"method", "protocol", "pathPattern", "operation", "parameters", "responses", "components"}
semanticOperation(doc) ==
  [p \in {p \in DOMAIN doc : p[1] \in Sections /\ \A i \in 2..Len(p) : ~Ignored(p, i)} |-> doc[p]]

\* diffMetadataMaps: objects on both sides are gone into, anything else is
\* compared as a whole.
BothMaps(before, after, path) == At(before, path) = IsMap /\ At(after, path) = IsMap
diffMetadataMaps(before, after) ==
  {p \in DOMAIN before \cup DOMAIN after :
    /\ At(before, p) # At(after, p)
    /\ Len(p) = 1 \/ BothMaps(before, after, Parent(p))}

-----------------------------------------------------------------------------
(* metadataCompatibility.                                                  *)

\* A parameter's flag may be dropped, and set only to false; anything else of
\* that name is not known.
Required(old, next) ==
  IF {old, next} \subseteq {Absent, True, False} THEN IF next = True THEN "breaking" ELSE "compatible"
  ELSE "unknown"

\* Values may be added to an enum, or the enum may go.
MutEnum(old, next) == IF old # Absent /\ next # Absent /\ next \subseteq old THEN "compatible" ELSE "breaking" \* mutant: the wrong way round
Enum(old, next) ==
  IF old = Absent THEN "breaking" ELSE IF next = Absent THEN "compatible"
  ELSE IF IsMap \in {old, next} THEN "unknown"
  ELSE IF old \subseteq next THEN "compatible" ELSE "breaking"

\* An optional parameter may be added, but only at the top.
MutAdded(after, path) == IF Len(path) = 2 THEN "compatible" ELSE "unknown" \* mutant: a required one too
Added(after, path) ==
  CASE At(after, path) = IsMap /\ At(after, path \o <<"required">>) = True -> "breaking"
    [] At(after, path) = IsMap /\ At(after, path \o <<"required">>) # True ->
         IF Len(path) = 2 THEN "compatible" ELSE "unknown"
    [] OTHER -> "unknown"

OfParameter(before, after, path) ==
  LET old == At(before, path) next == At(after, path) IN
  CASE Last(path) = "location" -> "unknown"
    [] Last(path) = "required" -> Required(old, next)
    [] Last(path) = "enum" -> Enum(old, next)
    [] Last(path) = "type" -> IF Absent \in {old, next} THEN "unknown" ELSE "breaking"
    [] OTHER -> IF next = Absent THEN "breaking" ELSE IF old = Absent THEN Added(after, path) ELSE "unknown"

OfResponse(before, after, path) ==
  LET old == At(before, path) next == At(after, path) IN
  CASE next = Absent \/ Last(path) = "type" -> "breaking"
    [] next # Absent /\ Last(path) # "type" /\ old = Absent ->
         IF path[1] = "responses" /\ Len(path) = 2 THEN "unknown" ELSE "compatible"
    [] OTHER -> "unknown"

metadataCompatibility(before, after, path) ==
  CASE path[1] \in {"method", "protocol", "pathPattern"} -> "breaking"
    [] path[1] = "parameters" /\ Len(path) > 1 -> OfParameter(before, after, path)
    [] path[1] \in {"responses", "components"} /\ Len(path) > 1 -> OfResponse(before, after, path)
    [] OTHER -> "unknown"

\* CompareMetadataResources, for one API: its paths that differ and how.  An
\* API that goes is breaking and one that comes is not known to be anything.
Changes(base, candidate) ==
  LET before == semanticOperation(base)
      after == semanticOperation(candidate)
      judged == [p \in diffMetadataMaps(before, after) |->
                  IF base = NoDocument THEN "unknown" ELSE metadataCompatibility(before, after, p)] IN
  IF base = candidate THEN NoDocument
  ELSE IF candidate = NoDocument
    THEN [p \in DOMAIN judged \cup {<<"api">>} |-> IF p = <<"api">> THEN "breaking" ELSE judged[p]]
  ELSE judged
Compatible(changes) == \A p \in DOMAIN changes : changes[p] = "compatible"

-----------------------------------------------------------------------------
(* What a document means to a caller.                                      *)

\* A request is a function from the paths of parameters to the values given:
\* each is known, what its parent's type allows, of the enum if there is one,
\* and every required parameter of a parent that is given is given too.
IsParameter(path) == Len(path) > 1 /\ path[1] = "parameters" /\ path[Len(path) - 1] \in {"parameters", "fields"}
Parameters(doc) == {p \in DOMAIN doc : IsParameter(p)}
Owner(path) == SubSeq(path, 1, Len(path) - 2)
Given(request, path) == path \in DOMAIN request
Accepts(doc, request) ==
  /\ doc # NoDocument
  /\ \A p \in DOMAIN request :
       /\ p \in Parameters(doc)
       /\ At(doc, p \o <<"enum">>) # Absent => request[p].value \in At(doc, p \o <<"enum">>)
       /\ request[p].type \in At(doc, p \o <<"type">>)
  /\ \A p \in Parameters(doc) :
       /\ At(doc, p \o <<"required">>) = True
       /\ Len(p) = 2 \/ Given(request, Owner(p))
       => Given(request, p)

\* A document is a tree of its sections and their prose: what has a name is an
\* object, prose has none and is a leaf.  A parameter called enum, which the
\* code takes for a list of values, is none of it, nor one called like what
\* holds names.
IsProse(doc, path) == Last(path) \in ignoredMetadataKey /\ doc[path] # IsMap
IsDocument(doc) ==
  /\ \A p \in DOMAIN doc :
       /\ p \in Seq(STRING) \ {<<>>} /\ doc[p] # Absent
       /\ IF Len(p) = 1 THEN p[1] \in Sections \/ IsProse(doc, p)
          ELSE /\ Parent(p) \in DOMAIN doc /\ doc[Parent(p)] = IsMap
               /\ p[Len(p) - 1] \in Containers => doc[p] = IsMap
               /\ p[Len(p) - 1] \notin Containers /\ Last(p) \in ignoredMetadataKey => doc[p] # IsMap
               /\ p[1] = "parameters" /\ Last(p) = "enum" => doc[p] # IsMap
  /\ doc = NoDocument \/ \E p \in DOMAIN doc : ~IsProse(doc, p)

\* What a reader of the response relies on: the properties with their types.
Promised(doc) == {<<p, doc[p]>> : p \in {p \in DOMAIN doc : p[1] = "responses" /\ Last(p) = "type"}}

\* When every difference is judged compatible, each request that the old API
\* accepts is accepted by the new one, and its response still has every
\* property, of its type (metadataCompatibility).
CompatibleKeepsCallers(base, candidate, changes, requests) ==
  Compatible(changes) =>
    /\ \A request \in requests : Accepts(base, request) => Accepts(candidate, request)
    /\ Promised(base) \subseteq Promised(candidate)

\* Prose alone is no change, and a property that is called like prose is one.
ProseAside(doc) ==
  [p \in {p \in DOMAIN doc : ~IsProse(doc, p)} |-> doc[p]]
OnlyProseIgnored(base, candidate, changes) ==
  DOMAIN changes = {} <=> ProseAside(base) = ProseAside(candidate)
=============================================================================
