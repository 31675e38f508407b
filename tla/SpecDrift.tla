----------------------------- MODULE SpecDrift -----------------------------
(***************************************************************************)
(* What specdrift compares (internal/drift/drift.go,                       *)
(* pkg/spec/coverage.go): the request parameters the OpenAPI metadata      *)
(* declares now, those it declared when the baseline was recorded, and     *)
(* those a binding's request maps.                                         *)
(*                                                                         *)
(* A parameter is the sequence of its name's parts: <<"Tag", "Key">> is    *)
(* Tag.Key.  A name two parts deep shows every rule about groups.          *)
(***************************************************************************)
EXTENDS Integers, Sequences, FiniteSets, SequencesExt

CONSTANTS Bindings,
          Parameters,         \* the names metadata uses
          frameworkHandled    \* parameters the caller sets itself: RegionId and tokens

ASSUME ParametersAssumption == \A p \in Parameters : \E n \in 1..2 : p \in [1..n -> STRING]

KindMissing == "missing"
KindRemoved == "removed"
KindUncovered == "uncovered"

Related(p, q) == IsPrefix(p, q) \/ IsPrefix(q, p)

\* A mapping of the parameter itself, of a group it is in, or of a part of it.
leafCovered(p, covered) == \E q \in covered : Related(p, q)
pathRelatedToParameters(p, parameters) == \E q \in parameters : Related(p, q)
liveHasAncestor(p, live) == \E q \in live : IsStrictPrefix(q, p)

\* What the baseline keeps of a binding.
effectiveCovered(live, covered) ==
  {p \in covered \ frameworkHandled : pathRelatedToParameters(p, live)}
BaselineEntry(live, covered) == [parameters |-> live, covered |-> effectiveCovered(live, covered)]

\* Report.diffBinding.
Missing(live, entry, covered) ==
  {p \in live \ (entry.parameters \cup frameworkHandled) : ~leafCovered(p, covered)}
Removed(live, entry, covered) ==
  {p \in entry.parameters \ (live \cup frameworkHandled) :
     leafCovered(p, covered) /\ ~liveHasAncestor(p, live)}
Uncovered(live, entry, covered) ==
  {p \in entry.covered \ frameworkHandled :
     pathRelatedToParameters(p, entry.parameters) /\ ~leafCovered(p, covered)}

diffBinding(b, live, entry, covered) ==
  {[binding |-> b, kind |-> KindMissing, param |-> p] : p \in Missing(live, entry, covered)}
    \cup {[binding |-> b, kind |-> KindRemoved, param |-> p] : p \in Removed(live, entry, covered)}
    \cup {[binding |-> b, kind |-> KindUncovered, param |-> p] : p \in Uncovered(live, entry, covered)}

\* DetectResources.  request gives the bindings the specs have; one the
\* baseline does not know is a gap.
Detect(live, baseline, request) ==
  LET known == DOMAIN request \cap DOMAIN baseline
      items == UNION {diffBinding(b, live[b], baseline[b], request[b]) : b \in known}
  IN  [items |-> items, gaps |-> DOMAIN request \ known]
=============================================================================
