----------------------------- MODULE Collection -----------------------------
(***************************************************************************)
(* How a list command collects a paged collection that changes while it is *)
(* being read: pkg/engine/probe.go (--all, by page number or by token) and *)
(* pkg/cli/resource.go (one page a command, its reader following next_page *)
(* or next_token).                                                         *)
(***************************************************************************)
EXTENDS FiniteSets, FiniteSetsExt, Naturals, Sequences, SequencesExt

CONSTANTS Items,         \* positions in the service's order; items come in it
          Unnamed,       \* the items whose answer carries no id
          Limits,        \* page sizes
          MaxTokenPages, \* maxAllTokenPages
          MaxChanges     \* bound: items added or removed while the pages are read

ASSUME CollectionAssumption ==
  Items \subseteq Nat \ {0} /\ IsFiniteSet(Items) /\ Limits \subseteq Nat \ {0}

VARIABLES mode,    \* "page" or "token", the mapping of the probe's request
          all,     \* whether --all is given
          limit,   \* the page size
          list,    \* what the service has
          added,   \* what came since the command started
          removed, \* what went since then
          page,    \* the next page number
          token,   \* the position to continue from
          asked,   \* seenTokens
          total,   \* combined.Total: <<>> before the first page
          got,     \* combined.Items
          outcome  \* "running", "complete", or how the command failed

NoToken == 0
serviceVars == <<list, added, removed>>
commandVars == <<mode, all, limit>>

-----------------------------------------------------------------------------
\* What the service answers.
InOrder(items) ==
  [n \in 1..Cardinality(items) |-> CHOOSE i \in items : Cardinality({j \in items : j < i}) = n - 1]
Piece(items, first, last) == SubSeq(items, first, Min({last, Len(items)}))
PageOf(n) == Piece(InOrder(list), (n - 1) * limit + 1, n * limit)

\* A token names the next position.  What is answered to one may hold less
\* than the limit, or nothing, and carries a token if the service has more.
From(position) == {i \in list : i >= position}
TokenPage(n) ==
  LET items == Piece(InOrder(From(token)), 1, n)
      next == IF items = <<>> THEN Max({token, 1}) ELSE Last(items) + 1 IN
  [items |-> items, next |-> IF From(next) = {} THEN NoToken ELSE next]
TokenPages == {TokenPage(n) : n \in 0..limit}

\* mapProbeResponse: an item without an id stays without, and a total of
\* nothing is replaced by the number of items.
Ids(items) == ToSet(items) \ Unnamed
TotalOf(items) == IF list = {} THEN Len(items) ELSE Cardinality(list)

\* An id that was there already, or twice in this page; the service's page
\* holds none twice.
MutRepeats(items) == FALSE \* mutant: the ids are not compared
Repeats(items) == Ids(items) \cap Ids(got) # {}

-----------------------------------------------------------------------------
\* A command with --all may name a page or a token to start from.
StartReading ==
  /\ mode \in {"page", "token"} /\ all \in BOOLEAN /\ limit \in Limits
  /\ list \in SUBSET Items /\ added = {} /\ removed = {}
  /\ page \in IF all /\ mode = "page" THEN {1, 2} ELSE {1}
  /\ token \in IF all /\ mode = "token" THEN {NoToken, 1} ELSE {NoToken}
  /\ asked = {} /\ total = <<>> /\ got = <<>>
  /\ outcome = IF all /\ (page # 1 \/ token # NoToken) THEN "InvalidAllPages" ELSE "running"

\* runAllProbePages, one page.
AllPage ==
  /\ outcome = "running" /\ all /\ mode = "page"
  /\ LET items == PageOf(page)
         first == IF total = <<>> THEN TotalOf(items) ELSE total[1]
         now == got \o items IN
     /\ total' = <<first>>
     /\ IF \/ TotalOf(items) # first
           \/ Len(items) > limit
           \/ items = <<>> /\ Len(got) < first
           \/ Repeats(items)
           \/ Len(now) > first
           \/ Len(now) < first /\ Len(items) < limit
        THEN outcome' = "IncompletePagination" /\ got' = <<>>
        ELSE outcome' = (IF Len(now) = first THEN "complete" ELSE "running") /\ got' = now
  /\ page' = page + 1
  /\ UNCHANGED <<commandVars, serviceVars, token, asked>>

\* runAllTokenProbePages, one page: here every item needs an id.
GoesOn(next) == next \notin asked /\ Cardinality(asked) + 1 # MaxTokenPages
AllTokenPage ==
  /\ outcome = "running" /\ all /\ mode = "token"
  /\ \E answer \in TokenPages :
       LET items == answer.items next == answer.next IN
       IF ToSet(items) \cap Unnamed # {} \/ Repeats(items) \/ (next # NoToken /\ ~GoesOn(next))
       THEN outcome' = "IncompletePagination" /\ got' = <<>> /\ UNCHANGED <<token, asked>>
       ELSE /\ outcome' = IF next = NoToken THEN "complete" ELSE "running"
            /\ got' = got \o items /\ token' = next /\ asked' = asked \cup ({next} \ {NoToken})
  /\ UNCHANGED <<commandVars, serviceVars, page, total>>

\* paginationPayload and tokenPaginationPayload.
MutHasMore(items) == Len(items) = limit /\ (page + 1) * limit < TotalOf(items) \* mutant: the last page is not announced
HasMore(items) == page * limit < TotalOf(items)

\* A list command without --all, and its reader asking for the next page.
ShowPage ==
  /\ outcome = "running" /\ ~all
  /\ \/ /\ mode = "page"
        /\ LET items == PageOf(page) IN
           got' = got \o items /\ page' = page + 1 /\ outcome' = IF HasMore(items) THEN "running" ELSE "complete"
        /\ UNCHANGED <<token, asked>>
     \/ /\ mode = "token"
        /\ \E answer \in TokenPages :
             /\ got' = got \o answer.items /\ token' = answer.next
             /\ outcome' = IF answer.next = NoToken THEN "complete" ELSE "running"
        /\ UNCHANGED <<page, asked>>
  /\ UNCHANGED <<commandVars, serviceVars, total>>

\* runProbe fails: what was collected is not shown.
CallFails ==
  /\ outcome = "running" /\ outcome' = "CallFailed" /\ got' = <<>>
  /\ UNCHANGED <<commandVars, serviceVars, page, token, asked, total>>

\* Others change the collection; an item that went does not come back.
ListChanges ==
  /\ outcome = "running" /\ Cardinality(added) + Cardinality(removed) < MaxChanges
  /\ \/ \E i \in Items \ (list \cup removed) :
          list' = list \cup {i} /\ added' = added \cup {i} /\ UNCHANGED removed
     \/ \E i \in list : list' = list \ {i} /\ removed' = removed \cup {i} /\ UNCHANGED added
  /\ UNCHANGED <<commandVars, page, token, asked, total, got, outcome>>

ReadOn == AllPage \/ AllTokenPage \/ ShowPage \/ CallFails \/ ListChanges

-----------------------------------------------------------------------------
Shown == ToSet(got)

\* A collection that does not change is shown whole and nothing of it twice,
\* with --all or by following next_page and next_token (runAllProbePages,
\* paginationPayload).
UnchangedIsWhole ==
  outcome = "complete" /\ added = {} /\ removed = {} => Shown = list /\ Len(got) = Cardinality(list)

\* Of one that changes, --all shows no id twice; by token it misses nothing
\* that stayed, and by page number only where it shows something that has
\* gone, provided that every item has an id (runAllProbePages).
AllIsHonest ==
  outcome = "complete" /\ all =>
    LET missed == (list \ added) \ Shown IN
    /\ \A m, n \in DOMAIN got : m # n /\ got[m] = got[n] => got[m] \in Unnamed
    /\ mode = "token" => missed = {}
    /\ mode = "page" /\ Shown \cap Unnamed = {} => Cardinality(missed) <= Cardinality(Shown \cap removed)
=============================================================================
