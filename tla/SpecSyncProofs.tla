--------------------------- MODULE SpecSyncProofs ---------------------------
(***************************************************************************)
(* What holds of SpecSync for every set of resources, bindings, parameters *)
(* and names: a run takes effect as a whole, now or when it is run again,  *)
(* and what it patched can be set.                                         *)
(***************************************************************************)
EXTENDS SpecSync, TLAPS, FiniteSetTheorems, WellFoundedInduction

-----------------------------------------------------------------------------
(* Induction over the natural numbers, by the least counterexample.        *)

LEMMA LeastNumber ==
  ASSUME NEW T, T \subseteq Nat, T # {}
  PROVE  \E n \in T : \A m \in T : n <= m
<1> DEFINE R == OpToRel(<, Nat)
<1>1. IsWellFoundedOn(R, Nat)
  BY NatLessThanWellFounded
<1>2. \A m, n \in Nat : m < n => <<m, n>> \in R
  BY DEF OpToRel
<1> HIDE DEF R
<1>3. PICK n \in T : \A m \in T : <<m, n>> \notin R
  BY <1>1, WFMin
<1>4. \A m \in T : n <= m
  <2> SUFFICES ASSUME NEW m \in T, ~(n <= m) PROVE FALSE
    OBVIOUS
  <2>1. m \in Nat /\ n \in Nat
    OBVIOUS
  <2>2. m < n
    BY <2>1
  <2>3. <<m, n>> \in R
    BY <2>1, <2>2, <1>2
  <2> QED BY <2>3, <1>3
<1> QED BY <1>4

LEMMA Induction ==
  ASSUME NEW T, 0 \in T, \A n \in Nat : n \in T => n + 1 \in T
  PROVE  \A n \in Nat : n \in T
<1> SUFFICES ASSUME Nat \ T # {} PROVE FALSE
  OBVIOUS
<1>1. PICK n \in Nat \ T : \A m \in Nat \ T : n <= m
  BY LeastNumber
<1>2. n # 0 /\ n - 1 \in Nat
  BY <1>1
<1>3. n - 1 \notin Nat \ T
  BY <1>1, <1>2
<1> QED BY <1>2, <1>3, <1>1

LEMMA MaxOf ==
  ASSUME NEW N \in Nat, NEW S, S \subseteq 0..N, S # {}
  PROVE  Max(S) \in S /\ \A y \in S : y <= Max(S)
<1> DEFINE T == {k \in Nat : N - k \in S}
<1>0. \A x \in S : x \in Nat /\ x <= N /\ N - x \in T
  <2> SUFFICES ASSUME NEW x \in S PROVE x \in Nat /\ x <= N /\ N - x \in T
    OBVIOUS
  <2>1. x \in 0..N
    OBVIOUS
  <2>2. N - x \in Nat /\ N - (N - x) = x
    BY <2>1
  <2> QED BY <2>1, <2>2
<1>1. T \subseteq Nat /\ T # {}
  BY <1>0
<1>2. PICK t \in T : \A u \in T : t <= u
  <2> HIDE DEF T
  <2> QED BY <1>1, LeastNumber
<1>3. \E x \in S : \A y \in S : x >= y
  <2>1. N - t \in S /\ t \in Nat
    OBVIOUS
  <2>2. \A y \in S : N - t >= y
    <3> SUFFICES ASSUME NEW y \in S PROVE N - t >= y
      OBVIOUS
    <3>1. t <= N - y /\ y \in Nat
      BY <1>0, <1>2
    <3> QED BY <3>1, <2>1
  <2> QED BY <2>1, <2>2
<1> QED BY <1>3 DEF Max

-----------------------------------------------------------------------------
(* The planning of a report, position after position of the order.         *)

Last0 == Len(PlanOrder)
FirstWork(files) == [files |-> files, plan |-> <<>>, failed |-> FALSE]
StepOf(x, items, n) ==
  IF PlanOrder[n] \in items THEN planItem(x, PlanOrder[n], Collisions(items)) ELSE x
Walk(w, items, files) ==
  w[0] = FirstWork(files) /\ \A n \in 1..Last0 : w[n] = StepOf(w[n - 1], items, n)

LEMMA LengthOfOrder == Last0 \in Nat /\ DOMAIN PlanOrder = 1..Last0
BY OrderAssumption DEF Last0

LEMMA SomeWalk == ASSUME NEW items, NEW files PROVE \E w : Walk(w, items, files)
<1> DEFINE Upto(w, k) == w[0] = FirstWork(files) /\ \A n \in 1..k : w[n] = StepOf(w[n - 1], items, n)
           T == {k \in Nat : \E w : Upto(w, k)}
<1>1. 0 \in T
  <2> DEFINE w == [n \in {0} |-> FirstWork(files)]
  <2>1. Upto(w, 0)
    OBVIOUS
  <2> QED BY <2>1
<1>2. ASSUME NEW k \in Nat, k \in T PROVE k + 1 \in T
  <2>1. PICK w : Upto(w, k)
    BY <1>2
  <2> DEFINE v == [n \in 0..(k + 1) |-> IF n = k + 1 THEN StepOf(w[k], items, k + 1) ELSE w[n]]
  <2>2. v[0] = FirstWork(files)
    BY <2>1
  <2>3. ASSUME NEW n \in 1..(k + 1) PROVE v[n] = StepOf(v[n - 1], items, n)
    <3>1. v[n - 1] = w[n - 1]
      OBVIOUS
    <3>2. CASE n = k + 1
      BY <3>1, <3>2
    <3>3. CASE n # k + 1
      <4>1. n \in 1..k /\ v[n] = w[n]
        BY <3>3
      <4> QED BY <4>1, <3>1, <2>1
    <3> QED BY <3>2, <3>3
  <2> HIDE DEF v
  <2>4. Upto(v, k + 1)
    BY <2>2, <2>3
  <2> QED BY <2>4
<1>3. Last0 \in T
  <2> HIDE DEF T
  <2> QED BY <1>1, <1>2, Induction, LengthOfOrder
<1> QED BY <1>3 DEF Walk

\* Positions that are not in the report change nothing.
LEMMA WalkSkips ==
  ASSUME NEW items, NEW files, NEW w, Walk(w, items, files),
         NEW p \in 0..Last0, NEW n \in 0..Last0, p <= n,
         \A k \in (p + 1)..n : PlanOrder[k] \notin items
  PROVE  w[n] = w[p]
<1> DEFINE T == {d \in Nat : p + d <= n => w[p + d] = w[p]}
<1>0. Last0 \in Nat
  BY LengthOfOrder
<1>1. 0 \in T
  BY <1>0
<1>2. ASSUME NEW d \in Nat, d \in T PROVE d + 1 \in T
  <2> SUFFICES ASSUME p + (d + 1) <= n PROVE w[p + (d + 1)] = w[p]
    OBVIOUS
  <2> DEFINE k == p + (d + 1)
  <2>1. k \in 1..Last0 /\ k \in (p + 1)..n /\ k - 1 = p + d
    BY <1>0
  <2>2. w[k] = StepOf(w[k - 1], items, k)
    BY <2>1 DEF Walk
  <2>3. w[k] = w[k - 1]
    BY <2>1, <2>2 DEF StepOf
  <2>4. w[p + d] = w[p]
    BY <1>2, <1>0
  <2> QED BY <2>1, <2>3, <2>4
<1>3. n - p \in T
  <2> HIDE DEF T
  <2>1. n - p \in Nat
    BY <1>0
  <2> QED BY <1>1, <1>2, <2>1, Induction
<1> QED BY <1>3, <1>0

LEMMA PlanIsWalk ==
  ASSUME NEW items, NEW files, NEW w, Walk(w, items, files)
  PROVE  planReport(items, files) = w[Last0]
<1> DEFINE steps == {0} \cup {n \in DOMAIN PlanOrder : PlanOrder[n] \in items}
           prev(n) == Max({m \in steps : m < n})
           Body(f, n) == IF n = 0 THEN FirstWork(files) ELSE planItem(f[prev(n)], PlanOrder[n], Collisions(items))
           work == CHOOSE f : f = [n \in steps |-> Body(f, n)]
<1>0. Last0 \in Nat /\ steps \subseteq 0..Last0 /\ 0 \in steps
  BY LengthOfOrder
<1>1. planReport(items, files) = work[Max(steps)]
  BY DEF planReport, FirstWork
<1>2. ASSUME NEW n \in steps, n # 0
      PROVE  prev(n) \in steps /\ prev(n) < n /\ w[n] = planItem(w[prev(n)], PlanOrder[n], Collisions(items))
  <2> DEFINE S == {m \in steps : m < n}
  <2>0. n \in 0..Last0
    BY <1>0
  <2>1. S \subseteq 0..Last0 /\ S # {} /\ n \in 1..Last0
    <3>1. n \in 1..Last0
      BY <2>0, <1>0, <1>2
    <3>2. 0 \in S
      BY <3>1, <1>0
    <3> QED BY <3>1, <3>2, <1>0
  <2>2. Max(S) \in S /\ \A y \in S : y <= Max(S)
    <3> HIDE DEF S
    <3> QED BY <2>1, <1>0, MaxOf
  <2> DEFINE p == Max(S)
  <2>3. \A k \in (p + 1)..(n - 1) : PlanOrder[k] \notin items
    <3> SUFFICES ASSUME NEW k \in (p + 1)..(n - 1), PlanOrder[k] \in items PROVE FALSE
      OBVIOUS
    <3>1. k \in Nat /\ k < n /\ k > p /\ k \in 1..Last0
      BY <2>1, <2>2, <1>0
    <3>2. k \in S
      BY <3>1, LengthOfOrder
    <3> HIDE DEF S
    <3>3. k <= p
      BY <3>2, <2>2
    <3>4. p \in 0..Last0
      BY <2>1, <2>2
    <3> QED BY <3>1, <3>3, <3>4
  <2>4. p \in 0..Last0 /\ n - 1 \in 0..Last0 /\ p <= n - 1
    BY <2>1, <2>2, <1>0
  <2>5. w[n - 1] = w[p]
    <3> HIDE DEF p
    <3> QED BY <2>3, <2>4, WalkSkips
  <2>6. w[n] = StepOf(w[n - 1], items, n) /\ PlanOrder[n] \in items
    BY <2>1, <1>0 DEF Walk
  <2>7. w[n] = planItem(w[n - 1], PlanOrder[n], Collisions(items))
    BY <2>6 DEF StepOf
  <2> QED BY <2>2, <2>5, <2>7
<1>3. w[0] = FirstWork(files)
  BY DEF Walk
<1> HIDE DEF steps, prev
<1>4. [n \in steps |-> w[n]] = [n \in steps |-> Body([m \in steps |-> w[m]], n)]
  <2> SUFFICES ASSUME NEW n \in steps PROVE w[n] = Body([m \in steps |-> w[m]], n)
    OBVIOUS
  <2>1. CASE n = 0
    BY <2>1, <1>3
  <2>2. CASE n # 0
    <3>1. [m \in steps |-> w[m]][prev(n)] = w[prev(n)]
      BY <1>2, <2>2
    <3>2. w[n] = planItem(w[prev(n)], PlanOrder[n], Collisions(items))
      BY <1>2, <2>2
    <3> QED BY <3>1, <3>2, <2>2
  <2> QED BY <2>1, <2>2
<1>5. work = [n \in steps |-> Body(work, n)]
  <2> HIDE DEF Body
  <2> QED BY <1>4
<1>6. \A n \in steps : work[n] = w[n]
  <2> HIDE DEF work
  <2> DEFINE bad == {n \in steps : work[n] # w[n]}
  <2> SUFFICES ASSUME bad # {} PROVE FALSE
    OBVIOUS
  <2>1. bad \subseteq Nat
    <3>1. \A n \in steps : n \in 0..Last0
      BY <1>0
    <3> QED BY <3>1
  <2>2. PICK n \in bad : \A m \in bad : n <= m
    <3> HIDE DEF bad
    <3> QED BY <2>1, LeastNumber
  <2>3. work[n] = Body(work, n)
    BY <1>5
  <2>4. n # 0
    BY <2>3, <1>3
  <2>5. prev(n) \in steps /\ prev(n) < n /\ prev(n) \notin bad
    <3>1. prev(n) \in steps /\ prev(n) < n
      BY <1>2, <2>4
    <3>2. prev(n) \in bad => n <= prev(n)
      BY <2>2
    <3>3. n \in 0..Last0 /\ prev(n) \in 0..Last0
      BY <3>1, <1>0
    <3> QED BY <3>1, <3>2, <3>3, <1>0
  <2>6. work[n] = planItem(w[prev(n)], PlanOrder[n], Collisions(items))
    BY <2>3, <2>4, <2>5
  <2>7. work[n] = w[n]
    BY <2>6, <1>2, <2>4
  <2> QED BY <2>7
<1>7. Max(steps) \in steps /\ \A y \in steps : y <= Max(steps)
  BY <1>0, MaxOf
<1>8. w[Last0] = w[Max(steps)]
  <2> DEFINE p == Max(steps)
  <2>1. \A k \in (p + 1)..Last0 : PlanOrder[k] \notin items
    <3> SUFFICES ASSUME NEW k \in (p + 1)..Last0, PlanOrder[k] \in items PROVE FALSE
      OBVIOUS
    <3>0. p \in 0..Last0
      BY <1>0, <1>7
    <3>1. k \in 1..Last0 /\ k > p /\ p \in Nat /\ k \in Nat
      <4> HIDE DEF p
      <4> QED BY <3>0, <1>0
    <3>2. k \in steps
      BY <3>1, LengthOfOrder DEF steps
    <3> HIDE DEF p
    <3>3. k <= p
      BY <3>2, <1>7 DEF p
    <3> QED BY <3>1, <3>3
  <2>2. p \in 0..Last0 /\ Last0 \in 0..Last0 /\ p <= Last0
    <3>1. p \in 0..Last0
      BY <1>0, <1>7
    <3> HIDE DEF p
    <3> QED BY <1>0, <3>1
  <2> HIDE DEF p
  <2>3. w[Last0] = w[p]
    BY <2>1, <2>2, WalkSkips
  <2> QED BY <2>3 DEF p
<1> QED
  <2> HIDE DEF work
  <2> QED BY <1>1, <1>6, <1>7, <1>8

-----------------------------------------------------------------------------
(* One item and one spec.                                                  *)

\* A spec file, with what the parser makes sure of.
SpecOK(r, s) ==
  /\ s = [fields |-> s.fields, request |-> s.request, input |-> s.input]
  /\ DOMAIN s.request \subseteq BindingsOf(r)
  /\ s.request \in [DOMAIN s.request -> SUBSET Parameters]
  /\ s.input = [o \in OperationsOf(r) |-> s.input[o]]
  /\ \A o \in OperationsOf(r) : \A n \in s.input[o] : <<n>> \in s.fields
  /\ Grouped(s.fields)

\* A spec that has all of another, and whose groups are the other's.
GroupsKept(fields, more) ==
  \A p \in Parameters : HasGroup(more, p) => HasGroup(fields, p) /\ FieldFor(more, p) = FieldFor(fields, p)
Grows(s, t) ==
  /\ s.fields \subseteq t.fields /\ GroupsKept(s.fields, t.fields)
  /\ DOMAIN t.request = DOMAIN s.request
  /\ \A b \in DOMAIN s.request : s.request[b] \subseteq t.request[b]
  /\ DOMAIN t.input = DOMAIN s.input
  /\ \A o \in DOMAIN s.input : s.input[o] \subseteq t.input[o]

\* A parameter that can be set by a field.
IsSetBy(item, f, s) ==
  /\ item.binding \in DOMAIN s.request /\ item.param \in s.request[item.binding]
  /\ f \in s.fields
  /\ \A o \in UsedBy[item.binding] : o \in DOMAIN s.input /\ f[1] \in s.input[o]

LEMMA ParameterLength == ASSUME NEW p \in Parameters PROVE Len(p) \in 1..2
<1>1. PICK n \in 1..2 : p \in [1..n -> STRING]
  BY ParametersAssumption
<1> QED BY <1>1

LEMMA GrowsReflexive == ASSUME NEW s PROVE Grows(s, s)
BY DEF Grows, GroupsKept

LEMMA GrowsTransitive ==
  ASSUME NEW s, NEW t, NEW u, Grows(s, t), Grows(t, u)
  PROVE  Grows(s, u)
<1>1. GroupsKept(s.fields, u.fields)
  BY DEF Grows, GroupsKept
<1> QED BY <1>1 DEF Grows

LEMMA StaysSet ==
  ASSUME NEW item, NEW f, NEW s, NEW t, IsSetBy(item, f, s), Grows(s, t)
  PROVE  IsSetBy(item, f, t)
BY DEF IsSetBy, Grows

LEMMA FieldAdded ==
  ASSUME NEW fields, Grouped(fields), NEW p \in Parameters, HasGroup(fields, p)
  PROVE  LET f == FieldFor(fields, p) more == fields \cup {f} IN
         /\ f \in FieldsOf(p) /\ <<f[1]>> \in more
         /\ Grouped(more) /\ GroupsKept(fields, more)
<1> DEFINE f == FieldFor(fields, p)
           more == fields \cup {f}
<1>1. f \in FieldsOf(p)
  BY DEF FieldFor, FieldsOf, GroupName, GroupNames
<1>2. /\ Len(f) = 1 => f = <<f[1]>>
      /\ Len(f) = 2 => IsGroup(fields, f[1])
      /\ Len(f) \in {1, 2}
  <2>1. CASE Len(p) = 1
    BY <2>1 DEF FieldFor
  <2>2. CASE Len(p) # 1
    <3>1. f = <<GroupName(fields, p[1]), snakeCase[p[2]]>>
      BY <2>2 DEF FieldFor
    <3>2. f[1] = GroupName(fields, p[1]) /\ Len(f) = 2
      BY <3>1
    <3> QED BY <2>2, <3>2 DEF HasGroup
  <2> QED BY <2>1, <2>2
<1> HIDE DEF f
<1>3. <<f[1]>> \in more
  BY <1>2 DEF IsGroup
<1>4. Grouped(more)
  <2> SUFFICES ASSUME NEW g \in more, Len(g) = 2 PROVE <<g[1]>> \in more
    BY DEF Grouped
  <2>1. CASE g = f
    BY <2>1, <1>3
  <2>2. CASE g \in fields
    BY <2>2 DEF Grouped
  <2> QED BY <2>1, <2>2
<1>5. ASSUME NEW m, IsGroup(more, m) PROVE IsGroup(fields, m)
  <2>1. PICK g \in more : Len(g) = 2 /\ g[1] = m
    BY <1>5 DEF IsGroup
  <2>2. CASE g = f
    BY <2>1, <2>2, <1>2
  <2>3. CASE g \in fields
    BY <2>1, <2>3 DEF IsGroup, Grouped
  <2> QED BY <2>2, <2>3
<1>6. GroupsKept(fields, more)
  <2> SUFFICES ASSUME NEW q \in Parameters, HasGroup(more, q)
               PROVE  HasGroup(fields, q) /\ FieldFor(more, q) = FieldFor(fields, q)
    BY DEF GroupsKept
  <2>1. CASE Len(q) = 1
    BY <2>1 DEF HasGroup, FieldFor
  <2>2. CASE Len(q) # 1
    <3> DEFINE m == GroupName(more, q[1])
    <3>1. IsGroup(fields, m)
      BY <2>2, <1>5 DEF HasGroup
    <3>2. m = GroupName(fields, q[1])
      <4>1. <<m>> \in fields
        BY <3>1 DEF IsGroup
      <4> QED BY <4>1 DEF GroupName
    <3> QED BY <2>2, <3>1, <3>2 DEF HasGroup, FieldFor
  <2> QED BY <2>1, <2>2
<1> QED BY <1>1, <1>3, <1>4, <1>6 DEF f

\* What patching a spec makes of it.
LEMMA Patched ==
  ASSUME NEW r \in Resources, NEW s, SpecOK(r, s), NEW item \in Items, ResourceOf[item.binding] = r,
         item.binding \in DOMAIN s.request, HasGroup(s.fields, item.param)
  PROVE  LET t == WithItem(item, s) f == FieldFor(s.fields, item.param) IN
         SpecOK(r, t) /\ Grows(s, t) /\ IsSetBy(item, f, t) /\ f \in FieldsOf(item.param)
<1> DEFINE f == FieldFor(s.fields, item.param)
           b == item.binding
           more == s.fields \cup {f}
           request == [s.request EXCEPT ![b] = @ \cup {item.param}]
           input == Exposing(s.input, b, f[1])
           t == WithItem(item, s)
<1>1. /\ item.param \in Parameters /\ b \in Bindings
      /\ DOMAIN s.input = OperationsOf(r) /\ Grouped(s.fields)
  BY DEF Items, SpecOK
<1>2. f \in FieldsOf(item.param) /\ <<f[1]>> \in more /\ Grouped(more) /\ GroupsKept(s.fields, more)
  BY <1>1, FieldAdded
<1>3. UsedBy[b] \subseteq OperationsOf(r)
  BY <1>1 DEF OperationsOf, BindingsOf
<1>4. t = [fields |-> more, request |-> request, input |-> input]
  BY DEF WithItem
<1> HIDE DEF f, t
<1>5. /\ DOMAIN request = DOMAIN s.request
      /\ request \in [DOMAIN s.request -> SUBSET Parameters]
      /\ item.param \in request[b]
      /\ \A c \in DOMAIN s.request : s.request[c] \subseteq request[c]
  BY <1>1 DEF SpecOK
<1>6. /\ input = [o \in OperationsOf(r) |-> IF o \in UsedBy[b] THEN s.input[o] \cup {f[1]} ELSE s.input[o]]
  BY <1>1 DEF Exposing
<1> HIDE DEF input, request
<1>7. /\ DOMAIN input = OperationsOf(r)
      /\ \A o \in OperationsOf(r) : s.input[o] \subseteq input[o] /\ input[o] \subseteq s.input[o] \cup {f[1]}
      /\ \A o \in UsedBy[b] : f[1] \in input[o]
  BY <1>6, <1>3
<1>8. t.fields = more /\ t.request = request /\ t.input = input
  BY <1>4
<1>9. SpecOK(r, t)
  <2>1. t = [fields |-> t.fields, request |-> t.request, input |-> t.input]
    BY <1>4, <1>8
  <2>2. DOMAIN t.request \subseteq BindingsOf(r) /\ t.request \in [DOMAIN t.request -> SUBSET Parameters]
    BY <1>5, <1>8 DEF SpecOK
  <2>3. t.input = [o \in OperationsOf(r) |-> t.input[o]]
    BY <1>6, <1>8
  <2>4. ASSUME NEW o \in OperationsOf(r), NEW n \in t.input[o] PROVE <<n>> \in t.fields
    <3>1. n \in s.input[o] \/ n = f[1]
      BY <1>7, <1>8
    <3> QED BY <3>1, <1>2, <1>8 DEF SpecOK
  <2> QED BY <2>1, <2>2, <2>3, <2>4, <1>2, <1>8 DEF SpecOK
<1>10. Grows(s, t)
  BY <1>1, <1>2, <1>5, <1>7, <1>8 DEF Grows
<1>11. IsSetBy(item, f, t)
  BY <1>3, <1>5, <1>7, <1>8 DEF IsSetBy
<1> QED BY <1>2, <1>9, <1>10, <1>11 DEF t, f

\* Nothing is to do for a parameter that can be set already.
LEMMA NothingToPatch ==
  ASSUME NEW r \in Resources, NEW s, SpecOK(r, s), NEW item \in Items, ResourceOf[item.binding] = r,
         IsSetBy(item, FieldFor(s.fields, item.param), s)
  PROVE  WithItem(item, s) = s
<1> DEFINE f == FieldFor(s.fields, item.param)
           b == item.binding
<1>1. s.fields \cup {f} = s.fields
  BY DEF IsSetBy
<1>2. [s.request EXCEPT ![b] = @ \cup {item.param}] = s.request
  <2>1. s.request[b] \cup {item.param} = s.request[b]
    BY DEF IsSetBy
  <2> QED BY <2>1 DEF SpecOK
<1>3. Exposing(s.input, b, f[1]) = s.input
  <2>1. \A o \in UsedBy[b] : s.input[o] \cup {f[1]} = s.input[o]
    BY DEF IsSetBy
  <2>2. s.input = [o \in OperationsOf(r) |-> s.input[o]] /\ DOMAIN s.input = OperationsOf(r)
    BY DEF SpecOK
  <2>3. Exposing(s.input, b, f[1]) = [o \in OperationsOf(r) |-> s.input[o]]
    BY <2>1, <2>2 DEF Exposing
  <2> QED BY <2>2, <2>3
<1> QED BY <1>1, <1>2, <1>3 DEF WithItem, SpecOK

-----------------------------------------------------------------------------
(* The planning of one item.                                               *)

FilesOK(files) ==
  /\ files = [r \in Resources |-> files[r]]
  /\ \A r \in Resources : SpecOK(r, files[r])
PlanEntries == [item : Items, action : Actions]
WorkOK(x) ==
  /\ x = [files |-> x.files, plan |-> x.plan, failed |-> x.failed]
  /\ FilesOK(x.files) /\ x.plan \in Seq(PlanEntries) /\ x.failed \in BOOLEAN

Says(x, y, item, action) == y.plan = Append(x.plan, [item |-> item, action |-> action])

\* What planItem makes of the work so far: nothing once it failed, else it
\* leaves the files and says why, fails, or patches the spec.
Planning(x, y, item, collisions) ==
  LET r == ResourceOf[item.binding] s == x.files[r] IN
  \/ x.failed /\ y = x
  \/ /\ ~x.failed /\ y.failed = FALSE /\ y.files = x.files
     /\ NeedsPerson(item, s, collisions) /\ Says(x, y, item, "flagged")
  \/ /\ ~x.failed /\ y.failed = FALSE /\ y.files = x.files
     /\ ~NeedsPerson(item, s, collisions) /\ WithItem(item, s) = s /\ Says(x, y, item, "already-synced")
  \/ /\ ~x.failed /\ y.failed = TRUE /\ y.files = x.files /\ y.plan = x.plan
     /\ ~NeedsPerson(item, s, collisions) /\ WithItem(item, s) # s /\ ~HasBlock(item, s)
  \/ /\ ~x.failed /\ y.failed = FALSE /\ ~NeedsPerson(item, s, collisions)
     /\ WithItem(item, s) # s /\ HasBlock(item, s)
     /\ y.files = [x.files EXCEPT ![r] = WithItem(item, s)] /\ Says(x, y, item, "patched")

LEMMA ItemShape ==
  ASSUME NEW item \in Items
  PROVE  /\ item.binding \in Bindings /\ item.kind \in Kinds /\ item.param \in Parameters
         /\ ResourceOf[item.binding] \in Resources
BY ResourcesAssumption DEF Items

LEMMA ItemPlanned ==
  ASSUME NEW x, WorkOK(x), NEW item \in Items, NEW collisions
  PROVE  Planning(x, planItem(x, item, collisions), item, collisions)
<1> DEFINE r == ResourceOf[item.binding]
           s == x.files[r]
           y == planItem(x, item, collisions)
           says(action) == Append(x.plan, [item |-> item, action |-> action])
<1>0. /\ x = [files |-> x.files, plan |-> x.plan, failed |-> x.failed] /\ x.failed \in BOOLEAN
      /\ r \in Resources
  BY ItemShape DEF WorkOK
<1>1. CASE x.failed
  BY <1>1 DEF planItem, Planning
<1>2. CASE ~x.failed /\ NeedsPerson(item, s, collisions)
  <2>1. y = [x EXCEPT !.plan = says("flagged")]
    BY <1>2 DEF planItem
  <2>2. y.files = x.files /\ y.plan = says("flagged") /\ y.failed = x.failed
    BY <2>1, <1>0
  <2> QED BY <2>2, <1>2 DEF Planning, Says
<1>3. CASE ~x.failed /\ ~NeedsPerson(item, s, collisions) /\ WithItem(item, s) = s
  <2>1. y = [x EXCEPT !.plan = says("already-synced")]
    BY <1>3 DEF planItem
  <2>2. y.files = x.files /\ y.plan = says("already-synced") /\ y.failed = x.failed
    BY <2>1, <1>0
  <2> QED BY <2>2, <1>3 DEF Planning, Says
<1>4. CASE ~x.failed /\ ~NeedsPerson(item, s, collisions) /\ WithItem(item, s) # s /\ ~HasBlock(item, s)
  <2>1. y = [x EXCEPT !.failed = TRUE]
    BY <1>4 DEF planItem
  <2>2. y.files = x.files /\ y.plan = x.plan /\ y.failed
    BY <2>1, <1>0
  <2> QED BY <2>2, <1>4 DEF Planning
<1>5. CASE ~x.failed /\ ~NeedsPerson(item, s, collisions) /\ WithItem(item, s) # s /\ HasBlock(item, s)
  <2>1. y = [x EXCEPT !.files[r] = WithItem(item, s), !.plan = says("patched")]
    BY <1>5 DEF planItem
  <2>2. y.files = [x.files EXCEPT ![r] = WithItem(item, s)] /\ y.plan = says("patched") /\ y.failed = x.failed
    BY <2>1, <1>0
  <2> QED BY <2>2, <1>5 DEF Planning, Says
<1> QED BY <1>1, <1>2, <1>3, <1>4, <1>5

\* The record planItem returns has the three parts of the one it was given.
LEMMA ItemKeepsShape ==
  ASSUME NEW x, WorkOK(x), NEW item \in Items, NEW collisions
  PROVE  LET y == planItem(x, item, collisions) IN y = [files |-> y.files, plan |-> y.plan, failed |-> y.failed]
<1>1. x = [files |-> x.files, plan |-> x.plan, failed |-> x.failed]
  BY DEF WorkOK
<1> QED BY <1>1 DEF planItem

\* A person is not needed: what the guards leave.
LEMMA Mechanical ==
  ASSUME NEW item, NEW s, NEW collisions, ~NeedsPerson(item, s, collisions)
  PROVE  /\ item.kind = KindMissing /\ item.binding \in DOMAIN s.request
         /\ normalizedFieldKey(item) \notin collisions /\ HasGroup(s.fields, item.param)
BY DEF NeedsPerson

LEMMA ItemKeepsWork ==
  ASSUME NEW x, WorkOK(x), NEW item \in Items, NEW collisions
  PROVE  LET y == planItem(x, item, collisions) IN
         WorkOK(y) /\ (x.failed => y.failed) /\ \A r \in Resources : Grows(x.files[r], y.files[r])
<1> DEFINE q == ResourceOf[item.binding]
           s == x.files[q]
           y == planItem(x, item, collisions)
           t == WithItem(item, s)
<1>0. Planning(x, y, item, collisions) /\ y = [files |-> y.files, plan |-> y.plan, failed |-> y.failed]
  BY ItemPlanned, ItemKeepsShape
<1>1. q \in Resources /\ SpecOK(q, s) /\ FilesOK(x.files) /\ x.plan \in Seq(PlanEntries)
  BY ItemShape DEF WorkOK, FilesOK
<1> SUFFICES WorkOK(y) /\ (x.failed => y.failed) /\ \A r \in Resources : Grows(x.files[r], y.files[r])
  OBVIOUS
<1> HIDE DEF y
<1>2. \A action \in Actions : Says(x, y, item, action) => y.plan \in Seq(PlanEntries)
  BY <1>1 DEF Says, PlanEntries
<1>3. CASE y.files = x.files /\ y.plan \in Seq(PlanEntries) /\ y.failed \in BOOLEAN /\ (x.failed => y.failed)
  BY <1>0, <1>1, <1>3, GrowsReflexive DEF WorkOK
<1>4. CASE /\ ~x.failed /\ y.failed = FALSE /\ ~NeedsPerson(item, s, collisions)
           /\ y.files = [x.files EXCEPT ![q] = t] /\ Says(x, y, item, "patched")
  <2>1. SpecOK(q, t) /\ Grows(s, t)
    BY <1>1, <1>4, Mechanical, Patched
  <2> HIDE DEF t
  <2>2. DOMAIN x.files = Resources
    BY <1>1 DEF FilesOK
  <2>3. y.files[q] = t /\ \A r \in Resources \ {q} : y.files[r] = x.files[r]
    BY <1>1, <1>4, <2>2
  <2>4. y.files = [r \in Resources |-> y.files[r]]
    BY <1>4, <2>2
  <2>5. FilesOK(y.files)
    BY <1>1, <2>1, <2>3, <2>4 DEF FilesOK
  <2>6. \A r \in Resources : Grows(x.files[r], y.files[r])
    BY <2>1, <2>3, GrowsReflexive
  <2>7. y.plan \in Seq(PlanEntries)
    BY <1>2, <1>4 DEF Actions
  <2> QED BY <1>0, <1>4, <2>5, <2>6, <2>7 DEF WorkOK
<1>5. CASE x.failed /\ y = x
  BY <1>5, GrowsReflexive
<1> QED BY <1>0, <1>1, <1>2, <1>3, <1>4, <1>5 DEF Planning, Actions

-----------------------------------------------------------------------------
(* The planning of a report.                                               *)

LEMMA WalkSteps ==
  ASSUME NEW items, NEW files, NEW w, Walk(w, items, files), NEW n \in 1..Last0
  PROVE  /\ PlanOrder[n] \in Items
         /\ \/ PlanOrder[n] \in items /\ w[n] = planItem(w[n - 1], PlanOrder[n], Collisions(items))
            \/ PlanOrder[n] \notin items /\ w[n] = w[n - 1]
<1>1. PlanOrder[n] \in Items
  BY OrderAssumption, LengthOfOrder
<1> QED BY <1>1 DEF Walk, StepOf

LEMMA WalkWorks ==
  ASSUME NEW items, NEW files, FilesOK(files), NEW w, Walk(w, items, files)
  PROVE  \A n \in 0..Last0 : WorkOK(w[n])
<1> DEFINE T == {n \in Nat : n <= Last0 => WorkOK(w[n])}
<1>0. Last0 \in Nat
  BY LengthOfOrder
<1>1. 0 \in T
  <2>1. w[0] = FirstWork(files)
    BY DEF Walk
  <2>2. WorkOK(FirstWork(files))
    BY DEF WorkOK, FirstWork
  <2> QED BY <2>1, <2>2
<1>2. ASSUME NEW n \in Nat, n \in T PROVE n + 1 \in T
  <2> SUFFICES ASSUME n + 1 <= Last0 PROVE WorkOK(w[n + 1])
    OBVIOUS
  <2>1. n + 1 \in 1..Last0 /\ (n + 1) - 1 = n /\ WorkOK(w[n])
    BY <1>0, <1>2
  <2> DEFINE item == PlanOrder[n + 1]
  <2>2. item \in Items /\ (w[n + 1] = planItem(w[n], item, Collisions(items)) \/ w[n + 1] = w[n])
    BY <2>1, WalkSteps
  <2> HIDE DEF item
  <2> QED BY <2>1, <2>2, ItemKeepsWork
<1> HIDE DEF T
<1>3. \A n \in Nat : n \in T
  BY <1>1, <1>2, Induction
<1> QED BY <1>0, <1>3 DEF T

\* What is in a spec stays, to the end, and so does a failure.
LEMMA WalkGrows ==
  ASSUME NEW items, NEW files, FilesOK(files), NEW w, Walk(w, items, files), NEW m \in 0..Last0
  PROVE  /\ \A r \in Resources : Grows(w[m].files[r], w[Last0].files[r])
         /\ w[m].failed => w[Last0].failed
<1> DEFINE Kept(n) == (w[m].failed => w[n].failed) /\ \A r \in Resources : Grows(w[m].files[r], w[n].files[r])
           T == {d \in Nat : m + d <= Last0 => Kept(m + d)}
<1>0. Last0 \in Nat /\ \A n \in 0..Last0 : WorkOK(w[n])
  BY LengthOfOrder, WalkWorks
<1>1. 0 \in T
  BY GrowsReflexive
<1>2. ASSUME NEW d \in Nat, d \in T PROVE d + 1 \in T
  <2> SUFFICES ASSUME m + (d + 1) <= Last0 PROVE Kept(m + (d + 1))
    OBVIOUS
  <2> DEFINE n == m + (d + 1)
  <2>1. n \in 1..Last0 /\ n - 1 = m + d /\ n - 1 \in 0..Last0
    BY <1>0
  <2>2. Kept(n - 1) /\ WorkOK(w[n - 1])
    BY <1>0, <1>2, <2>1
  <2>3. PlanOrder[n] \in Items /\
        (w[n] = planItem(w[n - 1], PlanOrder[n], Collisions(items)) \/ w[n] = w[n - 1])
    BY <2>1, WalkSteps
  <2>4. (w[n - 1].failed => w[n].failed) /\ \A r \in Resources : Grows(w[n - 1].files[r], w[n].files[r])
    <3>1. CASE w[n] = planItem(w[n - 1], PlanOrder[n], Collisions(items))
      BY <2>2, <2>3, <3>1, ItemKeepsWork
    <3>2. CASE w[n] = w[n - 1]
      BY <3>2, GrowsReflexive
    <3> QED BY <2>3, <3>1, <3>2
  <2>5. \A r \in Resources : Grows(w[m].files[r], w[n].files[r])
    <3> SUFFICES ASSUME NEW r \in Resources PROVE Grows(w[m].files[r], w[n].files[r])
      OBVIOUS
    <3>1. Grows(w[m].files[r], w[n - 1].files[r]) /\ Grows(w[n - 1].files[r], w[n].files[r])
      BY <2>2, <2>4
    <3> QED BY <3>1, GrowsTransitive
  <2> HIDE DEF n
  <2>6. Kept(n)
    BY <2>2, <2>4, <2>5
  <2> QED BY <2>6 DEF n
<1>3. Last0 - m \in T
  <2> HIDE DEF T
  <2>1. Last0 - m \in Nat
    BY <1>0
  <2> QED BY <1>1, <1>2, <2>1, Induction
<1>4. m + (Last0 - m) = Last0
  BY <1>0
<1>5. m + (Last0 - m) <= Last0
  BY <1>0
<1>6. Kept(m + (Last0 - m))
  BY <1>3, <1>5
<1> QED BY <1>4, <1>6

\* What a plan says of the parameters it patched.
PlanSays(x, items) ==
  \A i \in DOMAIN x.plan : x.plan[i].action = "patched" =>
    LET item == x.plan[i].item IN
    /\ item \in items \cap Items /\ item.kind = KindMissing
    /\ normalizedFieldKey(item) \notin Collisions(items)
    /\ \E f \in FieldsOf(item.param) : IsSetBy(item, f, x.files[ResourceOf[item.binding]])

LEMMA ItemKeepsPlan ==
  ASSUME NEW items, NEW x, WorkOK(x), PlanSays(x, items), NEW item \in items \cap Items
  PROVE  PlanSays(planItem(x, item, Collisions(items)), items)
<1> DEFINE y == planItem(x, item, Collisions(items))
           q == ResourceOf[item.binding]
           s == x.files[q]
<1>1. /\ Planning(x, y, item, Collisions(items)) /\ WorkOK(y)
      /\ \A r \in Resources : Grows(x.files[r], y.files[r])
  BY ItemPlanned, ItemKeepsWork
<1> SUFFICES ASSUME NEW i \in DOMAIN y.plan, y.plan[i].action = "patched"
             PROVE  LET new == y.plan[i].item IN
                    /\ new \in items \cap Items /\ new.kind = KindMissing
                    /\ normalizedFieldKey(new) \notin Collisions(items)
                    /\ \E f \in FieldsOf(new.param) : IsSetBy(new, f, y.files[ResourceOf[new.binding]])
  BY DEF PlanSays
<1> HIDE DEF y
<1>2. CASE i \in DOMAIN x.plan /\ y.plan[i] = x.plan[i]
  <2> DEFINE old == x.plan[i].item
  <2>1. /\ old \in items \cap Items /\ old.kind = KindMissing
        /\ normalizedFieldKey(old) \notin Collisions(items)
    BY <1>2 DEF PlanSays
  <2>2. PICK f \in FieldsOf(old.param) : IsSetBy(old, f, x.files[ResourceOf[old.binding]])
    BY <1>2 DEF PlanSays
  <2>3. ResourceOf[old.binding] \in Resources
    BY <2>1, ItemShape
  <2>4. IsSetBy(old, f, y.files[ResourceOf[old.binding]])
    BY <1>1, <2>2, <2>3, StaysSet
  <2> QED BY <1>2, <2>1, <2>4
<1>3. CASE y.plan[i] = [item |-> item, action |-> "patched"] /\ ~NeedsPerson(item, s, Collisions(items))
           /\ y.files = [x.files EXCEPT ![q] = WithItem(item, s)]
  <2>1. q \in Resources /\ SpecOK(q, s) /\ DOMAIN x.files = Resources
    BY ItemShape DEF WorkOK, FilesOK
  <2>2. y.files[q] = WithItem(item, s)
    BY <1>3, <2>1
  <2>3. LET f == FieldFor(s.fields, item.param) IN IsSetBy(item, f, WithItem(item, s)) /\ f \in FieldsOf(item.param)
    BY <1>3, <2>1, Mechanical, Patched
  <2> QED BY <1>3, <2>2, <2>3, Mechanical
<1>4. x.plan \in Seq(PlanEntries)
  BY DEF WorkOK
<1>5. ASSUME NEW action, Says(x, y, item, action)
      PROVE  \/ i \in DOMAIN x.plan /\ y.plan[i] = x.plan[i]
             \/ y.plan[i] = [item |-> item, action |-> action]
  BY <1>4, <1>5 DEF Says
<1>6. \A action : [item |-> item, action |-> action].action = "patched" => action = "patched"
  OBVIOUS
<1>7. CASE y.plan = x.plan
  BY <1>2, <1>7
<1>8. CASE Says(x, y, item, "flagged") \/ Says(x, y, item, "already-synced")
  BY <1>2, <1>5, <1>6, <1>8
<1>9. CASE /\ Says(x, y, item, "patched") /\ ~NeedsPerson(item, s, Collisions(items))
           /\ y.files = [x.files EXCEPT ![q] = WithItem(item, s)]
  BY <1>2, <1>3, <1>5, <1>9
<1> QED BY <1>1, <1>7, <1>8, <1>9 DEF Planning

LEMMA WalkPlan ==
  ASSUME NEW items, NEW files, FilesOK(files), NEW w, Walk(w, items, files)
  PROVE  PlanSays(w[Last0], items)
<1> DEFINE T == {n \in Nat : n <= Last0 => PlanSays(w[n], items)}
<1>0. Last0 \in Nat /\ \A n \in 0..Last0 : WorkOK(w[n])
  BY LengthOfOrder, WalkWorks
<1>1. 0 \in T
  BY DEF Walk, FirstWork, PlanSays
<1>2. ASSUME NEW n \in Nat, n \in T PROVE n + 1 \in T
  <2> SUFFICES ASSUME n + 1 <= Last0 PROVE PlanSays(w[n + 1], items)
    OBVIOUS
  <2>1. n + 1 \in 1..Last0 /\ (n + 1) - 1 = n /\ n \in 0..Last0 /\ PlanSays(w[n], items)
    BY <1>0, <1>2
  <2> DEFINE item == PlanOrder[n + 1]
  <2>2. /\ item \in Items
        /\ \/ item \in items /\ w[n + 1] = planItem(w[n], item, Collisions(items))
           \/ w[n + 1] = w[n]
    BY <2>1, WalkSteps
  <2> HIDE DEF item
  <2> QED BY <1>0, <2>1, <2>2, ItemKeepsPlan
<1> HIDE DEF T
<1>3. Last0 \in T
  BY <1>0, <1>1, <1>2, Induction
<1> QED BY <1>0, <1>3 DEF T

\* What a binding maps by then, it mapped before or is drift of the report.
MapsDrift(x, items, files) ==
  \A r \in Resources :
    /\ DOMAIN x.files[r].request = DOMAIN files[r].request
    /\ \A b \in DOMAIN files[r].request : \A p \in x.files[r].request[b] :
         \/ p \in files[r].request[b]
         \/ \E j \in items \cap Items : j.kind = KindMissing /\ j.binding = b /\ j.param = p

LEMMA ItemMapsDrift ==
  ASSUME NEW items, NEW files, NEW x, WorkOK(x), MapsDrift(x, items, files), NEW item \in items \cap Items
  PROVE  MapsDrift(planItem(x, item, Collisions(items)), items, files)
<1> DEFINE y == planItem(x, item, Collisions(items))
           q == ResourceOf[item.binding]
           s == x.files[q]
<1>1. Planning(x, y, item, Collisions(items))
  BY ItemPlanned
<1> SUFFICES MapsDrift(y, items, files)
  OBVIOUS
<1> HIDE DEF y
<1>2. CASE y.files = x.files
  <2>1. \A r : y.files[r] = x.files[r]
    BY <1>2
  <2> QED BY <2>1 DEF MapsDrift
<1>3. CASE ~NeedsPerson(item, s, Collisions(items)) /\ y.files = [x.files EXCEPT ![q] = WithItem(item, s)]
  <2>1. q \in Resources /\ DOMAIN x.files = Resources /\ SpecOK(q, s)
    BY ItemShape DEF WorkOK, FilesOK
  <2>2. item.kind = KindMissing /\ item.binding \in DOMAIN s.request
    BY <1>3, Mechanical
  <2>3. WithItem(item, s).request = [s.request EXCEPT ![item.binding] = @ \cup {item.param}]
    BY DEF WithItem
  <2> DEFINE t == WithItem(item, s)
  <2>4. y.files[q] = t /\ \A r \in Resources \ {q} : y.files[r] = x.files[r]
    BY <1>3, <2>1
  <2> HIDE DEF t
  <2>5. /\ DOMAIN t.request = DOMAIN s.request
        /\ \A b \in DOMAIN s.request : \A p \in t.request[b] :
             p \in s.request[b] \/ (b = item.binding /\ p = item.param)
    <3> DEFINE old == s.request
    <3>1. t.request = [old EXCEPT ![item.binding] = old[item.binding] \cup {item.param}]
      BY <2>3 DEF t
    <3> HIDE DEF old
    <3>2. DOMAIN t.request = DOMAIN old
      BY <3>1
    <3>3. ASSUME NEW b \in DOMAIN old
          PROVE  t.request[b] = IF b = item.binding THEN old[b] \cup {item.param} ELSE old[b]
      BY <3>1
    <3> QED BY <3>2, <3>3 DEF old
  <2> SUFFICES ASSUME NEW r \in Resources
               PROVE  /\ DOMAIN y.files[r].request = DOMAIN files[r].request
                      /\ \A b \in DOMAIN files[r].request : \A p \in y.files[r].request[b] :
                           \/ p \in files[r].request[b]
                           \/ \E j \in items \cap Items : j.kind = KindMissing /\ j.binding = b /\ j.param = p
    BY Zenon DEF MapsDrift
  <2>6. /\ DOMAIN x.files[r].request = DOMAIN files[r].request
        /\ \A b \in DOMAIN files[r].request : \A p \in x.files[r].request[b] :
             \/ p \in files[r].request[b]
             \/ \E j \in items \cap Items : j.kind = KindMissing /\ j.binding = b /\ j.param = p
    BY Zenon DEF MapsDrift
  <2>7. CASE r # q
    <3>1. y.files[r] = x.files[r]
      BY <2>4, <2>7
    <3> QED BY <2>6, <3>1
  <2>8. CASE r = q
    <3>1. y.files[r] = t /\ x.files[r] = s
      BY <2>4, <2>8
    <3> HIDE DEF s
    <3> QED BY <2>2, <2>5, <2>6, <3>1
  <2> QED BY <2>7, <2>8
<1> QED BY <1>1, <1>2, <1>3 DEF Planning

LEMMA WalkMapsDrift ==
  ASSUME NEW items, NEW files, FilesOK(files), NEW w, Walk(w, items, files)
  PROVE  MapsDrift(w[Last0], items, files)
<1> DEFINE T == {n \in Nat : n <= Last0 => MapsDrift(w[n], items, files)}
<1>0. Last0 \in Nat /\ \A n \in 0..Last0 : WorkOK(w[n])
  BY LengthOfOrder, WalkWorks
<1>1. 0 \in T
  <2>1. w[0].files = files
    BY DEF Walk, FirstWork
  <2>2. MapsDrift(w[0], items, files)
    BY <2>1, Zenon DEF MapsDrift
  <2> QED BY <2>2
<1>2. ASSUME NEW n \in Nat, n \in T PROVE n + 1 \in T
  <2> SUFFICES ASSUME n + 1 <= Last0 PROVE MapsDrift(w[n + 1], items, files)
    OBVIOUS
  <2>1. n + 1 \in 1..Last0 /\ (n + 1) - 1 = n /\ n \in 0..Last0 /\ MapsDrift(w[n], items, files)
    BY <1>0, <1>2
  <2> DEFINE item == PlanOrder[n + 1]
  <2>2. /\ item \in Items
        /\ \/ item \in items /\ w[n + 1] = planItem(w[n], item, Collisions(items))
           \/ w[n + 1] = w[n]
    BY <2>1, WalkSteps
  <2> HIDE DEF item
  <2> QED BY <1>0, <2>1, <2>2, ItemMapsDrift
<1> HIDE DEF T
<1>3. Last0 \in T
  BY <1>0, <1>1, <1>2, Induction
<1> QED BY <1>0, <1>3 DEF T

\* All that a report's planning keeps.
LEMMA ReportPlanned ==
  ASSUME NEW items, NEW files, FilesOK(files)
  PROVE  LET goal == planReport(items, files) IN
         WorkOK(goal) /\ PlanSays(goal, items) /\ MapsDrift(goal, items, files)
<1>1. PICK w : Walk(w, items, files)
  BY SomeWalk
<1>2. planReport(items, files) = w[Last0]
  BY <1>1, PlanIsWalk
<1>3. WorkOK(w[Last0])
  BY <1>1, WalkWorks, LengthOfOrder
<1> QED BY <1>1, <1>2, <1>3, WalkPlan, WalkMapsDrift

\* An item a later spec has been planned with leaves it alone: either it is
\* patched in, or a person is still needed.
LEMMA SettledItem ==
  ASSUME NEW item \in Items, NEW collisions, NEW s, NEW g,
         LET r == ResourceOf[item.binding] IN SpecOK(r, s) /\ SpecOK(r, g),
         Grows(s, g),
         NeedsPerson(item, s, collisions) \/ Grows(WithItem(item, s), g)
  PROVE  NeedsPerson(item, g, collisions) \/ WithItem(item, g) = g
<1> DEFINE r == ResourceOf[item.binding]
           f == FieldFor(s.fields, item.param)
<1>0. r \in Resources /\ item.param \in Parameters
  BY ItemShape
<1>1. CASE NeedsPerson(item, s, collisions)
  BY <1>0, <1>1 DEF NeedsPerson, Grows, GroupsKept
<1>2. CASE ~NeedsPerson(item, s, collisions) /\ HasGroup(g.fields, item.param)
  <2>1. IsSetBy(item, f, WithItem(item, s))
    BY <1>0, <1>2, Mechanical, Patched
  <2>2. Grows(WithItem(item, s), g)
    BY <1>2
  <2>3. IsSetBy(item, f, g)
    BY <2>1, <2>2, StaysSet
  <2>4. FieldFor(g.fields, item.param) = f
    BY <1>0, <1>2 DEF Grows, GroupsKept
  <2>5. IsSetBy(item, FieldFor(g.fields, item.param), g)
    BY <2>3, <2>4
  <2> QED BY <1>0, <2>5, NothingToPatch
<1>3. CASE ~HasGroup(g.fields, item.param)
  BY <1>3 DEF NeedsPerson
<1> QED BY <1>1, <1>2, <1>3

\* transaction.go, and what it rests on: the report leads from any mixture of
\* old and new files to the same new ones.
LEMMA Resumes ==
  ASSUME NEW items, NEW files, FilesOK(files), NEW mixed, FilesOK(mixed),
         LET goal == planReport(items, files) IN
           ~goal.failed /\ \A r \in Resources : mixed[r] \in {files[r], goal.files[r]}
  PROVE  LET goal == planReport(items, files) again == planReport(items, mixed) IN
         ~again.failed /\ again.files = goal.files
<1>1. PICK w : Walk(w, items, files)
  BY SomeWalk
<1>2. PICK v : Walk(v, items, mixed)
  BY SomeWalk
<1> DEFINE goal == w[Last0]
           collisions == Collisions(items)
           Same(n, r) == /\ mixed[r] = files[r] => v[n].files[r] = w[n].files[r]
                         /\ mixed[r] = goal.files[r] => v[n].files[r] = goal.files[r]
           Follows(n) == v[n].failed = FALSE /\ \A r \in Resources : Same(n, r)
           T == {n \in Nat : n <= Last0 => Follows(n)}
<1>3. /\ planReport(items, files) = goal /\ planReport(items, mixed) = v[Last0]
      /\ ~goal.failed /\ \A r \in Resources : mixed[r] \in {files[r], goal.files[r]}
  BY <1>1, <1>2, PlanIsWalk
<1>4. /\ Last0 \in Nat
      /\ \A n \in 0..Last0 : WorkOK(w[n]) /\ WorkOK(v[n]) /\ ~w[n].failed
      /\ \A n \in 0..Last0 : \A r \in Resources : Grows(w[n].files[r], goal.files[r])
  BY <1>1, <1>2, <1>3, LengthOfOrder, WalkWorks, WalkGrows
<1>5. 0 \in T
  <2>1. w[0] = FirstWork(files) /\ v[0] = FirstWork(mixed)
    BY <1>1, <1>2 DEF Walk
  <2> QED BY <2>1 DEF FirstWork
<1>6. ASSUME NEW n \in 1..Last0, Follows(n - 1) PROVE Follows(n)
  <2> DEFINE item == PlanOrder[n]
             q == ResourceOf[item.binding]
             x == w[n - 1]
             y == w[n]
             x2 == v[n - 1]
             y2 == v[n]
             s == x.files[q]
  <2>1. /\ item \in Items /\ q \in Resources /\ n - 1 \in 0..Last0 /\ n \in 0..Last0
        /\ \/ item \in items /\ y = planItem(x, item, collisions) /\ y2 = planItem(x2, item, collisions)
           \/ item \notin items /\ y = x /\ y2 = x2
    BY <1>1, <1>2, <1>4, WalkSteps, ItemShape
  <2> HIDE DEF item
  <2>2. CASE y = x /\ y2 = x2
    BY <1>6, <2>2
  <2>3. CASE y = planItem(x, item, collisions) /\ y2 = planItem(x2, item, collisions)
    <3>1. /\ WorkOK(x) /\ WorkOK(x2) /\ WorkOK(y) /\ WorkOK(y2) /\ ~x.failed /\ ~y.failed /\ ~x2.failed
          /\ \A r \in Resources : Same(n - 1, r)
          /\ \A r \in Resources : Grows(x.files[r], goal.files[r]) /\ Grows(y.files[r], goal.files[r])
          /\ WorkOK(goal)
      BY <1>4, <1>6, <2>1
    <3>2. Planning(x, y, item, collisions) /\ Planning(x2, y2, item, collisions)
      BY <2>1, <2>3, <3>1, ItemPlanned
    <3>3. DOMAIN x.files = Resources /\ DOMAIN x2.files = Resources
      BY <3>1 DEF WorkOK, FilesOK
    <3> HIDE DEF x, y, x2, y2, q, goal
    <3>4. ASSUME mixed[q] = files[q] PROVE y2.failed = FALSE /\ y2.files[q] = y.files[q]
      <4>1. x2.files[q] = s
        BY <2>1, <3>1, <3>4 DEF x, x2
      <4>2. y2.failed = FALSE
        BY <3>1, <3>2, <4>1 DEF Planning, q
      <4>3. y2.files[q] = y.files[q]
        BY <2>1, <3>1, <3>2, <3>3, <4>1 DEF Planning, q
      <4> QED BY <4>2, <4>3
    <3>5. ASSUME mixed[q] = goal.files[q] PROVE y2.failed = FALSE /\ y2.files[q] = goal.files[q]
      <4>0. x2.files[q] = goal.files[q]
        BY <2>1, <3>1, <3>5 DEF x2, goal
      <4>1. SpecOK(q, s) /\ SpecOK(q, goal.files[q]) /\ Grows(s, goal.files[q])
        BY <2>1, <3>1 DEF WorkOK, FilesOK
      <4>2. NeedsPerson(item, s, collisions) \/ Grows(WithItem(item, s), goal.files[q])
        <5>1. CASE ~NeedsPerson(item, s, collisions)
          <6>1. y.files[q] = WithItem(item, s)
            BY <2>1, <3>1, <3>2, <3>3, <5>1 DEF Planning, q
          <6> QED BY <2>1, <3>1, <6>1
        <5> QED BY <5>1
      <4>3. NeedsPerson(item, x2.files[q], collisions) \/ WithItem(item, x2.files[q]) = x2.files[q]
        BY <2>1, <4>0, <4>1, <4>2, SettledItem DEF q
      <4>4. y2.failed = FALSE /\ y2.files = x2.files
        BY <3>1, <3>2, <4>3 DEF Planning, q
      <4> QED BY <4>0, <4>4
    <3>6. \A r \in Resources \ {q} : y.files[r] = x.files[r] /\ y2.files[r] = x2.files[r]
      BY <2>1, <3>1, <3>2, <3>3 DEF Planning, q
    <3>7. mixed[q] = files[q] \/ mixed[q] = goal.files[q]
      BY <1>3, <2>1 DEF goal
    <3>8. v[n].failed = FALSE
      BY <3>4, <3>5, <3>7 DEF y2
    <3>9. ASSUME NEW r \in Resources PROVE Same(n, r)
      <4>1. CASE r = q
        BY <3>4, <3>5, <4>1 DEF y, y2, goal
      <4>2. CASE r # q
        BY <3>1, <3>6, <4>2 DEF x, x2, y, y2, goal
      <4> QED BY <4>1, <4>2
    <3> QED BY <3>8, <3>9
  <2> QED BY <2>1, <2>2, <2>3
<1> HIDE DEF Follows
<1>7. ASSUME NEW n \in Nat, n \in T PROVE n + 1 \in T
  <2> SUFFICES ASSUME n + 1 <= Last0 PROVE Follows(n + 1)
    OBVIOUS
  <2>1. n + 1 \in 1..Last0 /\ (n + 1) - 1 = n /\ Follows(n)
    BY <1>4, <1>7
  <2> QED BY <2>1, <1>6
<1>8. Follows(Last0)
  <2>1. Last0 \in T
    <3> HIDE DEF T
    <3> QED BY <1>4, <1>5, <1>7, Induction
  <2> QED BY <2>1, <1>4
<1>9. v[Last0].files = goal.files
  <2>1. \A r \in Resources : v[Last0].files[r] = goal.files[r]
    BY <1>3, <1>8 DEF Follows
  <2>2. /\ goal.files = [r \in Resources |-> goal.files[r]]
        /\ v[Last0].files = [r \in Resources |-> v[Last0].files[r]]
    <3>1. WorkOK(goal) /\ WorkOK(v[Last0])
      BY <1>4
    <3> QED BY <3>1 DEF WorkOK, FilesOK
  <2> QED BY <2>1, <2>2
<1> QED BY <1>3, <1>8, <1>9 DEF Follows

-----------------------------------------------------------------------------
(* The inductive invariant.                                                *)

Goal == The(sync.goal)
Before == The(sync.before)
Original(f) == IF f = PlanFile THEN Before.plan ELSE Before.specs[f]
Entry(f) ==
  [file |-> f, existed |-> f # PlanFile \/ Before.plan # Nothing, original |-> Original(f)]
Entries == {Entry(f) : f \in Outputs}
PlanOK(p) == p = Nothing \/ \E entries \in Seq(PlanEntries) : p = Just(entries)

DataOK ==
  /\ live \in [Bindings -> SUBSET Parameters] /\ changes \in 0..MaxChanges
  /\ DOMAIN baseline \subseteq Bindings
  /\ \A b \in DOMAIN baseline : baseline[b].covered \cup baseline[b].parameters \subseteq Parameters
  /\ FilesOK(specs) /\ PlanOK(plan)
  /\ report # Nothing => The(report).items \subseteq Items
SyncFields ==
  {"at", "queue", "staged", "replaced", "temps", "result", "broken", "before", "goal"}
SyncOK ==
  /\ DOMAIN sync = SyncFields
  /\ sync.at \in {"idle", "stage", "rollback"} /\ sync.broken \in BOOLEAN
  /\ sync.queue \in Seq(Outputs)
  /\ sync.staged \in Seq(Entries) /\ sync.replaced \in 0..Len(sync.staged)
\* What is written was planned from the files as they were, by the report
\* there still is, and each file is the old one or the new one.
GoalOK ==
  /\ sync.goal = Nothing <=> sync.before = Nothing
  /\ sync.goal # Nothing =>
       /\ report # Nothing /\ FilesOK(Before.specs) /\ PlanOK(Before.plan)
       /\ Before = [specs |-> Before.specs, plan |-> Before.plan]
       /\ Goal = planReport(The(report).items, Before.specs) /\ ~Goal.failed
       /\ \A f \in Outputs : Contents(f) \in {Original(f), Planned(f)}
\* The files that are staged are told apart, and all that is needed will be.
Needed(files) == files \subseteq {PlanFile} \/ \A r \in Resources \ files : Goal.files[r] = Before.specs[r]
StagedOK ==
  /\ Idle => sync.staged = <<>> /\ sync.replaced = 0
  /\ \A i, j \in DOMAIN sync.staged : i # j => sync.staged[i].file # sync.staged[j].file
  /\ sync.queue # <<>> => sync.replaced = 0
  /\ ~Idle => /\ sync.goal # Nothing /\ sync.temps \subseteq StagedFiles
              /\ Needed(StagedFiles \cup Range(sync.queue))
\* What is where while a sync runs.
Untouched(f) == \A i \in 1..sync.replaced : sync.staged[i].file # f
ContentsOK ==
  /\ sync.at = "stage" =>
       /\ ~sync.broken
       /\ \A i \in 1..sync.replaced : Contents(sync.staged[i].file) = Planned(sync.staged[i].file)
  /\ ~Idle /\ ~sync.broken => \A f \in Outputs : Untouched(f) => Contents(f) = Original(f)
\* What a run that ended says is so.
EndOK ==
  Idle =>
    /\ sync.result # "killed" => sync.temps = {}
    /\ sync.result = "failed" /\ sync.before # Nothing /\ ~sync.broken =>
         \A f \in Outputs : Contents(f) = Original(f)
    /\ sync.result = "done" =>
         /\ sync.goal # Nothing
         /\ plan \in {Before.plan, Just(Goal.plan)}
         /\ specs \in {Before.specs, Goal.files}
IInv == DataOK /\ SyncOK /\ GoalOK /\ StagedOK /\ ContentsOK /\ EndOK

LEMMA JustIsSomething == ASSUME NEW x PROVE Just(x) # Nothing /\ The(Just(x)) = x
BY DEF Just, Nothing, The

LEMMA OutputsAre == PlanFile \in Outputs /\ Resources \subseteq Outputs /\ PlanFile \notin Resources
BY ResourcesAssumption DEF Outputs

LEMMA FilesEqual ==
  ASSUME NEW x, NEW y, FilesOK(x), FilesOK(y), \A r \in Resources : x[r] = y[r]
  PROVE  x = y
BY DEF FilesOK

LEMMA NoSyncIs ==
  ASSUME NEW s, NEW result, \/ s = [NoSync EXCEPT !.result = result]
                            \/ s = NoSync /\ result = "none"
  PROVE  /\ s.at = "idle" /\ s.queue = <<>> /\ s.staged = <<>> /\ s.replaced = 0 /\ s.temps = {}
         /\ s.result = result /\ s.broken = FALSE /\ s.before = Nothing /\ s.goal = Nothing
         /\ DOMAIN s = SyncFields
BY DEF NoSync, SyncFields

LEMMA EndIs ==
  ASSUME NEW s, NEW result, NEW temps, s = End(result, temps)
  PROVE  /\ s.at = "idle" /\ s.queue = <<>> /\ s.staged = <<>> /\ s.replaced = 0 /\ s.temps = temps
         /\ s.result = result /\ s.broken = sync.broken /\ s.before = sync.before /\ s.goal = sync.goal
         /\ DOMAIN s = SyncFields
BY DEF NoSync, End, SyncFields

\* With no sync the part of the invariant about syncs says little: the state
\* before a step and the one after it.
LEMMA NoSyncOK ==
  ASSUME NEW result, result \in {"none", "failed"},
         sync = [NoSync EXCEPT !.result = result] \/ (sync = NoSync /\ result = "none")
  PROVE  SyncOK /\ GoalOK /\ StagedOK /\ ContentsOK /\ EndOK
<1>1. /\ sync.at = "idle" /\ sync.queue = <<>> /\ sync.staged = <<>> /\ sync.replaced = 0 /\ sync.temps = {}
      /\ sync.result = result /\ sync.broken = FALSE /\ sync.before = Nothing /\ sync.goal = Nothing
      /\ DOMAIN sync = SyncFields
  BY NoSyncIs
<1>2. SyncOK
  <2>1. sync.queue \in Seq(Outputs) /\ sync.staged \in Seq(Entries) /\ Len(sync.staged) = 0
    BY <1>1
  <2>2. sync.broken \in BOOLEAN
    BY <1>1
  <2>3. sync.at \in {"idle", "stage", "rollback"} /\ sync.replaced \in 0..Len(sync.staged)
    BY <1>1, <2>1
  <2> QED BY <1>1, <2>1, <2>2, <2>3, Zenon DEF SyncOK, Outputs
<1>3. GoalOK
  BY <1>1 DEF GoalOK
<1>4. StagedOK
  BY <1>1 DEF StagedOK, Idle
<1>5. ContentsOK
  BY <1>1 DEF ContentsOK, Idle
<1>6. EndOK
  BY <1>1 DEF EndOK, Idle
<1> QED BY <1>2, <1>3, <1>4, <1>5, <1>6

LEMMA NoSyncNext ==
  ASSUME NEW result, result \in {"none", "failed"},
         sync' = [NoSync EXCEPT !.result = result] \/ (sync' = NoSync /\ result = "none")
  PROVE  (SyncOK /\ GoalOK /\ StagedOK /\ ContentsOK /\ EndOK)'
<1>1. /\ sync'.at = "idle" /\ sync'.queue = <<>> /\ sync'.staged = <<>> /\ sync'.replaced = 0 /\ sync'.temps = {}
      /\ sync'.result = result /\ sync'.broken = FALSE /\ sync'.before = Nothing /\ sync'.goal = Nothing
      /\ DOMAIN sync' = SyncFields
  BY NoSyncIs
<1>2. SyncOK'
  <2>1. sync'.queue \in Seq(Outputs) /\ sync'.staged \in Seq(Entries') /\ Len(sync'.staged) = 0
    BY <1>1
  <2>2. sync'.broken \in BOOLEAN
    BY <1>1
  <2>3. sync'.at \in {"idle", "stage", "rollback"} /\ sync'.replaced \in 0..Len(sync'.staged)
    BY <1>1, <2>1
  <2> QED BY <1>1, <2>1, <2>2, <2>3, Zenon DEF SyncOK, Outputs
<1>3. GoalOK'
  BY <1>1 DEF GoalOK
<1>4. StagedOK'
  BY <1>1 DEF StagedOK, Idle
<1>5. ContentsOK'
  BY <1>1 DEF ContentsOK, Idle
<1>6. EndOK'
  BY <1>1 DEF EndOK, Idle
<1> QED BY <1>2, <1>3, <1>4, <1>5, <1>6

\* What Put writes.
LEMMA PutWrites ==
  ASSUME FilesOK(specs), NEW f \in Outputs, NEW c, Put(f, c)
  PROVE  /\ Contents(f)' = c
         /\ \A g \in Outputs : g # f => Contents(g)' = Contents(g)
         /\ specs' = [r \in Resources |-> specs'[r]]
<1> USE OutputsAre DEF Outputs
<1>1. CASE f = PlanFile
  BY <1>1 DEF Put, Contents, FilesOK
<1>2. CASE f # PlanFile
  <2>1. f \in Resources /\ specs' = [specs EXCEPT ![f] = c] /\ plan' = plan
    BY <1>2 DEF Put
  <2>2. DOMAIN specs = Resources
    BY DEF FilesOK
  <2>3. specs' = [r \in Resources |-> specs'[r]]
    BY <2>1, <2>2
  <2>4. specs'[f] = c /\ \A g \in Resources : g # f => specs'[g] = specs[g]
    BY <2>1, <2>2
  <2> QED BY <1>2, <2>1, <2>3, <2>4 DEF Contents
<1> QED BY <1>1, <1>2

\* A file with old or new contents is in shape.
LEMMA MixedOK ==
  ASSUME DataOK, GoalOK, sync.goal # Nothing
  PROVE  /\ WorkOK(Goal) /\ PlanSays(Goal, The(report).items) /\ FilesOK(Goal.files) /\ PlanOK(Just(Goal.plan))
         /\ \A r \in Resources : SpecOK(r, Original(r)) /\ SpecOK(r, Planned(r))
         /\ PlanOK(Original(PlanFile)) /\ PlanOK(Planned(PlanFile))
<1>1. FilesOK(Before.specs) /\ PlanOK(Before.plan) /\ Goal = planReport(The(report).items, Before.specs)
  BY DEF GoalOK
<1>2. WorkOK(Goal) /\ PlanSays(Goal, The(report).items)
  BY <1>1, ReportPlanned
<1>3. FilesOK(Goal.files) /\ Goal.plan \in Seq(PlanEntries)
  BY <1>2 DEF WorkOK
<1>4. PlanOK(Just(Goal.plan))
  BY <1>3 DEF PlanOK
<1>5. \A r \in Resources : SpecOK(r, Original(r)) /\ SpecOK(r, Planned(r))
  BY <1>1, <1>3, OutputsAre DEF FilesOK, Original, Planned, Goal
<1>6. PlanOK(Original(PlanFile)) /\ PlanOK(Planned(PlanFile))
  BY <1>1, <1>4 DEF Original, Planned, Goal
<1> QED BY <1>2, <1>3, <1>4, <1>5, <1>6

-----------------------------------------------------------------------------
(* The beginning, and the steps between two syncs.                         *)

LEMMA FirstSpecOK == ASSUME NEW r \in Resources PROVE SpecOK(r, FirstSpec(r))
<1>1. BindingsOf(r) \subseteq Bindings /\ Grouped(FirstFields[r]) /\ FirstLive \in [Bindings -> SUBSET Parameters]
  BY ResourcesAssumption DEF BindingsOf
<1> DEFINE s == FirstSpec(r)
<1>2. /\ s = [fields |-> s.fields, request |-> s.request, input |-> s.input]
      /\ s.fields = FirstFields[r] /\ s.request = [b \in BindingsOf(r) |-> FirstLive[b]]
      /\ s.input = [o \in OperationsOf(r) |-> {}]
  BY DEF FirstSpec
<1>3. s.request \in [DOMAIN s.request -> SUBSET Parameters] /\ DOMAIN s.request = BindingsOf(r)
  BY <1>1, <1>2
<1>4. s.input = [o \in OperationsOf(r) |-> s.input[o]] /\ \A o \in OperationsOf(r) : s.input[o] = {}
  BY <1>2
<1> QED BY <1>1, <1>2, <1>3, <1>4, Zenon DEF SpecOK

LEMMA EntryOK ==
  ASSUME NEW l \in SUBSET Parameters, NEW c \in SUBSET Parameters
  PROVE  LET e == BaselineEntry(l, c) IN e.covered \cup e.parameters \subseteq Parameters
BY DEF BaselineEntry, effectiveCovered

\* The bindings of the specs, each in the spec of its resource.
LEMMA RequestsAre ==
  ASSUME NEW files, FilesOK(files)
  PROVE  /\ \A r \in Resources : \A b \in DOMAIN files[r].request :
              /\ b \in DOMAIN RequestsIn(files) /\ ResourceOf[b] = r
              /\ RequestsIn(files)[b] = files[r].request[b]
         /\ \A b \in DOMAIN RequestsIn(files) :
              /\ b \in Bindings /\ b \in DOMAIN files[ResourceOf[b]].request
              /\ RequestsIn(files)[b] \subseteq Parameters
<1> DEFINE D == UNION {DOMAIN files[r].request : r \in Resources}
<1>1. ASSUME NEW r \in Resources, NEW b \in DOMAIN files[r].request
      PROVE  /\ b \in Bindings /\ ResourceOf[b] = r /\ b \in D
             /\ files[r].request[b] \subseteq Parameters
  BY <1>1 DEF FilesOK, SpecOK, BindingsOf
<1>2. DOMAIN RequestsIn(files) = D /\ \A b \in D : RequestsIn(files)[b] = files[ResourceOf[b]].request[b]
  BY DEF RequestsIn
<1>3. ASSUME NEW b \in D PROVE \E r \in Resources : b \in DOMAIN files[r].request
  BY <1>3
<1> HIDE DEF D
<1>4. ASSUME NEW b \in D
      PROVE  /\ b \in Bindings /\ b \in DOMAIN files[ResourceOf[b]].request
             /\ RequestsIn(files)[b] \subseteq Parameters
  BY <1>1, <1>2, <1>3, <1>4
<1> QED BY <1>1, <1>2, <1>4

LEMMA InitOK == Init => IInv
<1> SUFFICES ASSUME Init PROVE IInv
  OBVIOUS
<1>1. SyncOK /\ GoalOK /\ StagedOK /\ ContentsOK /\ EndOK
  BY NoSyncOK DEF Init
<1>2. live \in [Bindings -> SUBSET Parameters] /\ changes \in 0..MaxChanges
  BY ResourcesAssumption, MaxChangesAssumption DEF Init
<1>3. DOMAIN baseline \subseteq Bindings
      /\ \A b \in DOMAIN baseline : baseline[b].covered \cup baseline[b].parameters \subseteq Parameters
  <2>1. DOMAIN baseline = Bindings /\ \A b \in Bindings : baseline[b] = BaselineEntry(FirstLive[b], FirstLive[b])
    BY DEF Init
  <2>2. ASSUME NEW b \in Bindings PROVE baseline[b].covered \cup baseline[b].parameters \subseteq Parameters
    BY <2>1, EntryOK, ResourcesAssumption
  <2> QED BY <2>1, <2>2
<1>4. FilesOK(specs)
  <2>1. specs = [r \in Resources |-> FirstSpec(r)]
    BY DEF Init
  <2> QED BY <2>1, FirstSpecOK DEF FilesOK
<1>5. PlanOK(plan) /\ report = Nothing
  BY DEF Init, PlanOK
<1> QED BY <1>1, <1>2, <1>3, <1>4, <1>5 DEF IInv, DataOK

LEMMA QuietStep ==
  ASSUME DataOK', sync' = NoSync
  PROVE  IInv'
<1>1. (SyncOK /\ GoalOK /\ StagedOK /\ ContentsOK /\ EndOK)'
  BY NoSyncNext
<1> QED BY <1>1 DEF IInv

LEMMA DetectDriftOK == ASSUME IInv, DetectDrift PROVE IInv'
<1> DEFINE request == RequestsIn(specs)
           known == DOMAIN request \cap DOMAIN baseline
           found == Detect(live, baseline, request)
<1>1. DataOK /\ FilesOK(specs)
  BY DEF IInv, DataOK
<1>2. ASSUME NEW b \in known
      PROVE  /\ b \in Bindings /\ live[b] \subseteq Parameters
             /\ baseline[b].covered \subseteq Parameters /\ baseline[b].parameters \subseteq Parameters
  <2>1. b \in Bindings
    BY <1>1, <1>2, RequestsAre
  <2> QED BY <1>1, <1>2, <2>1 DEF DataOK
<1>3. found.items \subseteq Items
  <2> HIDE DEF known, request
  <2>1. SUFFICES ASSUME NEW b \in known PROVE diffBinding(b, live[b], baseline[b], request[b]) \subseteq Items
    BY DEF Detect, known
  <2>2. /\ Missing(live[b], baseline[b], request[b]) \subseteq Parameters
        /\ Removed(live[b], baseline[b], request[b]) \subseteq Parameters
        /\ Uncovered(live[b], baseline[b], request[b]) \subseteq Parameters
    BY <1>2 DEF Missing, Removed, Uncovered
  <2>3. \A k \in Kinds : \A p \in Parameters : [binding |-> b, kind |-> k, param |-> p] \in Items
    BY <1>2 DEF Items
  <2> QED BY <2>2, <2>3 DEF diffBinding, Kinds
<1>4. report' # Nothing /\ The(report') = found
  BY JustIsSomething DEF DetectDrift
<1>5. DataOK'
  BY <1>1, <1>3, <1>4 DEF DataOK, DetectDrift
<1> QED BY <1>5, QuietStep DEF DetectDrift

LEMMA RefreshBaselineOK == ASSUME IInv, RefreshBaseline PROVE IInv'
<1> DEFINE request == RequestsIn(specs)
<1>1. DataOK /\ FilesOK(specs)
  BY DEF IInv, DataOK
<1>2. /\ DOMAIN baseline' = DOMAIN request
      /\ \A b \in DOMAIN request : baseline'[b] = BaselineEntry(live[b], request[b])
  BY DEF RefreshBaseline
<1>3. ASSUME NEW b \in DOMAIN request
      PROVE  b \in Bindings /\ baseline'[b].covered \cup baseline'[b].parameters \subseteq Parameters
  <2>1. b \in Bindings /\ request[b] \subseteq Parameters
    BY <1>1, <1>3, RequestsAre
  <2>2. live[b] \subseteq Parameters
    BY <1>1, <2>1 DEF DataOK
  <2> QED BY <1>2, <1>3, <2>1, <2>2, EntryOK
<1>4. DataOK'
  <2> HIDE DEF request
  <2> QED BY <1>1, <1>2, <1>3 DEF DataOK, RefreshBaseline
<1> QED BY <1>4, QuietStep DEF RefreshBaseline

LEMMA UpdateMetadataOK == ASSUME IInv, UpdateMetadata PROVE IInv'
<1>1. DataOK
  BY DEF IInv
<1>2. live' \in [Bindings -> SUBSET Parameters]
  <2>1. PICK b \in Bindings, p \in Leaves :
          live' = [live EXCEPT ![b] = IF p \in live[b] THEN live[b] \ {p} ELSE live[b] \cup {p}]
    BY DEF UpdateMetadata
  <2>2. p \in Parameters /\ live \in [Bindings -> SUBSET Parameters]
    BY <1>1, ResourcesAssumption DEF DataOK
  <2> QED BY <2>1, <2>2
<1>3. changes' \in 0..MaxChanges
  BY <1>1, MaxChangesAssumption DEF DataOK, UpdateMetadata
<1>4. DataOK'
  BY <1>1, <1>2, <1>3 DEF DataOK, UpdateMetadata
<1> QED BY <1>4, QuietStep DEF UpdateMetadata

\* A spec some of whose mappings are gone.
LEMMA Trimmed ==
  ASSUME NEW r, NEW s, SpecOK(r, s), NEW D \in SUBSET DOMAIN s.request, NEW request \in [D -> SUBSET Parameters]
  PROVE  SpecOK(r, [s EXCEPT !.request = request])
<1> DEFINE t == [s EXCEPT !.request = request]
<1>1. s = [fields |-> s.fields, request |-> s.request, input |-> s.input]
  BY DEF SpecOK
<1>2. t = [fields |-> s.fields, request |-> request, input |-> s.input]
  BY <1>1
<1>3. /\ t.fields = s.fields /\ t.request = request /\ t.input = s.input
      /\ t = [fields |-> t.fields, request |-> t.request, input |-> t.input]
  BY <1>2
<1> HIDE DEF t
<1> QED
  <2> SUFFICES SpecOK(r, t)
    BY DEF t
  <2> QED BY <1>3 DEF SpecOK

LEMMA EditSpecOK == ASSUME IInv, EditSpec PROVE IInv'
<1>1. DataOK /\ FilesOK(specs)
  BY DEF IInv, DataOK
<1>2. PICK b \in DOMAIN RequestsIn(specs) :
        \/ \E p \in specs[ResourceOf[b]].request[b] :
             specs' = [specs EXCEPT ![ResourceOf[b]].request[b] = @ \ {p}]
        \/ specs' = [specs EXCEPT ![ResourceOf[b]].request = [c \in DOMAIN @ \ {b} |-> @[c]]]
  BY DEF EditSpec
<1> DEFINE q == ResourceOf[b]
           s == specs[q]
<1>3. q \in Resources /\ SpecOK(q, s) /\ b \in DOMAIN s.request
  BY <1>1, RequestsAre, ResourcesAssumption DEF FilesOK
<1>4. s.request \in [DOMAIN s.request -> SUBSET Parameters]
  BY <1>3 DEF SpecOK
<1>5. \E D \in SUBSET DOMAIN s.request : \E request \in [D -> SUBSET Parameters] :
        specs' = [specs EXCEPT ![q] = [s EXCEPT !.request = request]]
  <2>1. CASE \E p \in s.request[b] : specs' = [specs EXCEPT ![q].request[b] = @ \ {p}]
    <3>1. PICK p \in s.request[b] : specs' = [specs EXCEPT ![q].request[b] = @ \ {p}]
      BY <2>1
    <3> DEFINE request == [s.request EXCEPT ![b] = @ \ {p}]
    <3>2. request \in [DOMAIN s.request -> SUBSET Parameters]
      BY <1>3, <1>4
    <3>3. specs' = [specs EXCEPT ![q] = [s EXCEPT !.request = request]]
      BY <3>1
    <3> QED BY <3>2, <3>3
  <2>2. CASE specs' = [specs EXCEPT ![q].request = [c \in DOMAIN @ \ {b} |-> @[c]]]
    <3> DEFINE request == [c \in DOMAIN s.request \ {b} |-> s.request[c]]
    <3>1. request \in [DOMAIN s.request \ {b} -> SUBSET Parameters]
      BY <1>4
    <3>2. specs' = [specs EXCEPT ![q] = [s EXCEPT !.request = request]]
      BY <2>2
    <3> QED BY <3>1, <3>2
  <2> QED BY <1>2, <2>1, <2>2
<1>. PICK D \in SUBSET DOMAIN s.request :
       \E request \in [D -> SUBSET Parameters] : specs' = [specs EXCEPT ![q] = [s EXCEPT !.request = request]]
  BY <1>5
<1>6. PICK request \in [D -> SUBSET Parameters] : specs' = [specs EXCEPT ![q] = [s EXCEPT !.request = request]]
  OBVIOUS
<1> DEFINE t == [s EXCEPT !.request = request]
<1>7. SpecOK(q, t)
  BY <1>3, Trimmed
<1>8. FilesOK(specs')
  <2> HIDE DEF t, q
  <2>1. specs' = [specs EXCEPT ![q] = t]
    BY <1>6 DEF t
  <2> QED BY <1>1, <1>3, <1>7, <2>1 DEF FilesOK
<1>9. changes' \in 0..MaxChanges
  BY <1>1, MaxChangesAssumption DEF DataOK, EditSpec
<1>10. DataOK'
  BY <1>1, <1>8, <1>9 DEF DataOK, EditSpec
<1> QED BY <1>10, QuietStep DEF EditSpec

-----------------------------------------------------------------------------
(* The steps of a sync.                                                    *)

\* A step that leaves the goal, and after which each file is an old or a new
\* one.
LEMMA FileStep ==
  ASSUME DataOK, GoalOK, sync.goal # Nothing,
         UNCHANGED <<live, baseline, report, changes>>,
         sync'.goal = sync.goal, sync'.before = sync.before,
         specs' = [r \in Resources |-> specs'[r]],
         \A f \in Outputs : Contents(f)' \in {Original(f), Planned(f)}
  PROVE  DataOK' /\ GoalOK' /\ \A f \in Outputs : Original(f)' = Original(f) /\ Planned(f)' = Planned(f)
<1>1. /\ \A r \in Resources : SpecOK(r, Original(r)) /\ SpecOK(r, Planned(r))
      /\ PlanOK(Original(PlanFile)) /\ PlanOK(Planned(PlanFile))
  BY MixedOK
<1>2. \A r \in Resources : SpecOK(r, specs'[r])
  BY <1>1, OutputsAre DEF Contents
<1>3. PlanOK(plan')
  BY <1>1, OutputsAre DEF Contents
<1>4. FilesOK(specs')
  BY <1>2 DEF FilesOK
<1>5. DataOK'
  BY <1>3, <1>4 DEF DataOK
<1>6. Goal' = Goal /\ Before' = Before
  BY DEF Goal, Before
<1>7. \A f \in Outputs : Original(f)' = Original(f) /\ Planned(f)' = Planned(f)
  BY <1>6 DEF Original, Planned, Goal
<1>8. GoalOK'
  <2>1. \A f \in Outputs : Contents(f)' \in {Original(f)', Planned(f)'}
    BY <1>7
  <2>2. Outputs' = Outputs
    BY DEF Outputs
  <2> QED BY <1>6, <2>1, <2>2, Zenon DEF GoalOK
<1> QED BY <1>5, <1>7, <1>8

\* The same for a step that leaves the files alone.
LEMMA StillStep ==
  ASSUME DataOK, GoalOK, sync.goal # Nothing,
         UNCHANGED <<live, baseline, specs, plan, report, changes>>,
         sync'.goal = sync.goal, sync'.before = sync.before
  PROVE  /\ DataOK' /\ GoalOK'
         /\ \A f \in Outputs : /\ Original(f)' = Original(f) /\ Planned(f)' = Planned(f)
                               /\ Contents(f)' = Contents(f)
<1>1. \A f \in Outputs : Contents(f)' = Contents(f)
  BY DEF Contents
<1>2. \A f \in Outputs : Contents(f)' \in {Original(f), Planned(f)}
  BY <1>1 DEF GoalOK
<1>3. specs' = [r \in Resources |-> specs'[r]]
  BY DEF DataOK, FilesOK
<1> QED BY <1>1, <1>2, <1>3, FileStep

\* A step to the end of a run.
LEMMA EndStep ==
  ASSUME IInv, ~Idle, NEW result, NEW temps, sync' = End(result, temps),
         UNCHANGED <<live, baseline, specs, plan, report, changes>>,
         result # "killed" => temps = {},
         result = "failed" /\ ~sync.broken => \A f \in Outputs : Contents(f) = Original(f),
         result = "done" => plan \in {Before.plan, Just(Goal.plan)} /\ specs \in {Before.specs, Goal.files}
  PROVE  IInv'
<1>1. /\ sync'.at = "idle" /\ sync'.queue = <<>> /\ sync'.staged = <<>> /\ sync'.replaced = 0
      /\ sync'.temps = temps /\ sync'.result = result /\ sync'.broken = sync.broken
      /\ sync'.before = sync.before /\ sync'.goal = sync.goal /\ DOMAIN sync' = SyncFields
  BY EndIs
<1>2. DataOK /\ GoalOK /\ sync.goal # Nothing /\ sync.broken \in BOOLEAN
  BY DEF IInv, StagedOK, SyncOK
<1>3. /\ DataOK' /\ GoalOK'
      /\ \A f \in Outputs : Original(f)' = Original(f) /\ Planned(f)' = Planned(f) /\ Contents(f)' = Contents(f)
  BY <1>1, <1>2, StillStep
<1>4. SyncOK'
  <2>1. sync'.queue \in Seq(Outputs) /\ sync'.staged \in Seq(Entries') /\ Len(sync'.staged) = 0
    BY <1>1
  <2>2. sync'.broken \in BOOLEAN
    BY <1>1, <1>2, Zenon
  <2>3. sync'.at \in {"idle", "stage", "rollback"} /\ sync'.replaced \in 0..Len(sync'.staged)
    BY <1>1, <2>1
  <2> QED BY <1>1, <2>1, <2>2, <2>3, Zenon DEF SyncOK, Outputs
<1>5. StagedOK'
  BY <1>1 DEF StagedOK, Idle
<1>6. ContentsOK'
  BY <1>1 DEF ContentsOK, Idle
<1>7. EndOK'
  <2>1. Goal' = Goal /\ Before' = Before
    BY <1>1 DEF Goal, Before
  <2>2. sync'.result # "killed" => sync'.temps = {}
    BY <1>1
  <2>3. sync'.result = "failed" /\ ~sync'.broken => \A f \in Outputs : Contents(f)' = Original(f)'
    BY <1>1, <1>3, Zenon
  <2>4. sync'.result = "done" =>
          /\ sync'.goal # Nothing
          /\ plan' \in {Before'.plan, Just(Goal'.plan)} /\ specs' \in {Before'.specs, Goal'.files}
    BY <1>1, <1>2, <2>1
  <2> QED BY <2>2, <2>3, <2>4, Zenon DEF EndOK, Outputs
<1> QED BY <1>3, <1>4, <1>5, <1>6, <1>7 DEF IInv

LEMMA KillOK == ASSUME IInv, Kill PROVE IInv'
<1>1. ~Idle /\ sync' = End("killed", sync.temps) /\ UNCHANGED <<live, baseline, specs, plan, report, changes>>
  BY DEF Kill
<1> QED BY <1>1, EndStep

LEMMA StageFailsOK == ASSUME IInv, StageFails PROVE IInv'
<1>1. /\ ~Idle /\ sync' = End("failed", sync.temps \ StagedFiles)
      /\ UNCHANGED <<live, baseline, specs, plan, report, changes>>
  BY DEF StageFails, Idle
<1>2. sync.replaced = 0 /\ sync.temps \subseteq StagedFiles /\ ~sync.broken
  BY <1>1 DEF IInv, StagedOK, ContentsOK, StageFails
<1>3. \A f \in Outputs : Contents(f) = Original(f)
  <2>1. \A f \in Outputs : Untouched(f)
    BY <1>2 DEF Untouched
  <2> QED BY <1>1, <1>2, <2>1 DEF IInv, ContentsOK
<1>4. sync.temps \ StagedFiles = {}
  BY <1>2
<1> QED BY <1>1, <1>3, <1>4, EndStep

LEMMA FinishOK == ASSUME IInv, Finish PROVE IInv'
<1> DEFINE result == IF sync.at = "stage" THEN "done" ELSE "failed"
<1>1. /\ ~Idle /\ sync' = End(result, sync.temps \ StagedFiles)
      /\ UNCHANGED <<live, baseline, specs, plan, report, changes>>
  BY DEF Finish, Idle
<1>2. /\ sync.temps \ StagedFiles = {} /\ sync.goal # Nothing
      /\ Needed(StagedFiles \cup Range(sync.queue))
  BY <1>1 DEF IInv, StagedOK
<1>3. result = "failed" /\ ~sync.broken => \A f \in Outputs : Contents(f) = Original(f)
  <2>1. result = "failed" => sync.replaced = 0
    BY DEF Finish
  <2>2. sync.replaced = 0 => \A f \in Outputs : Untouched(f)
    BY DEF Untouched
  <2> QED BY <1>1, <2>1, <2>2 DEF IInv, ContentsOK
<1>4. ASSUME result = "done"
      PROVE  plan \in {Before.plan, Just(Goal.plan)} /\ specs \in {Before.specs, Goal.files}
  <2>1. sync.at = "stage" /\ sync.queue = <<>> /\ sync.replaced = Len(sync.staged) /\ ~sync.broken
    BY <1>4 DEF Finish, IInv, ContentsOK
  <2>2. sync.staged \in Seq(Entries)
    BY DEF IInv, SyncOK
  <2>3. \A f \in Outputs : f \in StagedFiles => Contents(f) = Planned(f)
    BY <2>1, <2>2 DEF IInv, ContentsOK, StagedFiles
  <2>4. \A f \in Outputs : f \notin StagedFiles => Contents(f) = Original(f)
    <3>1. \A f \in Outputs : f \notin StagedFiles => Untouched(f)
      BY <2>1, <2>2 DEF Untouched, StagedFiles
    <3> QED BY <1>1, <2>1, <3>1 DEF IInv, ContentsOK
  <2>5. plan \in {Before.plan, Just(Goal.plan)}
    BY <2>3, <2>4, OutputsAre DEF Contents, Planned, Original, Goal
  <2>6. FilesOK(specs) /\ FilesOK(Before.specs) /\ FilesOK(Goal.files)
    BY <1>2, MixedOK DEF IInv, DataOK, GoalOK
  <2>7. Range(sync.queue) = {}
    BY <2>1 DEF Range
  <2>8. CASE StagedFiles \subseteq {PlanFile}
    <3>1. \A r \in Resources : specs[r] = Before.specs[r]
      BY <2>4, <2>8, OutputsAre DEF Contents, Original
    <3> QED BY <2>5, <2>6, <3>1, FilesEqual
  <2>9. CASE \A r \in Resources \ StagedFiles : Goal.files[r] = Before.specs[r]
    <3>1. \A r \in Resources : specs[r] = Goal.files[r]
      BY <2>3, <2>4, <2>9, OutputsAre DEF Contents, Original, Planned, Goal
    <3> QED BY <2>5, <2>6, <3>1, FilesEqual
  <2>10. StagedFiles \cup Range(sync.queue) = StagedFiles
    BY <2>7
  <2> QED BY <1>2, <2>8, <2>9, <2>10 DEF Needed
<1> HIDE DEF result
<1> QED BY <1>1, <1>2, <1>3, <1>4, EndStep

LEMMA QueueOf ==
  ASSUME NEW S, NEW q \in Seq(S), q # <<>>
  PROVE  Head(q) \in S /\ Tail(q) \in Seq(S) /\ Range(q) = {Head(q)} \cup Range(Tail(q))
<1>1. Len(q) \in Nat \ {0} /\ DOMAIN q = 1..Len(q) /\ \A i \in 1..Len(q) : q[i] \in S
  OBVIOUS
<1>2. Head(q) = q[1] /\ Tail(q) \in Seq(S)
  OBVIOUS
<1>3. Range(q) = {q[i] : i \in 1..Len(q)} /\ Range(Tail(q)) = {q[i + 1] : i \in 1..(Len(q) - 1)}
  <2>1. DOMAIN Tail(q) = 1..(Len(q) - 1) /\ \A i \in DOMAIN Tail(q) : Tail(q)[i] = q[i + 1]
    <3>1. Len(Tail(q)) = Len(q) - 1 /\ DOMAIN Tail(q) = 1..Len(Tail(q))
      BY <1>1, <1>2
    <3>2. \A i \in 1..Len(Tail(q)) : Tail(q)[i] = q[i + 1]
      BY <1>1, <1>2
    <3> QED BY <3>1, <3>2
  <2> QED BY <1>1, <2>1 DEF Range
<1>4. ASSUME NEW i \in 1..Len(q), i # 1 PROVE i - 1 \in 1..(Len(q) - 1) /\ q[i] = q[(i - 1) + 1]
  BY <1>1, <1>4
<1>5. \A i \in 1..(Len(q) - 1) : i + 1 \in 1..Len(q)
  BY <1>1
<1>6. Range(q) \subseteq {Head(q)} \cup Range(Tail(q))
  <2>1. \A j \in 1..(Len(q) - 1) : q[j + 1] \in Range(Tail(q))
    BY <1>3
  <2>2. ASSUME NEW i \in 1..Len(q), i # 1 PROVE q[i] \in Range(Tail(q))
    BY <1>4, <2>1, <2>2
  <2>3. \A i \in 1..Len(q) : q[i] \in {Head(q)} \cup Range(Tail(q))
    BY <1>2, <2>2
  <2> QED BY <1>3, <2>3
<1>7. {Head(q)} \cup Range(Tail(q)) \subseteq Range(q)
  BY <1>1, <1>2, <1>3, <1>5
<1> QED BY <1>1, <1>2, <1>6, <1>7

\* A step of a run that keeps all but the files it staged and replaced.
SameRun ==
  sync'.goal = sync.goal /\ sync'.before = sync.before /\ DOMAIN sync' = SyncFields

LEMMA StageOK == ASSUME IInv, Stage PROVE IInv'
<1> DEFINE file == Head(sync.queue)
           entry == [file |-> file, existed |-> Exists(file), original |-> Contents(file)]
<1>1. /\ sync.at = "stage" /\ ~Idle /\ sync.queue # <<>> /\ ~IsStaged(file)
      /\ UNCHANGED <<live, baseline, specs, plan, report, changes>>
      /\ sync' = [sync EXCEPT !.queue = Tail(@), !.temps = @ \cup {file}, !.staged = Append(@, entry)]
  BY DEF Stage, Idle
<1>2. /\ DOMAIN sync = SyncFields /\ sync.queue \in Seq(Outputs) /\ sync.staged \in Seq(Entries)
      /\ sync.broken \in BOOLEAN
  BY DEF IInv, SyncOK
<1>3. /\ SameRun /\ sync'.at = "stage" /\ sync'.queue = Tail(sync.queue)
      /\ sync'.temps = sync.temps \cup {file} /\ sync'.staged = Append(sync.staged, entry)
      /\ sync'.replaced = sync.replaced /\ sync'.broken = sync.broken
  BY <1>1, <1>2 DEF SameRun, SyncFields
<1>4. /\ sync.replaced = 0 /\ ~sync.broken /\ DataOK /\ GoalOK /\ sync.goal # Nothing
      /\ sync.temps \subseteq StagedFiles /\ Needed(StagedFiles \cup Range(sync.queue))
  BY <1>1 DEF IInv, StagedOK, ContentsOK
<1>5. file \in Outputs /\ Tail(sync.queue) \in Seq(Outputs) /\ Range(sync.queue) = {file} \cup Range(Tail(sync.queue))
  BY <1>1, <1>2, QueueOf
<1>6. \A f \in Outputs : Contents(f) = Original(f)
  <2>1. \A f \in Outputs : Untouched(f)
    BY <1>4 DEF Untouched
  <2> QED BY <1>1, <1>4, <2>1 DEF IInv, ContentsOK
<1>7. entry = Entry(file)
  <2>1. Contents(file) = Original(file)
    BY <1>5, <1>6
  <2>2. file = PlanFile => plan = Before.plan
    BY <2>1 DEF Contents, Original
  <2>3. Exists(file) = (file # PlanFile \/ Before.plan # Nothing)
    BY <2>2, Zenon DEF Exists
  <2> HIDE DEF file
  <2> QED BY <2>1, <2>3, Zenon DEF Entry
<1>8. /\ DataOK' /\ GoalOK'
      /\ \A f \in Outputs : Original(f)' = Original(f) /\ Planned(f)' = Planned(f) /\ Contents(f)' = Contents(f)
  BY <1>1, <1>3, <1>4, StillStep DEF SameRun
<1> DEFINE N == Len(sync.staged)
<1> HIDE DEF entry
<1>9. /\ N \in Nat /\ Len(sync'.staged) = N + 1 /\ sync'.staged[N + 1] = entry /\ sync'.staged \in Seq(Entries)
      /\ \A i \in 1..N : sync'.staged[i] = sync.staged[i]
      /\ DOMAIN sync.staged = 1..N /\ DOMAIN sync'.staged = 1..(N + 1)
  <2>1. entry \in Entries
    BY <1>5, <1>7 DEF Entries
  <2> QED BY <1>2, <1>3, <2>1
<1>10. entry.file = file
  BY DEF entry
<1>11. Before' = Before /\ Goal' = Goal /\ Entries' = Entries
  <2>1. Before' = Before /\ Goal' = Goal
    BY <1>3 DEF SameRun, Before, Goal
  <2> QED BY <2>1, Zenon DEF Entries, Entry, Original, Outputs
<1> HIDE DEF N, file
<1>12. SyncOK'
  <2>1. sync'.at \in {"idle", "stage", "rollback"} /\ sync'.replaced \in 0..Len(sync'.staged)
    BY <1>3, <1>4, <1>9
  <2>2. sync'.broken \in BOOLEAN
    BY <1>2, <1>3, Zenon
  <2>3. sync'.staged \in Seq(Entries') /\ sync'.queue \in Seq(Outputs)
    BY <1>3, <1>5, <1>9, <1>11
  <2> QED BY <1>3, <2>1, <2>2, <2>3, Zenon DEF SyncOK, SameRun, Outputs
<1>13. StagedFiles' = StagedFiles \cup {file}
  BY <1>9, <1>10 DEF StagedFiles
<1>14. StagedOK'
  <2>1. \A i, j \in DOMAIN sync'.staged : i # j => sync'.staged[i].file # sync'.staged[j].file
    <3>1. \A i, j \in 1..N : i # j => sync.staged[i].file # sync.staged[j].file
      BY <1>9 DEF IInv, StagedOK
    <3>2. \A i \in 1..N : sync.staged[i].file # file
      BY <1>1, <1>9 DEF IsStaged
    <3> QED BY <1>9, <1>10, <3>1, <3>2
  <2>2. sync'.temps \subseteq StagedFiles'
    BY <1>3, <1>4, <1>13
  <2>3. StagedFiles' \cup Range(sync'.queue) = StagedFiles \cup Range(sync.queue)
    BY <1>3, <1>5, <1>13
  <2>4. Needed(StagedFiles \cup Range(sync.queue))'
    <3>1. Needed(StagedFiles \cup Range(sync.queue))
      BY <1>4
    <3>2. (StagedFiles \cup Range(sync.queue))' = StagedFiles \cup Range(sync.queue)
      BY <2>3
    <3> QED BY <1>11, <3>1, <3>2 DEF Needed
  <2> QED BY <1>3, <1>4, <2>1, <2>2, <2>4 DEF StagedOK, Idle, SameRun
<1>15. ContentsOK'
  <2>1. ~sync'.broken /\ sync'.replaced = 0
    BY <1>3, <1>4, Zenon
  <2>2. \A f \in Outputs : Contents(f)' = Original(f)'
    BY <1>6, <1>8
  <2> QED BY <2>1, <2>2 DEF ContentsOK, Outputs
<1>16. EndOK'
  BY <1>3 DEF EndOK, Idle
<1> QED BY <1>8, <1>12, <1>14, <1>15, <1>16 DEF IInv

\* What Replace, ReplaceFails and Rollback have in common.
LEMMA RunStep ==
  ASSUME IInv, ~Idle, SameRun, UNCHANGED <<live, baseline, report, changes>>,
         sync'.at \in {"stage", "rollback"}, sync'.broken \in BOOLEAN,
         sync.queue = <<>>, sync'.queue = <<>>, sync'.staged = sync.staged,
         sync'.replaced \in 0..Len(sync.staged), sync'.temps \subseteq sync.temps,
         specs' = [r \in Resources |-> specs'[r]],
         \A f \in Outputs : Contents(f)' \in {Original(f), Planned(f)},
         sync'.at = "stage" =>
           /\ ~sync'.broken
           /\ \A i \in 1..sync'.replaced : Contents(sync.staged[i].file)' = Planned(sync.staged[i].file),
         ~sync'.broken => \A f \in Outputs : Untouched(f)' => Contents(f)' = Original(f)
  PROVE  IInv'
<1>1. DataOK /\ GoalOK /\ sync.goal # Nothing /\ sync.staged \in Seq(Entries)
  BY DEF IInv, StagedOK, SyncOK
<1>2. DataOK' /\ GoalOK' /\ \A f \in Outputs : Original(f)' = Original(f) /\ Planned(f)' = Planned(f)
  BY <1>1, FileStep DEF SameRun
<1>3. Before' = Before /\ Goal' = Goal /\ Entries' = Entries
  <2>1. Before' = Before /\ Goal' = Goal
    BY DEF SameRun, Before, Goal
  <2> QED BY <2>1, Zenon DEF Entries, Entry, Original, Outputs
<1>4. SyncOK'
  <2>1. sync'.staged \in Seq(Entries') /\ sync'.queue \in Seq(Outputs)
    BY <1>1, <1>3
  <2>2. sync'.replaced \in 0..Len(sync'.staged) /\ sync'.at \in {"idle", "stage", "rollback"}
    OBVIOUS
  <2> QED BY <2>1, <2>2, Zenon DEF SyncOK, SameRun, Outputs
<1>5. StagedOK'
  <2>1. StagedFiles' = StagedFiles
    BY DEF StagedFiles
  <2>2. Needed(StagedFiles \cup Range(sync.queue))'
    <3>1. Needed(StagedFiles \cup Range(sync.queue))
      BY DEF IInv, StagedOK
    <3>2. (StagedFiles \cup Range(sync.queue))' = StagedFiles \cup Range(sync.queue)
      BY <2>1
    <3> QED BY <1>3, <3>1, <3>2 DEF Needed
  <2>3. sync'.temps \subseteq StagedFiles'
    BY <2>1 DEF IInv, StagedOK
  <2>4. \A i, j \in DOMAIN sync'.staged : i # j => sync'.staged[i].file # sync'.staged[j].file
    BY DEF IInv, StagedOK
  <2> QED BY <1>1, <2>2, <2>3, <2>4 DEF StagedOK, Idle, SameRun
<1>6. \A i \in 1..Len(sync.staged) : sync.staged[i].file \in Outputs
  <2>1. \A f \in Outputs : Entry(f).file = f
    BY DEF Entry
  <2> QED BY <1>1, <2>1 DEF Entries
<1>7. ContentsOK'
  <2>1. sync'.at = "stage" =>
          ~sync'.broken /\ (\A i \in 1..sync.replaced : Contents(sync.staged[i].file) = Planned(sync.staged[i].file))'
    <3>1. \A i \in 1..sync'.replaced : sync.staged[i].file \in Outputs
      BY <1>1, <1>6
    <3>2. \A i \in 1..sync'.replaced : Planned(sync.staged[i].file)' = Planned(sync.staged[i].file)
      BY <1>3, <3>1 DEF Planned, Goal
    <3> QED BY <3>2
  <2>2. ~sync'.broken => \A f \in Outputs : Untouched(f)' => Contents(f)' = Original(f)'
    BY <1>2, Zenon
  <2> QED BY <2>1, <2>2, Zenon DEF ContentsOK, Outputs
<1>8. EndOK'
  BY DEF EndOK, Idle
<1> QED BY <1>2, <1>4, <1>5, <1>7, <1>8 DEF IInv

LEMMA ReplaceOK == ASSUME IInv, Replace PROVE IInv'
<1> DEFINE k == sync.replaced + 1
           file == sync.staged[k].file
<1>1. /\ sync.at = "stage" /\ ~Idle /\ sync.queue = <<>> /\ sync.replaced < Len(sync.staged)
      /\ Put(file, Planned(file)) /\ UNCHANGED <<live, baseline, report, changes>>
      /\ sync' = [sync EXCEPT !.replaced = @ + 1, !.temps = @ \ {file}]
  BY DEF Replace, Idle
<1>2. /\ DOMAIN sync = SyncFields /\ sync.staged \in Seq(Entries) /\ sync.replaced \in 0..Len(sync.staged)
      /\ sync.broken \in BOOLEAN
  BY DEF IInv, SyncOK
<1>3. k \in 1..Len(sync.staged) /\ k \in DOMAIN sync.staged /\ sync.replaced \in Nat /\ Len(sync.staged) \in Nat
  BY <1>1, <1>2
<1>4. PICK f \in Outputs : file = f
  <2>1. sync.staged[k] \in Entries
    BY <1>2, <1>3
  <2>2. \A f \in Outputs : Entry(f).file = f
    BY DEF Entry
  <2> HIDE DEF k
  <2> QED BY <2>1, <2>2 DEF Entries
<1> HIDE DEF file
<1>5. /\ SameRun /\ sync'.at = "stage" /\ sync'.queue = <<>> /\ sync'.staged = sync.staged
      /\ sync'.replaced = k /\ sync'.temps \subseteq sync.temps /\ sync'.broken = sync.broken
  BY <1>1, <1>2 DEF SameRun, SyncFields
<1>6. /\ DataOK /\ GoalOK /\ sync.goal # Nothing /\ ~sync.broken
      /\ \A i \in 1..sync.replaced : Contents(sync.staged[i].file) = Planned(sync.staged[i].file)
      /\ \A g \in Outputs : Untouched(g) => Contents(g) = Original(g)
      /\ \A i, j \in DOMAIN sync.staged : i # j => sync.staged[i].file # sync.staged[j].file
  BY <1>1 DEF IInv, StagedOK, ContentsOK
<1>7. /\ Contents(f)' = Planned(f)
      /\ \A g \in Outputs : g # f => Contents(g)' = Contents(g)
      /\ specs' = [r \in Resources |-> specs'[r]]
  <2>1. FilesOK(specs)
    BY <1>6 DEF DataOK
  <2> QED BY <1>1, <1>4, <2>1, PutWrites
<1>8. \A g \in Outputs : Contents(g)' \in {Original(g), Planned(g)}
  BY <1>6, <1>7 DEF GoalOK
<1>9. \A i \in 1..k : Contents(sync.staged[i].file)' = Planned(sync.staged[i].file)
  <2>1. SUFFICES ASSUME NEW i \in 1..k PROVE Contents(sync.staged[i].file)' = Planned(sync.staged[i].file)
    OBVIOUS
  <2>2. CASE i = k
    <3>1. sync.staged[i].file = f /\ sync'.staged[i].file = f
      BY <1>4, <1>5, <2>2 DEF file
    <3> QED BY <1>7, <3>1 DEF Contents
  <2>3. CASE i # k
    <3>1. i \in 1..sync.replaced /\ i \in 1..Len(sync.staged) /\ i \in DOMAIN sync.staged
      BY <1>2, <1>3, <2>3
    <3>2. sync.staged[i].file # f
      BY <1>3, <1>4, <1>6, <2>3, <3>1 DEF file
    <3>3. sync.staged[i].file \in Outputs
      <4>1. sync.staged[i] \in Entries
        BY <1>2, <3>1
      <4> QED BY <4>1 DEF Entries, Entry
    <3>4. Contents(sync.staged[i].file) = Planned(sync.staged[i].file)
      BY <1>6, <3>1
    <3> DEFINE g == sync.staged[i].file
    <3>5. g' = g
      BY <1>5
    <3>6. g \in Outputs /\ g # f /\ Contents(g) = Planned(g)
      BY <3>2, <3>3, <3>4
    <3>7. Contents(g)' = Contents(g)
      <4> HIDE DEF g
      <4> QED BY <1>7, <3>5, <3>6 DEF Contents
    <3> QED BY <3>6, <3>7
  <2> QED BY <2>2, <2>3
<1>10. \A g \in Outputs : Untouched(g)' => Contents(g)' = Original(g)
  <2>1. ASSUME NEW g \in Outputs, Untouched(g)' PROVE Contents(g)' = Original(g)
    <3>1. \A i \in 1..k : sync.staged[i].file # g
      BY <1>5, <2>1 DEF Untouched
    <3>2. g # f
      BY <1>3, <1>4, <3>1 DEF file
    <3>3. Untouched(g)
      BY <1>3, <3>1 DEF Untouched
    <3> QED BY <1>6, <1>7, <3>2, <3>3
  <2> QED BY <2>1
<1>11. sync'.broken \in BOOLEAN /\ ~sync'.broken
  BY <1>2, <1>5, <1>6, Zenon
<1>12. sync'.replaced \in 0..Len(sync.staged) /\ sync'.at \in {"stage", "rollback"}
  BY <1>3, <1>5
<1>13. \A i \in 1..sync'.replaced : Contents(sync.staged[i].file)' = Planned(sync.staged[i].file)
  BY <1>5, <1>9, Zenon
<1> QED BY <1>1, <1>5, <1>7, <1>8, <1>10, <1>11, <1>12, <1>13, RunStep

LEMMA ReplaceFailsOK == ASSUME IInv, ReplaceFails PROVE IInv'
<1>1. /\ sync.at = "stage" /\ ~Idle /\ sync.queue = <<>> /\ sync' = [sync EXCEPT !.at = "rollback"]
      /\ UNCHANGED <<live, baseline, specs, plan, report, changes>>
  BY DEF ReplaceFails, Idle
<1>2. /\ DOMAIN sync = SyncFields /\ sync.staged \in Seq(Entries) /\ sync.replaced \in 0..Len(sync.staged)
      /\ sync.broken \in BOOLEAN
  BY DEF IInv, SyncOK
<1>3. /\ SameRun /\ sync'.at = "rollback" /\ sync'.queue = <<>> /\ sync'.staged = sync.staged
      /\ sync'.replaced = sync.replaced /\ sync'.temps = sync.temps /\ sync'.broken = sync.broken
  BY <1>1, <1>2 DEF SameRun, SyncFields
<1>4. \A f \in Outputs : Contents(f)' = Contents(f)
  BY <1>1 DEF Contents
<1>5. DataOK /\ GoalOK /\ sync.goal # Nothing
      /\ (~sync.broken => \A f \in Outputs : Untouched(f) => Contents(f) = Original(f))
  BY <1>1 DEF IInv, StagedOK, ContentsOK
<1>6. \A f \in Outputs : Contents(f)' \in {Original(f), Planned(f)}
  BY <1>4, <1>5 DEF GoalOK
<1>7. specs' = [r \in Resources |-> specs'[r]]
  BY <1>1, <1>5 DEF DataOK, FilesOK
<1>8. ~sync'.broken => \A f \in Outputs : Untouched(f)' => Contents(f)' = Original(f)
  <2>1. \A f \in Outputs : Untouched(f)' => Untouched(f)
    BY <1>3 DEF Untouched
  <2> QED BY <1>3, <1>4, <1>5, <2>1, Zenon
<1>9. sync'.broken \in BOOLEAN
  BY <1>2, <1>3, Zenon
<1> QED BY <1>1, <1>2, <1>3, <1>6, <1>7, <1>8, <1>9, RunStep

LEMMA RollbackOK == ASSUME IInv, Rollback PROVE IInv'
<1> DEFINE k == sync.replaced
           u == sync.staged[k]
           file == u.file
           back == IF u.existed THEN u.original ELSE Nothing
<1>1. /\ sync.at = "rollback" /\ ~Idle /\ k > 0 /\ UNCHANGED <<live, baseline, report, changes>>
      /\ \/ Put(file, back) /\ sync' = [sync EXCEPT !.replaced = @ - 1]
         \/ sync' = [sync EXCEPT !.replaced = @ - 1, !.broken = TRUE] /\ UNCHANGED <<specs, plan>>
  BY DEF Rollback, Idle
<1>2. /\ DOMAIN sync = SyncFields /\ sync.staged \in Seq(Entries) /\ k \in 0..Len(sync.staged)
      /\ sync.broken \in BOOLEAN
  BY DEF IInv, SyncOK
<1>3. k \in 1..Len(sync.staged) /\ k \in Nat /\ Len(sync.staged) \in Nat
  BY <1>1, <1>2
<1>4. /\ DataOK /\ GoalOK /\ sync.goal # Nothing /\ sync.queue = <<>>
      /\ (~sync.broken => \A f \in Outputs : Untouched(f) => Contents(f) = Original(f))
  BY <1>1, <1>3 DEF IInv, StagedOK, ContentsOK
<1>5. /\ SameRun /\ sync'.at = "rollback" /\ sync'.queue = <<>> /\ sync'.staged = sync.staged
      /\ sync'.replaced = k - 1 /\ sync'.temps = sync.temps
  BY <1>1, <1>2, <1>4 DEF SameRun, SyncFields
<1>6. FilesOK(specs) /\ \A f \in Outputs : Contents(f) \in {Original(f), Planned(f)}
  BY <1>4 DEF DataOK, GoalOK
<1>7. PICK f \in Outputs : u = Entry(f)
  <2>1. u \in Entries
    BY <1>2, <1>3
  <2> HIDE DEF u
  <2> QED BY <2>1 DEF Entries
<1>8. file = f /\ back = Original(f)
  <2> HIDE DEF u, k
  <2>1. u.file = f /\ u.existed = (f # PlanFile \/ Before.plan # Nothing) /\ u.original = Original(f)
    BY <1>7 DEF Entry
  <2>2. CASE u.existed
    BY <2>1, <2>2
  <2>3. CASE ~u.existed
    <3>1. f = PlanFile /\ Before.plan = Nothing
      BY <2>1, <2>3, Zenon
    <3> QED BY <2>1, <2>3, <3>1 DEF Original
  <2> QED BY <2>1, <2>2, <2>3
<1> HIDE DEF file, back, u
<1>9. sync'.replaced \in 0..Len(sync.staged)
  BY <1>3, <1>5
<1>10. CASE Put(file, back) /\ sync' = [sync EXCEPT !.replaced = @ - 1]
  <2>1. /\ Contents(f)' = Original(f) /\ \A g \in Outputs : g # f => Contents(g)' = Contents(g)
        /\ specs' = [r \in Resources |-> specs'[r]]
    BY <1>6, <1>8, <1>10, PutWrites
  <2>2. sync'.broken = sync.broken
    BY <1>2, <1>10 DEF SyncFields
  <2>3. \A g \in Outputs : Contents(g)' \in {Original(g), Planned(g)}
    BY <1>6, <2>1
  <2>4. ASSUME NEW g \in Outputs, Untouched(g)', ~sync.broken PROVE Contents(g)' = Original(g)
    <3>1. CASE g = f
      BY <2>1, <3>1
    <3>2. CASE g # f
      <4>1. \A i \in 1..(k - 1) : sync.staged[i].file # g
        BY <1>5, <2>4 DEF Untouched
      <4>2. sync.staged[k].file # g
        BY <1>8, <3>2 DEF file, u
      <4>3. Untouched(g)
        BY <1>3, <4>1, <4>2 DEF Untouched
      <4> QED BY <1>4, <2>1, <2>4, <3>2, <4>3
    <3> QED BY <3>1, <3>2
  <2>5. ~sync'.broken => \A g \in Outputs : Untouched(g)' => Contents(g)' = Original(g)
    BY <2>2, <2>4, Zenon
  <2>6. sync'.broken \in BOOLEAN
    BY <1>2, <2>2, Zenon
  <2> HIDE DEF k
  <2> QED BY <1>1, <1>4, <1>5, <1>9, <2>1, <2>3, <2>5, <2>6, RunStep
<1>11. CASE sync' = [sync EXCEPT !.replaced = @ - 1, !.broken = TRUE] /\ UNCHANGED <<specs, plan>>
  <2>1. sync'.broken = TRUE
    BY <1>2, <1>11 DEF SyncFields
  <2>2. specs' = [r \in Resources |-> specs'[r]]
    BY <1>6, <1>11 DEF FilesOK
  <2>3. \A g \in Outputs : Contents(g)' \in {Original(g), Planned(g)}
    BY <1>6, <1>11 DEF Contents
  <2>4. sync'.broken \in BOOLEAN /\ sync'.broken
    BY <2>1, Zenon
  <2> HIDE DEF k
  <2> QED BY <1>1, <1>4, <1>5, <1>9, <2>2, <2>3, <2>4, RunStep
<1> QED BY <1>1, <1>10, <1>11

LEMMA StartOK == ASSUME IInv, Start PROVE IInv'
<1> DEFINE items == The(report).items
           goal == planReport(items, specs)
           S == Changed(goal)
<1>1. Idle /\ report # Nothing /\ UNCHANGED <<live, baseline, specs, plan, report, changes>>
  BY DEF Start
<1>2. DataOK /\ FilesOK(specs) /\ PlanOK(plan)
  BY DEF IInv, DataOK
<1>3. DataOK' /\ specs' = [r \in Resources |-> specs'[r]]
  BY <1>1, <1>2 DEF DataOK, FilesOK
<1>4. PICK planOut \in {Nothing} \cup {Just(f) : f \in {PlanFile} \cup S}, dryRun \in BOOLEAN, order \in Orders(S) :
        /\ dryRun => planOut = Just(PlanFile)
        /\ sync' = IF goal.failed THEN [NoSync EXCEPT !.result = "failed"]
                   ELSE [NoSync EXCEPT !.at = "stage", !.goal = Just(goal),
                           !.before = Just([specs |-> specs, plan |-> plan]),
                           !.queue = (IF dryRun THEN <<>> ELSE order) \o planOut]
  BY DEF Start
<1> HIDE DEF goal, S
<1>5. CASE goal.failed
  <2>1. sync' = [NoSync EXCEPT !.result = "failed"]
    BY <1>4, <1>5
  <2>2. (SyncOK /\ GoalOK /\ StagedOK /\ ContentsOK /\ EndOK)'
    BY <2>1, NoSyncNext
  <2> QED BY <1>3, <2>2 DEF IInv
<1>6. CASE ~goal.failed
  <2> DEFINE written == IF dryRun THEN <<>> ELSE order
             queue == written \o planOut
             before == [specs |-> specs, plan |-> plan]
  <2>1. sync' = [NoSync EXCEPT !.at = "stage", !.goal = Just(goal), !.before = Just(before), !.queue = queue]
    BY <1>4, <1>6
  <2> HIDE DEF queue, before
  <2>2. /\ sync'.at = "stage" /\ sync'.goal = Just(goal) /\ sync'.before = Just(before) /\ sync'.queue = queue
        /\ sync'.staged = <<>> /\ sync'.replaced = 0 /\ sync'.temps = {} /\ sync'.broken = FALSE
        /\ DOMAIN sync' = SyncFields
    BY <2>1 DEF NoSync, SyncFields
  <2>3. /\ Goal' = goal /\ Before' = before /\ before.specs = specs /\ before.plan = plan
        /\ before = [specs |-> before.specs, plan |-> before.plan]
    BY <2>2, JustIsSomething DEF Goal, Before, before
  <2>4. \A f \in Outputs : Contents(f)' = Original(f)'
    BY <1>1, <2>3 DEF Contents, Original
  <2>5. order \in Seq(Resources) /\ Range(order) = S
    <3>1. order \in [1..Cardinality(S) -> S] /\ Range(order) = S
      BY DEF Orders
    <3>2. S \subseteq Resources /\ IsFiniteSet(Resources)
      BY ResourcesAssumption DEF S, Changed
    <3>3. Cardinality(S) \in Nat
      BY <3>2, FS_Subset, FS_CardinalityType
    <3>4. order \in [1..Cardinality(S) -> Resources]
      BY <3>1, <3>2
    <3> QED BY <3>1, <3>3, <3>4
  <2>6. planOut \in Seq(Outputs) /\ (planOut = Just(PlanFile) => \A i \in DOMAIN planOut : planOut[i] = PlanFile)
    <3>1. \A f \in {PlanFile} \cup S : f \in Outputs
      BY DEF Outputs, S, Changed
    <3>2. planOut = <<>> \/ \E f \in Outputs : planOut = <<f>>
      BY <3>1 DEF Just, Nothing
    <3>3. planOut \in Seq(Outputs)
      <4>1. <<>> \in Seq(Outputs) /\ \A f \in Outputs : <<f>> \in Seq(Outputs)
        OBVIOUS
      <4> QED BY <3>2, <4>1
    <3>4. ASSUME planOut = <<PlanFile>>, NEW i \in DOMAIN planOut PROVE planOut[i] = PlanFile
      BY <3>4
    <3> QED BY <3>3, <3>4 DEF Just
  <2>7. written \in Seq(Outputs)
    BY <2>5 DEF Outputs
  <2>8. /\ queue \in Seq(Outputs) /\ Len(queue) = Len(written) + Len(planOut)
        /\ \A i \in 1..Len(written) : queue[i] = written[i]
        /\ \A i \in 1..Len(queue) : i > Len(written) => queue[i] = planOut[i - Len(written)]
    <3> HIDE DEF written
    <3> QED BY <2>6, <2>7 DEF queue
  <2>9. \/ Range(queue) \subseteq {PlanFile}
        \/ \A r \in Resources \ Range(queue) : goal.files[r] = specs[r]
    <3>1. CASE dryRun
      <4>1. written = <<>> /\ planOut = Just(PlanFile)
        BY <1>4, <3>1
      <4>2. Len(written) = 0 /\ DOMAIN planOut = 1..Len(planOut) /\ Len(planOut) \in Nat
        BY <2>6, <4>1
      <4>3. \A i \in 1..Len(queue) : queue[i] = PlanFile
        <5> HIDE DEF written
        <5> QED BY <2>6, <2>8, <4>1, <4>2
      <4>4. Range(queue) \subseteq {PlanFile}
        BY <2>8, <4>3 DEF Range
      <4> QED BY <4>4
    <3>2. CASE ~dryRun
      <4>1. written = order
        BY <3>2
      <4>2. \A r \in S : r \in Range(queue)
        <5>1. SUFFICES ASSUME NEW i \in 1..Len(order) PROVE order[i] \in Range(queue)
          BY <2>5 DEF Range
        <5>2. i \in 1..Len(queue) /\ queue[i] = order[i]
          <6> HIDE DEF written
          <6> QED BY <2>5, <2>6, <2>8, <4>1
        <5> QED BY <2>8, <5>2 DEF Range
      <4> QED BY <4>2 DEF S, Changed
    <3> QED BY <3>1, <3>2
  <2>10. SyncOK'
    <3>1. sync'.queue \in Seq(Outputs) /\ sync'.staged \in Seq(Entries') /\ Len(sync'.staged) = 0
      BY <2>2, <2>8
    <3>2. sync'.broken \in BOOLEAN
      BY <2>2, Zenon
    <3>3. sync'.at \in {"idle", "stage", "rollback"} /\ sync'.replaced \in 0..Len(sync'.staged)
      BY <2>2, <3>1
    <3> QED BY <2>2, <3>1, <3>2, <3>3, Zenon DEF SyncOK, Outputs
  <2>11. GoalOK'
    <3>1. sync'.goal # Nothing /\ sync'.before # Nothing /\ report' # Nothing
      BY <1>1, <2>2, JustIsSomething
    <3>2. FilesOK(Before'.specs) /\ PlanOK(Before'.plan) /\ Before' = [specs |-> Before'.specs, plan |-> Before'.plan]
      BY <1>2, <2>3
    <3>3. Goal' = planReport(The(report').items, Before'.specs) /\ ~Goal'.failed
      BY <1>1, <1>6, <2>3 DEF goal
    <3>4. \A f \in Outputs : Contents(f)' \in {Original(f)', Planned(f)'}
      BY <2>4
    <3> QED BY <3>1, <3>2, <3>3, <3>4, Zenon DEF GoalOK, Outputs
  <2>12. StagedOK'
    <3>1. ~Idle' /\ sync'.goal # Nothing
      BY <2>2, JustIsSomething DEF Idle
    <3>2. StagedFiles' = {}
      BY <2>2 DEF StagedFiles
    <3>3. (StagedFiles \cup Range(sync.queue))' = Range(queue)
      BY <2>2, <3>2
    <3>4. Needed(StagedFiles \cup Range(sync.queue))'
      BY <2>3, <2>9, <3>3 DEF Needed
    <3> QED BY <2>2, <3>1, <3>4 DEF StagedOK
  <2>13. ContentsOK'
    <3>1. ~sync'.broken
      BY <2>2, Zenon
    <3> QED BY <2>2, <2>4, <3>1 DEF ContentsOK, Outputs
  <2>14. EndOK'
    BY <2>2 DEF EndOK, Idle
  <2> QED BY <1>3, <2>10, <2>11, <2>12, <2>13, <2>14 DEF IInv
<1> QED BY <1>5, <1>6

LEMMA Unchanged == ASSUME IInv, UNCHANGED vars PROVE IInv'
<1> USE DEF vars
<1>1. DataOK'
  BY DEF IInv, DataOK
<1>2. Before' = Before /\ Goal' = Goal /\ Entries' = Entries /\ StagedFiles' = StagedFiles
      /\ \A f : Contents(f)' = Contents(f) /\ Original(f)' = Original(f) /\ Planned(f)' = Planned(f)
  BY DEF Before, Goal, Entries, Entry, Original, StagedFiles, Contents, Planned
<1>3. SyncOK' /\ GoalOK'
  BY <1>2, Zenon DEF IInv, SyncOK, GoalOK, Outputs
<1>4. StagedOK'
  BY <1>2 DEF IInv, StagedOK, Idle, Needed
<1>5. ContentsOK'
  BY <1>2 DEF IInv, ContentsOK, Idle, Untouched, Outputs, Contents, Planned
<1>6. EndOK'
  BY <1>2 DEF IInv, EndOK, Idle, Outputs
<1> QED BY <1>1, <1>3, <1>4, <1>5, <1>6 DEF IInv

THEOREM Invariance == Spec => []IInv
<1>1. Init => IInv
  BY InitOK
<1>2. IInv /\ [Next]_vars => IInv'
  <2> SUFFICES ASSUME IInv, [Next]_vars PROVE IInv'
    OBVIOUS
  <2>1. CASE Run
    BY <2>1, StartOK, StageOK, StageFailsOK, ReplaceOK, ReplaceFailsOK, RollbackOK, FinishOK DEF Run
  <2>2. CASE Kill
    BY <2>2, KillOK
  <2>3. CASE DetectDrift \/ RefreshBaseline \/ UpdateMetadata \/ EditSpec
    BY <2>3, DetectDriftOK, RefreshBaselineOK, UpdateMetadataOK, EditSpecOK
  <2>4. CASE UNCHANGED vars
    BY <2>4, Unchanged
  <2> QED BY <2>1, <2>2, <2>3, <2>4 DEF Next
<1> QED BY <1>1, <1>2, PTL DEF Spec

-----------------------------------------------------------------------------
(* What the properties say follows from the invariant.                     *)

LEMMA ShapeKept == IInv => TypeOK
<1> SUFFICES ASSUME IInv PROVE TypeOK
  OBVIOUS
<1>1. DataOK /\ SyncOK
  BY DEF IInv
<1>2. \A r \in Resources :
        /\ DOMAIN specs[r].request \subseteq BindingsOf(r)
        /\ DOMAIN specs[r].input = OperationsOf(r)
        /\ \A o \in OperationsOf(r) : {<<n>> : n \in specs[r].input[o]} \subseteq specs[r].fields
  <2>1. SUFFICES ASSUME NEW r \in Resources
                 PROVE  /\ DOMAIN specs[r].request \subseteq BindingsOf(r)
                        /\ DOMAIN specs[r].input = OperationsOf(r)
                        /\ \A o \in OperationsOf(r) : {<<n>> : n \in specs[r].input[o]} \subseteq specs[r].fields
    OBVIOUS
  <2>2. SpecOK(r, specs[r])
    BY <1>1 DEF DataOK, FilesOK
  <2> DEFINE input == specs[r].input
  <2>3. input = [o \in OperationsOf(r) |-> input[o]]
    BY <2>2, Zenon DEF SpecOK
  <2>4. DOMAIN input = OperationsOf(r)
    <3> HIDE DEF input
    <3> QED BY <2>3
  <2>5. \A o \in OperationsOf(r) : \A n \in input[o] : <<n>> \in specs[r].fields
    BY <2>2, Zenon DEF SpecOK
  <2>6. DOMAIN specs[r].request \subseteq BindingsOf(r)
    BY <2>2, Zenon DEF SpecOK
  <2> QED BY <2>4, <2>5, <2>6
<1>3. \A i \in DOMAIN plan : \A j \in DOMAIN plan[i] : plan[i][j].action \in Actions
  <2>1. CASE plan = Nothing
    BY <2>1 DEF Nothing
  <2>2. CASE \E entries \in Seq(PlanEntries) : plan = Just(entries)
    <3>1. PICK entries \in Seq(PlanEntries) : plan = Just(entries)
      BY <2>2
    <3>2. \A i \in DOMAIN plan : plan[i] = entries
      BY <3>1 DEF Just
    <3>3. \A j \in DOMAIN entries : entries[j] \in PlanEntries
      OBVIOUS
    <3>4. \A e \in PlanEntries : e.action \in Actions
      BY DEF PlanEntries
    <3> QED BY <3>2, <3>3, <3>4
  <2> QED BY <1>1, <2>1, <2>2 DEF DataOK, PlanOK
<1> QED BY <1>1, <1>2, <1>3 DEF TypeOK, DataOK, SyncOK

LEMMA EndsWhole == IInv => AllOrNothing
<1> SUFFICES ASSUME IInv PROVE AllOrNothing
  OBVIOUS
<1>1. ASSUME Idle, sync.result = "failed", sync.before # Nothing, ~sync.broken
      PROVE  The(sync.before) = [specs |-> specs, plan |-> plan]
  <2>1. \A f \in Outputs : Contents(f) = Original(f)
    BY <1>1, Zenon DEF IInv, EndOK
  <2>2. plan = Before.plan /\ \A r \in Resources : specs[r] = Before.specs[r]
    BY <2>1, OutputsAre DEF Contents, Original
  <2>3. FilesOK(specs) /\ FilesOK(Before.specs) /\ Before = [specs |-> Before.specs, plan |-> Before.plan]
    BY <1>1 DEF IInv, DataOK, GoalOK
  <2>4. specs = Before.specs
    BY <2>2, <2>3, FilesEqual
  <2> QED BY <2>2, <2>3, <2>4 DEF Before
<1>2. Idle /\ sync.result # "killed" => sync.temps = {}
  BY DEF IInv, EndOK
<1>3. ASSUME Idle, sync.result = "done"
      PROVE  /\ plan # The(sync.before).plan => plan = Just(The(sync.goal).plan)
             /\ specs # The(sync.before).specs => specs = The(sync.goal).files
  BY <1>3 DEF IInv, EndOK, Goal, Before
<1> QED BY <1>1, <1>2, <1>3, Zenon DEF AllOrNothing

LEMMA RunsAgain == IInv => Resumable
<1> SUFFICES ASSUME IInv, sync.goal # Nothing
             PROVE  LET again == planReport(The(report).items, specs)
                    IN  ~again.failed /\ again.files = The(sync.goal).files
  BY DEF Resumable
<1> DEFINE items == The(report).items
<1>1. /\ FilesOK(specs) /\ FilesOK(Before.specs) /\ Goal = planReport(items, Before.specs) /\ ~Goal.failed
      /\ \A f \in Outputs : Contents(f) \in {Original(f), Planned(f)}
  BY DEF IInv, DataOK, GoalOK
<1>2. \A r \in Resources : specs[r] \in {Before.specs[r], Goal.files[r]}
  BY <1>1, OutputsAre DEF Contents, Original, Planned, Goal
<1> HIDE DEF items
<1>3. ~planReport(items, specs).failed /\ planReport(items, specs).files = Goal.files
  BY <1>1, <1>2, Resumes
<1> QED BY <1>3 DEF Goal, items

LEMMA PatchIsClosed ==
  ASSUME NEW files, FilesOK(files), NEW item \in Items, item.kind = KindMissing, NEW f,
         IsSetBy(item, f, files[ResourceOf[item.binding]])
  PROVE  item \notin Detect(live, baseline, RequestsIn(files)).items
<1> DEFINE b == item.binding
           p == item.param
           request == RequestsIn(files)
<1>1. ResourceOf[b] \in Resources /\ p \in Parameters
  BY ItemShape
<1>2. p \in request[b]
  BY <1>1, RequestsAre DEF IsSetBy
<1>3. leafCovered(p, request[b])
  <2>1. IsPrefix(p, p)
    BY <1>1, ParameterLength DEF IsPrefix
  <2> QED BY <1>2, <2>1 DEF leafCovered, Related
<1> HIDE DEF request
<1>4. ASSUME NEW c, item \in diffBinding(c, live[c], baseline[c], request[c])
      PROVE  FALSE
  <2>1. item.binding = c /\ item.param \in Missing(live[c], baseline[c], request[c])
    BY <1>4 DEF diffBinding, KindMissing, KindRemoved, KindUncovered
  <2> QED BY <1>3, <2>1 DEF Missing
<1> QED BY <1>4 DEF Detect, request

LEMMA DriftCloses == IInv => ClosesDrift
<1> SUFFICES ASSUME IInv, sync.result = "done", specs = The(sync.goal).files,
                    NEW i \in DOMAIN The(sync.goal).plan, The(sync.goal).plan[i].action = "patched"
             PROVE  LET item == The(sync.goal).plan[i].item
                        spec == specs[ResourceOf[item.binding]]
                    IN  /\ item \notin Detect(live, baseline, RequestsIn(specs)).items
                        /\ \E f \in spec.fields \cap FieldsOf(item.param) :
                             \A o \in UsedBy[item.binding] : f[1] \in spec.input[o]
  BY DEF ClosesDrift
<1> DEFINE item == The(sync.goal).plan[i].item
           spec == specs[ResourceOf[item.binding]]
<1>1. sync.goal # Nothing /\ DataOK /\ GoalOK /\ FilesOK(specs)
  BY DEF IInv, EndOK, StagedOK, DataOK
<1>2. PlanSays(Goal, The(report).items)
  BY <1>1, MixedOK
<1>3. /\ item \in Items /\ item.kind = KindMissing
      /\ \E f \in FieldsOf(item.param) : IsSetBy(item, f, Goal.files[ResourceOf[item.binding]])
  BY <1>2 DEF PlanSays, Goal
<1>4. Goal.files = specs
  BY DEF Goal
<1> HIDE DEF item
<1>5. PICK f \in FieldsOf(item.param) : IsSetBy(item, f, spec)
  BY <1>3, <1>4
<1>6. item \notin Detect(live, baseline, RequestsIn(specs)).items
  BY <1>1, <1>3, <1>5, PatchIsClosed
<1>7. f \in spec.fields \cap FieldsOf(item.param) /\ \A o \in UsedBy[item.binding] : f[1] \in spec.input[o]
  BY <1>5 DEF IsSetBy
<1> QED BY <1>6, <1>7 DEF item

\* Two parameters with a field in common, and not of groups with other names,
\* are told apart by nobody who compares their paths.
LEMMA SameField ==
  ASSUME NEW p \in Parameters, NEW q \in Parameters, FieldsOf(p) \cap FieldsOf(q) # {},
         ~(Len(p) = 2 /\ snakeCase[p[1]] # snakeCase[q[1]])
  PROVE  fieldPath(p) = fieldPath(q)
<1>0. /\ Len(p) \in 1..2 /\ DOMAIN p = 1..Len(p)
      /\ Len(q) \in 1..2 /\ DOMAIN q = 1..Len(q)
  BY ParameterLength, ParametersAssumption
<1>1. PICK f : f \in FieldsOf(p) /\ f \in FieldsOf(q)
  OBVIOUS
<1>2. CASE Len(p) = 1 /\ Len(q) = 1
  <2>1. f = <<snakeCase[p[1]]>> /\ f = <<snakeCase[q[1]]>>
    BY <1>1, <1>2 DEF FieldsOf
  <2>2. snakeCase[p[1]] = snakeCase[q[1]]
    BY <2>1
  <2>3. DOMAIN p = {1} /\ DOMAIN q = {1}
    BY <1>0, <1>2
  <2> QED BY <2>2, <2>3 DEF fieldPath
<1>3. CASE Len(p) = 2 /\ Len(q) = 2
  <2>1. PICK g \in GroupNames(p[1]) : f = <<g, snakeCase[p[2]]>>
    BY <1>1, <1>3 DEF FieldsOf
  <2>2. PICK h \in GroupNames(q[1]) : f = <<h, snakeCase[q[2]]>>
    BY <1>1, <1>3 DEF FieldsOf
  <2>3. snakeCase[p[2]] = snakeCase[q[2]]
    BY <2>1, <2>2
  <2>4. snakeCase[p[1]] = snakeCase[q[1]]
    BY <1>3
  <2>5. DOMAIN p = {1, 2} /\ DOMAIN q = {1, 2}
    BY <1>0, <1>3
  <2> QED BY <2>3, <2>4, <2>5 DEF fieldPath
<1>4. Len(p) = Len(q)
  <2>1. ASSUME NEW r \in Parameters, f \in FieldsOf(r) PROVE Len(f) = Len(r)
    <3>1. Len(r) \in 1..2
      BY ParameterLength
    <3>2. CASE Len(r) = 1
      BY <2>1, <3>2 DEF FieldsOf
    <3>3. CASE Len(r) = 2
      BY <2>1, <3>3 DEF FieldsOf
    <3> QED BY <3>1, <3>2, <3>3
  <2>2. Len(f) = Len(p) /\ Len(f) = Len(q)
    BY <1>1, <2>1
  <2> QED BY <2>2, Zenon
<1>5. Len(p) = 1 \/ Len(p) = 2
  BY <1>0
<1> QED BY <1>2, <1>3, <1>4, <1>5, Zenon

LEMMA FieldsAreApart == IInv => OneParameterPerField
<1> DEFINE item(k) == Goal.plan[k].item
           items == The(report).items
<1>1. ASSUME IInv, sync.goal # Nothing, NEW i \in DOMAIN Goal.plan, Goal.plan[i].action = "patched",
             NEW b \in DOMAIN Goal.files[ResourceOf[item(i).binding]].request,
             NEW p \in Goal.files[ResourceOf[item(i).binding]].request[b] \ {item(i).param},
             FieldsOf(p) \cap FieldsOf(item(i).param) # {},
             p \notin Before.specs[ResourceOf[item(i).binding]].request[b],
             ~(Len(p) = 2 /\ snakeCase[p[1]] # snakeCase[item(i).param[1]])
      PROVE  FALSE
  <2> DEFINE r == ResourceOf[item(i).binding]
  <2>1. WorkOK(Goal) /\ PlanSays(Goal, items) /\ FilesOK(Before.specs) /\ MapsDrift(Goal, items, Before.specs)
    BY <1>1, MixedOK, ReportPlanned DEF IInv, GoalOK
  <2>2. /\ item(i) \in items \cap Items /\ item(i).kind = KindMissing
        /\ normalizedFieldKey(item(i)) \notin Collisions(items)
    BY <1>1, <2>1 DEF PlanSays
  <2>3. r \in Resources /\ item(i).param \in Parameters
    BY <2>2, ItemShape
  <2> HIDE DEF item, items
  <2>4. PICK j \in items \cap Items : j.kind = KindMissing /\ j.binding = b /\ j.param = p
    BY <1>1, <2>1, <2>3 DEF MapsDrift
  <2>5. ResourceOf[b] = r /\ p \in Parameters
    <3>1. b \in BindingsOf(r)
      BY <2>1, <2>3 DEF WorkOK, FilesOK, SpecOK
    <3> QED BY <2>4, <3>1, ItemShape DEF BindingsOf
  <2>6. fieldPath(p) = fieldPath(item(i).param)
    BY <1>1, <2>3, <2>5, SameField
  <2>7. normalizedFieldKey(j) = normalizedFieldKey(item(i)) /\ j.param # item(i).param
    BY <2>4, <2>5, <2>6 DEF normalizedFieldKey
  <2>8. normalizedFieldKey(item(i)) \in Collisions(items)
    BY <2>2, <2>4, <2>7 DEF Collisions
  <2> QED BY <2>2, <2>8
<1> QED BY <1>1, Zenon DEF OneParameterPerField, Goal, Before

-----------------------------------------------------------------------------
(* The theorems.                                                           *)

\* transaction.go, and the run that comes after it: whatever the report, the
\* specs and the failures, a sync that says it failed changed nothing, one
\* that says it is done wrote all, and one that was cut short anywhere is
\* finished by running it again.
THEOREM SyncTakesEffectAsAWhole == Spec => []RunsAreWhole
<1>1. IInv => RunsAreWhole
  BY ShapeKept, EndsWhole, RunsAgain DEF RunsAreWhole
<1> QED BY <1>1, Invariance, PTL

\* applyMissing and the collision check of planReport: what a sync patched is
\* drift no longer, every operation that calls the binding exposes the field,
\* and the run gave that field to no other parameter of the resource but one
\* whose group is named by the plural of the other's.
THEOREM SyncClosesTheDrift == Spec => []SyncIsEffective
<1>1. IInv => SyncIsEffective
  BY DriftCloses, FieldsAreApart DEF SyncIsEffective
<1> QED BY <1>1, Invariance, PTL
=============================================================================
