--------------------------- MODULE WorkflowProofs ---------------------------
(* Proofs about the execution of a command: for any resources, number of      *)
(* repeated executions and interfering clients, retries have one effect,      *)
(* results tell what was done, and success means what it says.                *)
EXTENDS Workflow, FiniteSetTheorems, TLAPS

-----------------------------------------------------------------------------
\* What the operations of the catalog have in common.

Apis == {"create", "update", "delete", "start", "move", "assign"}

Marks == {"token", "id", "dry", "waits", "retry", "many", "items", "each"}

StepRecords ==
  [do : {"binding", "wait", "probe", "emit"}, api : Apis \cup {"none"}, w : Waiters,
   marks : SUBSET Marks, unlessNoWait : BOOLEAN]

Waits(s) == s.do = "wait" \/ (s.do = "binding" /\ "waits" \in s.marks)
Reads(s) == s.do = "probe" \/ Waits(s)

\* The operations that make one request.
Single == {"create", "delete", "start", "move"}

Shape(S, first) ==
  /\ S \in Seq(StepRecords)
  /\ \E k \in 1..Len(S) : S[k] = first /\ first.do = "binding" /\ first.api \in Apis
  /\ \A k \in 1..Len(S) :
       /\ S[k].do = "wait" => S[k].unlessNoWait /\ S[k].marks = {}
       /\ S[k].do = "binding" =>
            /\ S[k].api = first.api /\ ~S[k].unlessNoWait
            /\ "each" \in S[k].marks => k = 2 /\ first.api = "assign"
            /\ "items" \in S[k].marks <=> first.api = "move"
            /\ "id" \in S[k].marks <=> first.api = "create"
            /\ "retry" \in S[k].marks => first.api \in {"update", "delete"}
            /\ "waits" \in S[k].marks \/ \E j \in (k + 1)..Len(S) : Reads(S[j])
       /\ S[k].do = "binding" /\ first.api \in Single => k = 1 /\ S[k] = first
       /\ S[k].do = "binding" /\ first.api = "assign" =>
            k = 2 /\ S[k] = first /\ "each" \in S[k].marks /\ "token" \in S[k].marks
       /\ Waits(S[k]) =>
            /\ first.api # "assign"
            /\ first.api = "delete" => S[k].w.by = "absent"
            /\ first.api = "move" => S[k].w.by = "capture"
            /\ first.api \in {"create", "start"} => S[k].w.by = "status"
  /\ first.api \in Single => \E k \in 1..Len(S) : Waits(S[k])
  /\ first.api \in {"move", "assign"} => "dry" \notin first.marks
  /\ first.api = "move" => "token" \notin first.marks

LEMMA WaitersKnown ==
  /\ NoWaiter \in Waiters
  /\ \A probe \in {"attribute", "state", "list"} :
       /\ Ready(probe) \in Waiters /\ Ready(probe).by = "status"
       /\ ReadyOrFailed(probe) \in Waiters /\ ReadyOrFailed(probe).by = "status"
       /\ ReadyLater(probe) \in Waiters /\ ReadyLater(probe).by = "status"
       /\ Gone(probe) \in Waiters /\ Gone(probe).by = "absent"
       /\ ProbeFirst(probe) \in StepRecords /\ Probe(probe) \in StepRecords
       /\ ProbeFirst(probe).do = "probe" /\ Probe(probe).do = "probe"
  /\ Visible \in Waiters /\ Visible.by = "capture"
  /\ Emit \in StepRecords /\ Emit.do = "emit"
  BY DEF NoWaiter, Waiters, Ready, ReadyOrFailed, ReadyLater, Gone, ProbeFirst, Probe, Visible, Emit,
         StepRecords, Apis, Marks

LEMMA StepsKnown ==
  /\ \A api \in Apis, w \in Waiters, marks \in SUBSET Marks :
       /\ Binding(api, w, marks) \in StepRecords
       /\ Binding(api, w, marks).do = "binding" /\ Binding(api, w, marks).api = api
       /\ Binding(api, w, marks).w = w /\ Binding(api, w, marks).marks = marks
       /\ ~Binding(api, w, marks).unlessNoWait
  /\ \A w \in Waiters :
       /\ WaitFor(w) \in StepRecords /\ WaitFor(w).do = "wait" /\ WaitFor(w).w = w
       /\ WaitFor(w).marks = {} /\ WaitFor(w).unlessNoWait
  BY DEF Binding, WaitFor, StepRecords, Apis, Marks

LEMMA VpcCreateShape == Shape(VpcCreate, VpcCreate[1])
  <1> DEFINE first == Binding("create", Ready("attribute"), {"token", "id", "dry", "waits"})
             S == <<first, Probe("attribute"), Emit>>
  <1>1. /\ first \in StepRecords /\ first.do = "binding" /\ first.api = "create"
       /\ first.marks = {"token", "id", "dry", "waits"} /\ ~first.unlessNoWait
       /\ first.w.by = "status"
    BY WaitersKnown, StepsKnown DEF Apis, Marks
  <1>2. /\ Probe("attribute") \in StepRecords /\ Probe("attribute").do = "probe"
       /\ Emit \in StepRecords /\ Emit.do = "emit"
    BY WaitersKnown
  <1> HIDE DEF first
  <1>3. S \in Seq(StepRecords) /\ Len(S) = 3 /\ S[1] = first /\ S[2] = Probe("attribute") /\ S[3] = Emit
    BY <1>1, <1>2
  <1> HIDE DEF S
  <1>4. Shape(S, first)
    BY <1>1, <1>2, <1>3 DEF Shape, Waits, Reads, Single, Apis
  <1> QED
    BY <1>4, <1>3 DEF VpcCreate, S, first

LEMMA VpcUpdateShape == Shape(VpcUpdate, VpcUpdate[1])
  <1> DEFINE first == Binding("update", Ready("attribute"), {"retry", "waits"})
             S == <<first, Probe("attribute")>>
  <1>1. /\ first \in StepRecords /\ first.do = "binding" /\ first.api = "update"
       /\ first.marks = {"retry", "waits"} /\ ~first.unlessNoWait
       /\ first.w.by = "status"
    BY WaitersKnown, StepsKnown DEF Apis, Marks
  <1>2. /\ Probe("attribute") \in StepRecords /\ Probe("attribute").do = "probe"
    BY WaitersKnown
  <1> HIDE DEF first
  <1>3. S \in Seq(StepRecords) /\ Len(S) = 2 /\ S[1] = first /\ S[2] = Probe("attribute")
    BY <1>1, <1>2
  <1> HIDE DEF S
  <1>4. Shape(S, first)
    BY <1>1, <1>2, <1>3 DEF Shape, Waits, Reads, Single, Apis
  <1> QED
    BY <1>4, <1>3 DEF VpcUpdate, S, first

LEMMA VpcDeleteShape == Shape(VpcDelete, VpcDelete[1])
  <1> DEFINE first == Binding("delete", Gone("list"), {"token", "dry", "waits"})
             S == <<first, Emit>>
  <1>1. /\ first \in StepRecords /\ first.do = "binding" /\ first.api = "delete"
       /\ first.marks = {"token", "dry", "waits"} /\ ~first.unlessNoWait
       /\ first.w.by = "absent"
    BY WaitersKnown, StepsKnown DEF Apis, Marks
  <1>2. /\ Emit \in StepRecords /\ Emit.do = "emit"
    BY WaitersKnown
  <1> HIDE DEF first
  <1>3. S \in Seq(StepRecords) /\ Len(S) = 2 /\ S[1] = first /\ S[2] = Emit
    BY <1>1, <1>2
  <1> HIDE DEF S
  <1>4. Shape(S, first)
    BY <1>1, <1>2, <1>3 DEF Shape, Waits, Reads, Single, Apis
  <1> QED
    BY <1>4, <1>3 DEF VpcDelete, S, first

LEMMA InstanceCreateShape == Shape(InstanceCreate, InstanceCreate[1])
  <1> DEFINE first == Binding("create", Ready("state"), {"token", "id", "dry", "waits"})
             S == <<first, Probe("state"), Emit>>
  <1>1. /\ first \in StepRecords /\ first.do = "binding" /\ first.api = "create"
       /\ first.marks = {"token", "id", "dry", "waits"} /\ ~first.unlessNoWait
       /\ first.w.by = "status"
    BY WaitersKnown, StepsKnown DEF Apis, Marks
  <1>2. /\ Probe("state") \in StepRecords /\ Probe("state").do = "probe"
       /\ Emit \in StepRecords /\ Emit.do = "emit"
    BY WaitersKnown
  <1> HIDE DEF first
  <1>3. S \in Seq(StepRecords) /\ Len(S) = 3 /\ S[1] = first /\ S[2] = Probe("state") /\ S[3] = Emit
    BY <1>1, <1>2
  <1> HIDE DEF S
  <1>4. Shape(S, first)
    BY <1>1, <1>2, <1>3 DEF Shape, Waits, Reads, Single, Apis
  <1> QED
    BY <1>4, <1>3 DEF InstanceCreate, S, first

LEMMA InstanceDeleteShape == Shape(InstanceDelete, InstanceDelete[1])
  <1> DEFINE first == Binding("delete", Gone("state"), {"retry", "many", "waits"})
             S == <<first, Emit>>
  <1>1. /\ first \in StepRecords /\ first.do = "binding" /\ first.api = "delete"
       /\ first.marks = {"retry", "many", "waits"} /\ ~first.unlessNoWait
       /\ first.w.by = "absent"
    BY WaitersKnown, StepsKnown DEF Apis, Marks
  <1>2. /\ Emit \in StepRecords /\ Emit.do = "emit"
    BY WaitersKnown
  <1> HIDE DEF first
  <1>3. S \in Seq(StepRecords) /\ Len(S) = 2 /\ S[1] = first /\ S[2] = Emit
    BY <1>1, <1>2
  <1> HIDE DEF S
  <1>4. Shape(S, first)
    BY <1>1, <1>2, <1>3 DEF Shape, Waits, Reads, Single, Apis
  <1> QED
    BY <1>4, <1>3 DEF InstanceDelete, S, first

LEMMA InstanceStartShape == Shape(InstanceStart, InstanceStart[1])
  <1> DEFINE first == Binding("start", Ready("state"), {"many", "waits"})
             S == <<first, Probe("state")>>
  <1>1. /\ first \in StepRecords /\ first.do = "binding" /\ first.api = "start"
       /\ first.marks = {"many", "waits"} /\ ~first.unlessNoWait
       /\ first.w.by = "status"
    BY WaitersKnown, StepsKnown DEF Apis, Marks
  <1>2. /\ Probe("state") \in StepRecords /\ Probe("state").do = "probe"
    BY WaitersKnown
  <1> HIDE DEF first
  <1>3. S \in Seq(StepRecords) /\ Len(S) = 2 /\ S[1] = first /\ S[2] = Probe("state")
    BY <1>1, <1>2
  <1> HIDE DEF S
  <1>4. Shape(S, first)
    BY <1>1, <1>2, <1>3 DEF Shape, Waits, Reads, Single, Apis
  <1> QED
    BY <1>4, <1>3 DEF InstanceStart, S, first

LEMMA ImageCopyShape == Shape(ImageCopy, ImageCopy[1])
  <1> DEFINE first == Binding("create", NoWaiter, {"token", "id"})
             awaited == WaitFor(ReadyOrFailed("state"))
             S == <<first, awaited, Emit>>
  <1>1. /\ first \in StepRecords /\ first.do = "binding" /\ first.api = "create"
       /\ first.marks = {"token", "id"} /\ ~first.unlessNoWait
    BY WaitersKnown, StepsKnown DEF Apis, Marks
  <1>2. /\ awaited \in StepRecords /\ awaited.do = "wait" /\ awaited.unlessNoWait
       /\ awaited.marks = {} /\ awaited.w.by = "status"
    BY WaitersKnown, StepsKnown
  <1>3. /\ Emit \in StepRecords /\ Emit.do = "emit"
    BY WaitersKnown
  <1> HIDE DEF first, awaited
  <1>4. S \in Seq(StepRecords) /\ Len(S) = 3 /\ S[1] = first /\ S[2] = awaited /\ S[3] = Emit
    BY <1>1, <1>2, <1>3
  <1> HIDE DEF S
  <1>5. Shape(S, first)
    BY <1>1, <1>2, <1>3, <1>4 DEF Shape, Waits, Reads, Single, Apis
  <1> QED
    BY <1>5, <1>4 DEF ImageCopy, S, first, awaited

LEMMA CacheCreateShape == Shape(CacheCreate, CacheCreate[1])
  <1> DEFINE first == Binding("create", ReadyLater("state"), {"id", "waits"})
             S == <<first>>
  <1>1. /\ first \in StepRecords /\ first.do = "binding" /\ first.api = "create"
       /\ first.marks = {"id", "waits"} /\ ~first.unlessNoWait
       /\ first.w.by = "status"
    BY WaitersKnown, StepsKnown DEF Apis, Marks
  <1> HIDE DEF first
  <1>2. S \in Seq(StepRecords) /\ Len(S) = 1 /\ S[1] = first
    BY <1>1
  <1> HIDE DEF S
  <1>3. Shape(S, first)
    BY <1>1, <1>2 DEF Shape, Waits, Reads, Single, Apis
  <1> QED
    BY <1>3, <1>2 DEF CacheCreate, S, first

LEMMA ClusterUpdateShape == Shape(ClusterUpdate, ClusterUpdate[1])
  <1> DEFINE first == Binding("update", ReadyOrFailed("attribute"), {"waits"})
             second == Binding("update", NoWaiter, {})
             S == <<first, second, Probe("attribute")>>
  <1>1. /\ first \in StepRecords /\ first.do = "binding" /\ first.api = "update"
       /\ first.marks = {"waits"} /\ ~first.unlessNoWait
       /\ first.w.by = "status"
       /\ second \in StepRecords /\ second.do = "binding" /\ second.api = "update"
       /\ second.marks = {} /\ ~second.unlessNoWait
    BY WaitersKnown, StepsKnown DEF Apis, Marks
  <1>2. /\ Probe("attribute") \in StepRecords /\ Probe("attribute").do = "probe"
    BY WaitersKnown
  <1> HIDE DEF first, second
  <1>3. S \in Seq(StepRecords) /\ Len(S) = 3 /\ S[1] = first /\ S[2] = second /\ S[3] = Probe("attribute")
    BY <1>1, <1>2
  <1> HIDE DEF S
  <1>4. Shape(S, first)
    BY <1>1, <1>2, <1>3 DEF Shape, Waits, Reads, Single, Apis
  <1> QED
    BY <1>4, <1>3 DEF ClusterUpdate, S, first, second

LEMMA GroupMoveShape == Shape(GroupMove, GroupMove[1])
  <1> DEFINE first == Binding("move", Visible, {"items", "many", "waits"})
             S == <<first>>
  <1>1. /\ first \in StepRecords /\ first.do = "binding" /\ first.api = "move"
       /\ first.marks = {"items", "many", "waits"} /\ ~first.unlessNoWait
       /\ first.w.by = "capture"
    BY WaitersKnown, StepsKnown DEF Apis, Marks
  <1> HIDE DEF first
  <1>2. S \in Seq(StepRecords) /\ Len(S) = 1 /\ S[1] = first
    BY <1>1
  <1> HIDE DEF S
  <1>3. Shape(S, first)
    BY <1>1, <1>2 DEF Shape, Waits, Reads, Single, Apis
  <1> QED
    BY <1>3, <1>2 DEF GroupMove, S, first

LEMMA InterfaceUpdateShape == Shape(InterfaceUpdate, InterfaceUpdate[2])
  <1> DEFINE first == Binding("assign", NoWaiter, {"token", "each", "many"})
             S == <<ProbeFirst("attribute"), first, Probe("attribute"), Emit>>
  <1>1. /\ ProbeFirst("attribute") \in StepRecords /\ ProbeFirst("attribute").do = "probe"
       /\ Probe("attribute") \in StepRecords /\ Probe("attribute").do = "probe"
       /\ Emit \in StepRecords /\ Emit.do = "emit"
    BY WaitersKnown
  <1>2. /\ first \in StepRecords /\ first.do = "binding" /\ first.api = "assign"
       /\ first.marks = {"token", "each", "many"} /\ ~first.unlessNoWait
    BY WaitersKnown, StepsKnown DEF Apis, Marks
  <1> HIDE DEF first
  <1>3. S \in Seq(StepRecords) /\ Len(S) = 4 /\ S[1] = ProbeFirst("attribute") /\ S[2] = first /\ S[3] = Probe("attribute") /\ S[4] = Emit
    BY <1>1, <1>2
  <1> HIDE DEF S
  <1>4. Shape(S, first)
    BY <1>1, <1>2, <1>3 DEF Shape, Waits, Reads, Single, Apis
  <1> QED
    BY <1>4, <1>3 DEF InterfaceUpdate, S, first

LEMMA WritingIsFirst ==
  ASSUME NEW op, NEW n \in 1..2, Shape(Catalog[op], Catalog[op][n]),
         n = 2 => Catalog[op][1].do # "binding" /\ Len(Catalog[op]) >= 2
  PROVE  Shape(Catalog[op], Writing(op))
  <1> DEFINE S == Catalog[op]
             Leads(k) == S[k].do = "binding" /\ \A j \in 1..(k - 1) : S[j].do # "binding"
  <1>1. DOMAIN S = 1..Len(S) /\ Len(S) \in Nat /\ \E k \in 1..Len(S) : S[k] = S[n] /\ S[n].do = "binding"
    BY DEF Shape
  <1> HIDE DEF S
  <1>2. n \in DOMAIN S /\ Leads(n) /\ \A k \in DOMAIN S : Leads(k) => k = n
    BY <1>1 DEF S
  <1>3. (CHOOSE k \in DOMAIN S : Leads(k)) = n
    BY <1>2
  <1>4. Writing(op) = S[CHOOSE k \in DOMAIN S : Leads(k)]
    BY DEF Writing, S
  <1> QED
    BY <1>3, <1>4 DEF S

LEMMA Shapes == \A op \in Operation : Shape(Catalog[op], Writing(op))
  <1> SUFFICES ASSUME NEW op \in Operation PROVE Shape(Catalog[op], Writing(op))
    OBVIOUS
  <1>1. op \in DOMAIN Catalog
    BY WorkflowAssumption
  <1>2. op \in {"vpc_create", "vpc_update", "vpc_delete", "instance_create", "instance_delete",
                "instance_start", "image_copy", "cache_create", "cluster_update", "group_move",
                "interface_update"}
    BY <1>1 DEF Catalog
  <1>3. /\ Catalog["vpc_create"] = VpcCreate /\ Catalog["vpc_update"] = VpcUpdate
        /\ Catalog["vpc_delete"] = VpcDelete /\ Catalog["instance_create"] = InstanceCreate
        /\ Catalog["instance_delete"] = InstanceDelete /\ Catalog["instance_start"] = InstanceStart
        /\ Catalog["image_copy"] = ImageCopy /\ Catalog["cache_create"] = CacheCreate
        /\ Catalog["cluster_update"] = ClusterUpdate /\ Catalog["group_move"] = GroupMove
        /\ Catalog["interface_update"] = InterfaceUpdate
    BY DEF Catalog
  <1>4. CASE op # "interface_update"
    <2>1. Shape(Catalog[op], Catalog[op][1])
      BY <1>2, <1>3, <1>4, VpcCreateShape, VpcUpdateShape, VpcDeleteShape, InstanceCreateShape,
         InstanceDeleteShape, InstanceStartShape, ImageCopyShape, CacheCreateShape, ClusterUpdateShape,
         GroupMoveShape
    <2> QED
      BY <2>1, WritingIsFirst
  <1>5. CASE op = "interface_update"
    <2>1. InterfaceUpdate[1] = ProbeFirst("attribute") /\ Len(InterfaceUpdate) = 4
      BY DEF InterfaceUpdate
    <2>2. InterfaceUpdate[1].do = "probe"
      BY <2>1, WaitersKnown
    <2>3. Catalog[op] = InterfaceUpdate
      BY <1>3, <1>5
    <2>4. Shape(Catalog[op], Catalog[op][2]) /\ Catalog[op][1].do # "binding" /\ Len(Catalog[op]) >= 2
      <3>1. Shape(Catalog[op], Catalog[op][2])
        BY <2>3, InterfaceUpdateShape, Zenon
      <3>2. Catalog[op][1].do = "probe" /\ Len(Catalog[op]) = 4
        BY <2>1, <2>2, <2>3, Zenon
      <3> QED
        BY <3>1, <3>2
    <2>5. 2 \in 1..2
      OBVIOUS
    <2> QED
      BY <2>4, <2>5, WritingIsFirst
  <1> QED
    BY <1>4, <1>5

-----------------------------------------------------------------------------
\* The invariant.

Api == Writing(cmd.op).api

Before == pc \in {"ready", "item", "call", "backoff"}
Requesting == pc \in {"call", "backoff"}
Succeeding == outcome \in {"running", "ok"}
WaitOwed == \E k \in 1..Len(Steps) : k >= step /\ Waits(Steps[k])
ReadOwed == \E k \in 1..Len(Steps) : k >= step /\ Reads(Steps[k])
Each == {{r} : r \in cmd.ids}

\* Where the execution is in the workflow, and what it waits for.
Place ==
  /\ pc \in {"item", "call", "backoff", "reconciling"} => ~Finished /\ Step.do = "binding"
  /\ pc = "waiting" => ~Finished /\ Waits(Step) /\ ~cmd.noWait /\ wait.w = Step.w /\ wait.ids = CurrentIDs
  /\ wait.at = "sleep" => wait.n < MaxAttempts
  /\ pc = "done" <=> outcome # "running"
  /\ outcome = "ok" => Finished

\* The requests still to make.
Work ==
  /\ pc = "ready" => todo = {}
  /\ ~Finished /\ "each" \notin Step.marks =>
       /\ pc = "item" => todo = {cmd.ids}
       /\ pc \in {"call", "backoff", "waiting", "reconciling"} => todo = {}
       /\ Requesting => item = cmd.ids
  /\ ~Finished /\ "each" \in Step.marks =>
       /\ todo \subseteq Each
       /\ Requesting => item \in Each

\* What a command counts.
Counts ==
  /\ Requesting => effects = 0
  /\ effects <= 1
  /\ listed = IF outcome \in Bare THEN 0 ELSE writes
  /\ cmd.dry => writes = 0
  /\ dryRun => cmd.dry
  /\ Before /\ step = 1 => writes = 0

\* A view is of now, or a later step reads again.
Views ==
  /\ pc \in {"item", "call", "backoff"} => cache.probe = "none"
  /\ cache.probe # "none" => cache.at = writes
  /\ Succeeding => cmd.noWait \/ view \in {-1, writes} \/ ReadOwed

\* The tokens of requests.
Keys ==
  /\ honoured \subseteq 0..minted
  /\ Requesting /\ "token" \notin Step.marks => token = NoToken
  /\ Requesting /\ "token" \in Step.marks /\ cmd.key => token = 0
  /\ Requesting /\ "token" \in Step.marks /\ ~cmd.key => token = minted /\ minted \notin honoured

Made == {r \in Resources : maker[r] # None}

\* What a creation has made.
Creations ==
  Api = "create" =>
    /\ Cardinality(Made) <= IF cmd.key THEN 1 ELSE run
    /\ ~cmd.key /\ Before /\ step = 1 => Cardinality(Made) < run
    /\ cmd.key /\ 0 \notin honoured => Made = {}
    /\ ~cmd.dry /\ Succeeding /\ (step > 1 \/ pc = "waiting") => id \in Resources

\* What a wait is for.
Goal ==
  /\ Api = "create" => id # None /\ status[id] = "running"
  /\ Api = "delete" => \A r \in cmd.ids : status[r] = "none"
  /\ Api = "start" /\ (\E r \in Resources : cmd.ids = {r}) => \A r \in cmd.ids : status[r] = "running"
  /\ Api = "move" => cmd.ids \subseteq shown

Targets ==
  /\ id # None => Api = "create"
  /\ Api = "delete" => \A r \in Resources : status[r] # "none" => r \in shown
  /\ pc = "waiting" /\ wait.at = "hit" /\ others = 0 /\ ~cmd.dry => Goal
  /\ others = 0 /\ ~cmd.noWait /\ ~cmd.dry /\ Succeeding /\ Api \in Single /\ ~WaitOwed => Goal

AllRunning == \A r \in cmd.ids : status[r] = "running"

\* The items carried out.
Items ==
  /\ Api = "move" /\ others = 0 /\ Succeeding /\ pc # "reconciling" /\ ~(Before /\ step = 1) => AllRunning
  /\ Api = "assign" /\ others = 0 /\ ~SharedKey /\ cmd.key /\ 0 \in honoured => AllRunning
  /\ Api = "assign" /\ others = 0 /\ ~SharedKey /\ Succeeding /\ step >= 2 /\ ~(step = 2 /\ pc = "ready") =>
       \A r \in cmd.ids :
         \/ status[r] = "running"
         \/ step = 2 /\ pc \in {"item", "call", "backoff"} /\ {r} \in todo
         \/ step = 2 /\ Requesting /\ item = {r}

IInv ==
  TypeOK /\ Place /\ Work /\ Counts /\ Views /\ Keys /\ Creations /\ Targets /\ Items

-----------------------------------------------------------------------------
\* The service.

LEMMA CloudMoves ==
  ASSUME CloudTypeOK, CloudNext
  PROVE  /\ CloudTypeOK' /\ UNCHANGED <<maker, honoured>> /\ shown \subseteq shown'
         /\ others' = 0 =>
              /\ others = 0
              /\ \A r \in Resources : status[r] \in {"running", "none"} => status'[r] = status[r]
         /\ \A r \in Resources : status'[r] # "none" => status[r] # "none"
  <1> PICK r \in Resources : Settle(r) \/ Show(r) \/ Interfere(r)
    BY DEF CloudNext
  <1>1. CASE Settle(r)
    BY <1>1 DEF Settle, CloudTypeOK, Statuses
  <1>2. CASE Show(r)
    BY <1>2 DEF Show, CloudTypeOK
  <1>3. CASE Interfere(r)
    BY <1>3, CloudAssumption DEF Interfere, CloudTypeOK, Statuses
  <1> QED
    BY <1>1, <1>2, <1>3

LEMMA Written ==
  ASSUME CloudTypeOK, NEW api \in Apis, NEW ids \in SUBSET Resources, NEW t \in Tokens, NEW made,
         NEW done \in SUBSET ids, api = "create" => made \in Resources,
         Effect(api, ids, t, made, done)
  PROVE  /\ CloudTypeOK' /\ others' = others
         /\ honoured' = IF t = NoToken THEN honoured ELSE honoured \cup {t}
         /\ t \in honoured \/ api # "create" => maker' = maker
         /\ t \notin honoured /\ api = "create" => maker' = [maker EXCEPT ![made] = t]
         /\ api = "delete" =>
              shown' = shown /\ \A r \in Resources : status'[r] # "none" => r \in ids \/ status[r] # "none"
         /\ t \in honoured => status' = status
         /\ t \notin honoured /\ api = "move" => \A r \in done : status'[r] = "running"
         /\ t \notin honoured /\ api = "assign" =>
              \A r \in Resources : status'[r] = IF r \in ids THEN "running" ELSE status[r]
  <1>1. honoured' \subseteq Nat /\ honoured' = IF t = NoToken THEN honoured ELSE honoured \cup {t}
    BY DEF Effect, CloudTypeOK, Tokens, NoToken
  <1>2. CASE t \in honoured
    BY <1>1, <1>2 DEF Effect, CloudTypeOK
  <1>3. CASE t \notin honoured /\ api = "create"
    BY <1>1, <1>3 DEF Effect, CloudTypeOK, Statuses
  <1>4. CASE t \notin honoured /\ api = "move"
    BY <1>1, <1>4 DEF Effect, CloudTypeOK, Statuses
  <1>5. CASE t \notin honoured /\ api \notin {"create", "move"}
    <2>1. /\ UNCHANGED <<maker, others>> /\ done = ids
          /\ status' = [r \in Resources |-> IF r \notin ids THEN status[r]
                          ELSE [start |-> "pending", assign |-> "running",
                                delete |-> "deleting", update |-> status[r]][api]]
          /\ shown' = IF api = "assign" THEN shown \cup ids ELSE shown
      BY <1>5 DEF Effect
    <2>2. api \in {"start", "assign", "delete", "update"}
      BY <1>5 DEF Apis
    <2>3. \A r \in Resources :
            [start |-> "pending", assign |-> "running", delete |-> "deleting",
             update |-> status[r]][api] \in Statuses
      BY <2>2 DEF CloudTypeOK, Statuses
    <2>4. CloudTypeOK'
      BY <1>1, <2>1, <2>3 DEF CloudTypeOK, Statuses
    <2> QED
      BY <1>1, <1>5, <2>1, <2>2, <2>4 DEF CloudTypeOK
  <1> QED
    BY <1>1, <1>2, <1>3, <1>4, <1>5

-----------------------------------------------------------------------------
\* Commands, and the step a command is at.

LEMMA Command ==
  ASSUME TypeOK
  PROVE  /\ cmd \in [op : Operation, ids : SUBSET Resources, dry : BOOLEAN, noWait : BOOLEAN, key : BOOLEAN]
         /\ Shape(Steps, Writing(cmd.op))
         /\ Len(Steps) \in Nat /\ step \in 1..(Len(Steps) + 1)
         /\ \A k \in 1..Len(Steps) : Steps[k] \in StepRecords
         /\ Api \in Apis
         /\ cmd.dry => Api \notin {"move", "assign"}
         /\ cmd.key => "token" \in Writing(cmd.op).marks /\ Api # "move"
         /\ Api \in Single => \E k \in 1..Len(Steps) : Waits(Steps[k])
         /\ Api \in Single => Steps[1].do = "binding"
         /\ Api = "assign" => Steps[2].do = "binding"
  <1>1. /\ cmd \in [op : Operation, ids : SUBSET Resources, dry : BOOLEAN, noWait : BOOLEAN, key : BOOLEAN]
        /\ cmd.dry => "dry" \in Writing(cmd.op).marks
        /\ cmd.key => "token" \in Writing(cmd.op).marks
        /\ step \in 1..(Len(Steps) + 1)
    BY DEF TypeOK, Commands, Steps
  <1>2. Shape(Steps, Writing(cmd.op))
    BY <1>1, Shapes DEF Steps
  <1>3. /\ Steps \in Seq(StepRecords)
        /\ \E k \in 1..Len(Steps) : Steps[k] = Writing(cmd.op) /\ Writing(cmd.op).do = "binding"
        /\ \A k \in 1..Len(Steps) : Steps[k].do = "binding" => Steps[k].api = Api
    BY <1>2 DEF Shape, Api
  <1>4. Len(Steps) \in Nat /\ \A k \in 1..Len(Steps) : Steps[k] \in StepRecords
    BY <1>3
  <1>5. Api \in Apis
    BY <1>2 DEF Shape, Api
  <1>6. /\ cmd.dry => Api \notin {"move", "assign"}
        /\ cmd.key => Api # "move"
        /\ Api \in Single => \E k \in 1..Len(Steps) : Waits(Steps[k])
    BY <1>1, <1>2 DEF Shape, Api
  <1>7. /\ Api \in Single => Steps[1].do = "binding"
        /\ Api = "assign" => Steps[2].do = "binding"
    BY <1>2 DEF Shape, Api
  <1> QED
    BY <1>1, <1>2, <1>4, <1>5, <1>6, <1>7

LEMMA AtStep ==
  ASSUME TypeOK, ~Finished
  PROVE  /\ step \in 1..Len(Steps) /\ Step \in StepRecords
         /\ Step.do = "wait" => Step.unlessNoWait /\ Step.marks = {}
         /\ Step.do = "binding" =>
              /\ Step.api = Api /\ ~Step.unlessNoWait
              /\ Marked("each") => step = 2 /\ Api = "assign"
              /\ Marked("items") <=> Api = "move"
              /\ Marked("id") <=> Api = "create"
              /\ Marked("retry") => Api \in {"update", "delete"}
              /\ Marked("waits") \/ \E j \in (step + 1)..Len(Steps) : Reads(Steps[j])
         /\ Step.do = "binding" /\ Api \in Single => step = 1 /\ Step = Writing(cmd.op)
         /\ Step.do = "binding" /\ Api = "assign" =>
              step = 2 /\ Step = Writing(cmd.op) /\ Marked("each") /\ Marked("token")
         /\ Waits(Step) =>
              /\ Api # "assign"
              /\ Api = "delete" => Step.w.by = "absent"
              /\ Api = "move" => Step.w.by = "capture"
              /\ Api \in {"create", "start"} => Step.w.by = "status"
         /\ Step.do = "binding" /\ Api = "move" => ~Marked("token")
  <1>1. step \in 1..Len(Steps)
    BY Command DEF Finished
  <1>2. Step \in StepRecords
    BY <1>1, Command DEF Step
  <1>3. Shape(Steps, Writing(cmd.op))
    BY Command
  <1> QED
    BY <1>1, <1>2, <1>3 DEF Shape, Step, Api, Marked, Single, Apis

-----------------------------------------------------------------------------
\* A request that the service carries out.

LEMMA MadeFinite ==
  /\ IsFiniteSet(Made) /\ Cardinality(Made) \in Nat
  /\ IsFiniteSet(Made') /\ Cardinality(Made') \in Nat
  BY CloudAssumption, FS_Subset, FS_CardinalityType DEF Made

LEMMA OneMore ==
  ASSUME TypeOK, NEW made \in Resources, NEW t \in Tokens, maker' = [maker EXCEPT ![made] = t]
  PROVE  Cardinality(Made') <= Cardinality(Made) + 1
  <1>1. Made' = Made \cup {made}
    BY CloudAssumption DEF Made, TypeOK, CloudTypeOK
  <1> QED
    BY <1>1, MadeFinite, FS_AddElement

LEMMA Takes ==
  ASSUME IInv, pc = "call", ~cmd.dry, NEW made \in Makes, NEW done \in SUBSET item, Write(made, done),
         UNCHANGED <<cmd, minted, run>>
  PROVE  /\ CloudTypeOK' /\ others' = others
         /\ effects' \in 0..1 /\ honoured' \subseteq 0..minted
         /\ Api = "create" =>
              /\ made \in Resources
              /\ Cardinality(Made') <= IF cmd.key THEN 1 ELSE run
              /\ cmd.key /\ 0 \notin honoured' => Made' = {}
         /\ Api = "delete" => \A r \in Resources : status'[r] # "none" => r \in shown'
         /\ Api = "move" /\ done = item => \A r \in cmd.ids : status'[r] = "running"
         /\ Api = "assign" /\ others = 0 /\ ~SharedKey =>
              /\ cmd.key /\ 0 \in honoured' => \A r \in cmd.ids : status'[r] = "running"
              /\ \A r \in cmd.ids : status[r] = "running" \/ item = {r} => status'[r] = "running"
  <1>1. TypeOK /\ Place /\ Work /\ Counts /\ Keys /\ Creations /\ Targets /\ Items
    BY DEF IInv
  <1>2. ~Finished /\ Step.do = "binding"
    BY <1>1 DEF Place
  <1>3. /\ CloudTypeOK /\ item \in SUBSET Resources /\ token \in Tokens /\ minted \in Nat /\ run \in Nat
        /\ Step.api = Api /\ Api \in Apis
    BY <1>1, <1>2, AtStep, Command DEF TypeOK
  <1>4. Effect(Api, item, token, made, done) /\ Allowed(Api, item) /\ effects' \in 0..1
    BY <1>1, <1>3 DEF Write, Counts, Requesting
  <1>5. Api = "create" => made \in Resources
    BY <1>3 DEF Makes
  <1>6. /\ CloudTypeOK' /\ others' = others
        /\ honoured' = IF token = NoToken THEN honoured ELSE honoured \cup {token}
        /\ token \in honoured \/ Api # "create" => maker' = maker
        /\ token \notin honoured /\ Api = "create" => maker' = [maker EXCEPT ![made] = token]
        /\ Api = "delete" =>
             shown' = shown /\ \A r \in Resources : status'[r] # "none" => r \in item \/ status[r] # "none"
        /\ token \in honoured => status' = status
        /\ token \notin honoured /\ Api = "move" => \A r \in done : status'[r] = "running"
        /\ token \notin honoured /\ Api = "assign" =>
             \A r \in Resources : status'[r] = IF r \in item THEN "running" ELSE status[r]
    BY <1>3, <1>4, <1>5, Written
  <1>7. /\ Requesting /\ honoured \subseteq 0..minted
        /\ ~Marked("token") => token = NoToken
        /\ Marked("token") /\ cmd.key => token = 0
        /\ Marked("token") /\ ~cmd.key => token = minted /\ minted \notin honoured
    BY <1>1 DEF Keys, Requesting, Marked
  <1>8. honoured' \subseteq 0..minted
    <2>1. token = NoToken \/ token \in 0..minted
      <3>1. token = NoToken \/ token = 0 \/ token = minted
        BY <1>7
      <3> QED
        BY <1>3, <3>1
    <2> QED
      BY <1>6, <1>7, <2>1
  <1>9. ASSUME Api = "create"
        PROVE  /\ Cardinality(Made') <= IF cmd.key THEN 1 ELSE run
               /\ cmd.key /\ 0 \notin honoured' => Made' = {}
    <2>1. /\ step = 1 /\ Before /\ (cmd.key => Marked("token"))
      BY <1>2, <1>7, <1>1, <1>9, AtStep, Command DEF Single, Before, Requesting, Marked
    <2>2. /\ Cardinality(Made) <= IF cmd.key THEN 1 ELSE run
          /\ ~cmd.key => Cardinality(Made) < run
          /\ cmd.key /\ 0 \notin honoured => Made = {}
      BY <1>1, <1>9, <2>1 DEF Creations
    <2>3. CASE token \in honoured
      <3>1. Made' = Made
        BY <1>6, <2>3 DEF Made
      <3> QED
        BY <1>6, <2>2, <2>3, <3>1
    <2>4. CASE token \notin honoured
      <3>1. Cardinality(Made') <= Cardinality(Made) + 1
        BY <1>1, <1>3, <1>5, <1>6, <1>9, <2>4, OneMore
      <3>2. CASE cmd.key
        <4>1. token = 0 /\ Made = {} /\ 0 \in honoured'
          BY <1>6, <1>7, <2>1, <2>2, <2>4, <3>2 DEF NoToken
        <4> QED
          BY <3>1, <3>2, <4>1, MadeFinite, FS_EmptySet
      <3>3. CASE ~cmd.key
        BY <1>3, <2>2, <3>1, <3>3, MadeFinite
      <3> QED
        BY <3>2, <3>3
    <2> QED
      BY <2>3, <2>4
  <1>10. Api = "delete" => \A r \in Resources : status'[r] # "none" => r \in shown'
    BY <1>1, <1>4, <1>6 DEF Targets, Allowed
  <1>11. ASSUME Api = "move", done = item
         PROVE  \A r \in cmd.ids : status'[r] = "running"
    <2>1. token = NoToken /\ item = cmd.ids
      BY <1>1, <1>2, <1>7, <1>11, AtStep DEF Work, Marked
    <2>2. token \notin honoured
      BY <1>3, <1>7, <2>1 DEF NoToken
    <2> QED
      BY <1>6, <1>11, <2>1, <2>2
  <1>12. ASSUME Api = "assign", others = 0, ~SharedKey
         PROVE  /\ cmd.key /\ 0 \in honoured' => \A r \in cmd.ids : status'[r] = "running"
                /\ \A r \in cmd.ids : status[r] = "running" \/ item = {r} => status'[r] = "running"
    <2>1. Marked("each") /\ Marked("token") /\ Step = Writing(cmd.op) /\ item \in Each
      BY <1>1, <1>2, <1>7, <1>12, AtStep DEF Work, Marked
    <2>2. PICK r \in cmd.ids : item = {r}
      BY <2>1 DEF Each
    <2>3. cmd.ids \subseteq Resources
      BY <1>1, Command
    <2>4. CASE token \in honoured
      <3>1. cmd.key /\ token = 0
        BY <1>7, <2>1, <2>4
      <3>2. AllRunning
        BY <1>1, <1>12, <2>4, <3>1 DEF Items
      <3> QED
        BY <1>6, <2>4, <3>2 DEF AllRunning
    <2>5. CASE token \notin honoured
      <3>1. \A s \in Resources : status'[s] = IF s = r THEN "running" ELSE status[s]
        BY <1>6, <1>12, <2>2, <2>5
      <3>2. \A s \in cmd.ids : status[s] = "running" \/ item = {s} => status'[s] = "running"
        BY <2>2, <2>3, <3>1
      <3>3. ASSUME cmd.key PROVE cmd.ids = {r}
        <4>1. ~(Cardinality(cmd.ids) > 1)
          BY <1>12, <2>1, <3>3 DEF SharedKey, Marked
        <4>2. IsFiniteSet(cmd.ids) /\ Cardinality(cmd.ids) \in Nat
          BY <2>3, CloudAssumption, FS_Subset, FS_CardinalityType
        <4>3. Cardinality(cmd.ids) # 0
          BY <4>2, <2>2, FS_EmptySet
        <4>4. Cardinality(cmd.ids) = 1
          BY <4>1, <4>2, <4>3
        <4> QED
          BY <4>2, <4>4, <2>2, FS_Singleton
      <3> QED
        BY <2>3, <3>1, <3>2, <3>3
    <2> QED
      BY <2>4, <2>5
  <1> QED
    BY <1>4, <1>5, <1>6, <1>8, <1>9, <1>10, <1>11, <1>12

-----------------------------------------------------------------------------
\* The ends of a command.

LEMMA ApiStays ==
  ASSUME UNCHANGED cmd
  PROVE  Api' = Api /\ Steps' = Steps /\ SharedKey' = SharedKey
  BY DEF Api, Steps, SharedKey

LEMMA IdleWait ==
  Idle \in [at : {"idle", "probe", "sleep"} \cup Ends, w : Waiters, ids : SUBSET Resources,
           n : 0..MaxAttempts]
  BY WaitersKnown, WaiterAssumption DEF Idle

Failures ==
  {"unprepared", "refused", "unknown", "retryTimeout", "invalid", "noID", "notFound", "failure",
   "timeout", "error"}

LEMMA Fails ==
  ASSUME IInv, pc' = "done", outcome' \in Failures,
         UNCHANGED <<cmd, step, todo, item, token, id, dryRun, cache, run, minted, view>>,
         wait' = Idle \/ wait' = wait, late' \in 0..2,
         CloudTypeOK', effects' \in 0..1, honoured' \subseteq 0..minted,
         writes' = writes \/ (writes' = writes + 1 /\ ~cmd.dry /\ cache.probe = "none"),
         lost' \in BOOLEAN, listed' = IF outcome' \in Bare THEN 0 ELSE writes',
         Api = "create" =>
           /\ Cardinality(Made') <= IF cmd.key THEN 1 ELSE run
           /\ cmd.key /\ 0 \notin honoured' => Made' = {},
         Api = "delete" => \A r \in Resources : status'[r] # "none" => r \in shown',
         Api = "assign" /\ others' = 0 /\ ~SharedKey /\ cmd.key /\ 0 \in honoured' => AllRunning'
  PROVE  IInv'
  <1>1. TypeOK /\ Place /\ Work /\ Counts /\ Views /\ Keys /\ Creations /\ Targets /\ Items
    BY DEF IInv
  <1>2. Api' = Api /\ Steps' = Steps /\ SharedKey' = SharedKey
    BY ApiStays
  <1>3. writes \in Nat /\ writes' \in Nat
    BY <1>1 DEF TypeOK
  <1>4. WaiterTypeOK'
    BY <1>1, IdleWait DEF TypeOK, WaiterTypeOK
  <1>5. outcome' \in {"unprepared", "refused", "unknown", "retryTimeout", "invalid", "noID", "notFound"}
                       \cup (Ends \ {"hit"})
    BY DEF Failures, Ends
  <1>6. cache.at \in 0..writes' /\ view \in -1..writes'
    BY <1>1, <1>3 DEF TypeOK
  <1>7. TypeOK'
    BY <1>1, <1>2, <1>3, <1>4, <1>5, <1>6 DEF TypeOK, Steps
  <1>8. Place'
    BY <1>1 DEF Place, Idle, Failures
  <1>9. Work'
    BY <1>1, <1>2 DEF Work, Requesting, Each, Finished, Step
  <1>10. Counts'
    BY <1>1, <1>3 DEF Counts, Requesting, Before
  <1>11. Views'
    BY <1>1 DEF Views, Succeeding, Failures
  <1>12. Keys'
    BY <1>1 DEF Keys, Requesting
  <1>13. Creations'
    BY <1>2 DEF Creations, Before, Succeeding, Failures
  <1>14. Targets'
    BY <1>1, <1>2 DEF Targets, Succeeding, Failures
  <1>15. Items'
    BY <1>2 DEF Items, Succeeding, Failures
  <1> QED
    BY <1>7, <1>8, <1>9, <1>10, <1>11, <1>12, <1>13, <1>14, <1>15 DEF IInv

LEMMA FailsQuietly ==
  ASSUME IInv, pc' = "done", outcome' \in Failures, LeaveScope,
         UNCHANGED <<cmd, execVars, run, minted, view, effects, writes, cloudVars>>,
         wait' = Idle \/ wait' = wait,
         lost' \in BOOLEAN, listed' = IF outcome' \in Bare THEN 0 ELSE writes
  PROVE  IInv'
  <1>1. TypeOK /\ Counts /\ Keys /\ Creations /\ Targets /\ Items
    BY DEF IInv
  <1>2. /\ CloudTypeOK' /\ effects' \in 0..1 /\ honoured' \subseteq 0..minted
        /\ late' \in 0..2
    BY <1>1 DEF TypeOK, CloudTypeOK, WaiterTypeOK, Counts, Keys, cloudVars, LeaveScope
  <1>3. Made' = Made /\ UNCHANGED <<status, shown, honoured, others>>
    BY DEF Made, cloudVars
  <1>4. AllRunning' = AllRunning
    BY <1>3 DEF AllRunning
  <1>5. Api = "create" =>
          /\ Cardinality(Made') <= IF cmd.key THEN 1 ELSE run
          /\ cmd.key /\ 0 \notin honoured' => Made' = {}
    BY <1>1, <1>3 DEF Creations
  <1>6. Api = "delete" => \A r \in Resources : status'[r] # "none" => r \in shown'
    BY <1>1, <1>3 DEF Targets
  <1>7. Api = "assign" /\ others' = 0 /\ ~SharedKey /\ cmd.key /\ 0 \in honoured' => AllRunning'
    BY <1>1, <1>3, <1>4 DEF Items
  <1> QED
    BY <1>2, <1>5, <1>6, <1>7, Fails DEF execVars

LEMMA FailsAfterWrite ==
  ASSUME IInv, pc = "call", ~cmd.dry, NEW made \in Makes, NEW done \in SUBSET item, Write(made, done),
         pc' = "done", outcome' \in Failures, LeaveScope,
         UNCHANGED <<cmd, execVars, run, minted, view>>,
         wait' = Idle \/ wait' = wait, writes' = writes + 1,
         lost' \in BOOLEAN, listed' = IF outcome' \in Bare THEN 0 ELSE writes'
  PROVE  IInv'
  <1>1. TypeOK /\ Views
    BY DEF IInv
  <1>2. /\ CloudTypeOK' /\ effects' \in 0..1 /\ honoured' \subseteq 0..minted
        /\ Api = "create" =>
             /\ Cardinality(Made') <= IF cmd.key THEN 1 ELSE run
             /\ cmd.key /\ 0 \notin honoured' => Made' = {}
        /\ Api = "delete" => \A r \in Resources : status'[r] # "none" => r \in shown'
        /\ others' = others
        /\ Api = "assign" /\ others = 0 /\ ~SharedKey =>
             (cmd.key /\ 0 \in honoured' => \A r \in cmd.ids : status'[r] = "running")
    BY Takes
  <1>3. cache.probe = "none" /\ late' \in 0..2
    BY <1>1 DEF Views, TypeOK, WaiterTypeOK, LeaveScope
  <1>4. Api = "assign" /\ others' = 0 /\ ~SharedKey /\ cmd.key /\ 0 \in honoured' => AllRunning'
    BY <1>2 DEF AllRunning
  <1> QED
    BY <1>2, <1>3, <1>4, Fails DEF execVars

LEMMA StillRuns ==
  ASSUME IInv, pc # "done"
  PROVE  outcome = "running" /\ listed = writes /\ listed \in 0..writes /\ lost \in BOOLEAN /\ writes \in Nat
  BY DEF IInv, Place, Counts, TypeOK, Bare

LEMMA BareEndKeeps ==
  ASSUME IInv, pc # "done", EndBare("unprepared"), UNCHANGED <<effects, writes, cloudVars>>
  PROVE  IInv'
  <1>1. lost' \in BOOLEAN
    BY StillRuns DEF EndBare
  <1> QED
    BY <1>1, FailsQuietly DEF EndBare, Failures, Bare

LEMMA StepUnresolvedKeeps == ASSUME IInv, StepUnresolved PROVE IInv'
  BY BareEndKeeps DEF StepUnresolved

LEMMA PrepareFailsKeeps == ASSUME IInv, PrepareFails PROVE IInv'
  BY BareEndKeeps DEF PrepareFails

LEMMA EndsKeep ==
  ASSUME IInv, pc # "done", NEW why \in Failures \ Bare, EndWith(why),
         UNCHANGED <<effects, writes, listed, lost, cloudVars>>
  PROVE  IInv'
  BY StillRuns, FailsQuietly DEF EndWith, Bare

LEMMA RefusedKeeps == ASSUME IInv, Refused PROVE IInv'
  BY EndsKeep DEF Bare, Refused, Calling, Failures

LEMMA RetryTimeoutKeeps == ASSUME IInv, RetryTimeout PROVE IInv'
  BY EndsKeep DEF Bare, RetryTimeout, Failures

LEMMA WaitFailedKeeps == ASSUME IInv, WaitFailed PROVE IInv'
  BY EndsKeep DEF Bare, WaitFailed, Failures, Ends

LEMMA ReconciledKeeps == ASSUME IInv, Reconciled PROVE IInv'
  BY EndsKeep DEF Bare, Reconciled, Failures

LEMMA ProbeStepFailsKeeps == ASSUME IInv, ProbeStepFails PROVE IInv'
  <1>1. \E why \in {"notFound", "error"} : EndWith(why)
    BY DEF ProbeStepFails
  <1> QED
    BY <1>1, EndsKeep DEF Bare, ProbeStepFails, Running, Failures

LEMMA AcceptedWithoutIDKeeps == ASSUME IInv, AcceptedWithoutID PROVE IInv'
  <1>1. PICK made \in Makes : Write(made, item)
    BY DEF AcceptedWithoutID
  <1>2. pc = "call" /\ ~cmd.dry /\ writes' = writes + 1 /\ EndBare("noID")
    BY DEF AcceptedWithoutID, Calling
  <1>3. writes \in Nat /\ lost' \in BOOLEAN
    BY <1>2, StillRuns DEF EndBare
  <1> QED
    BY <1>1, <1>2, <1>3, FailsAfterWrite DEF EndBare, Failures, Bare

LEMMA AnswerLostKeeps == ASSUME IInv, AnswerLost PROVE IInv'
  <1>1. pc = "call" /\ EndWith("unknown") /\ lost' = lost /\ "unknown" \in Failures
    BY DEF AnswerLost, Failures
  <1>2. CASE UNCHANGED <<effects, writes, listed, cloudVars>>
    BY <1>1, <1>2, EndsKeep DEF Bare
  <1>3. CASE /\ ~cmd.dry
             /\ \E made \in Makes, done \in (IF Marked("items") THEN SUBSET item ELSE {item}) :
                  Write(made, done)
             /\ writes' = writes + 1 /\ listed' = listed + 1
    <2>1. PICK made \in Makes, done \in SUBSET item : Write(made, done)
      BY <1>3
    <2>2. writes \in Nat /\ listed' = writes' /\ listed' \in 0..writes' /\ lost' \in BOOLEAN
      BY <1>1, <1>3, StillRuns
    <2> QED
      BY <1>1, <1>3, <2>1, <2>2, FailsAfterWrite DEF Bare, EndWith
  <1> QED
    BY <1>2, <1>3 DEF AnswerLost

-----------------------------------------------------------------------------
\* Requests that the service answers.

LEMMA Waited ==
  ASSUME TypeOK, ~Finished, NEW ids \in SUBSET Resources, StartWait(Step.w, ids)
  PROVE  /\ wait' \in [at : {"idle", "probe", "sleep"} \cup Ends, w : Waiters, ids : SUBSET Resources,
                       n : 0..MaxAttempts]
         /\ wait'.at = "probe" /\ wait'.w = Step.w /\ wait'.ids = ids
  BY AtStep, WaiterAssumption DEF StartWait, StepRecords

LEMMA BatchInvalidKeeps == ASSUME IInv, BatchInvalid PROVE IInv'
  <1>1. TypeOK /\ Place /\ Work /\ Counts /\ Views /\ Keys /\ Creations /\ Targets /\ Items
    BY DEF IInv
  <1>2. PICK done \in SUBSET item, told \in SUBSET item :
          /\ Write(None, done) /\ (done # item \/ told # item)
          /\ writes' = writes + 1 /\ listed' = listed + 1
          /\ IF done \cap told # {} /\ Marked("waits") /\ ~cmd.noWait
             THEN /\ Wait("reconciling", done \cap told)
                  /\ UNCHANGED <<cmd, execVars, outcome, run, minted, view, late>>
             ELSE EndWith("invalid")
    BY DEF BatchInvalid
  <1>3. pc = "call" /\ Marked("items") /\ lost' = lost
    BY DEF BatchInvalid, Calling
  <1>4. ~Finished /\ Step.do = "binding"
    BY <1>1, <1>3 DEF Place
  <1>5. Api = "move" /\ ~Marked("each") /\ ~cmd.dry /\ ~Marked("token") /\ ~Marked("id") /\ Step.api = Api
    BY <1>1, <1>3, <1>4, AtStep, Command DEF Single
  <1>6. None \in Makes
    BY <1>5 DEF Makes
  <1>7. /\ writes \in Nat /\ listed' = writes' /\ listed' \in 0..writes' /\ lost' \in BOOLEAN
        /\ outcome = "running"
    BY <1>2, <1>3, StillRuns
  <1>8. CASE EndWith("invalid")
    BY <1>2, <1>3, <1>5, <1>6, <1>7, <1>8, FailsAfterWrite DEF Bare, EndWith, Failures
  <1>9. CASE /\ Marked("waits") /\ ~cmd.noWait
             /\ Wait("reconciling", done \cap told)
             /\ UNCHANGED <<cmd, execVars, outcome, run, minted, view, late>>
    <2>1. Api' = Api /\ Steps' = Steps /\ SharedKey' = SharedKey
      BY <1>9, ApiStays
    <2>2. /\ pc' = "reconciling" /\ StartWait(Step.w, done \cap told)
          /\ UNCHANGED <<cmd, step, todo, item, token, id, dryRun, cache, outcome, run, minted, view, late>>
      BY <1>9 DEF Wait, execVars
    <2>3. /\ CloudTypeOK' /\ others' = others /\ effects' \in 0..1 /\ honoured' \subseteq 0..minted
      BY <1>2, <1>3, <1>5, <1>6, <1>9, Takes
    <2>4. done \cap told \in SUBSET Resources
      BY <1>1 DEF TypeOK
    <2>5. /\ wait' \in [at : {"idle", "probe", "sleep"} \cup Ends, w : Waiters, ids : SUBSET Resources,
                        n : 0..MaxAttempts]
          /\ wait'.at = "probe"
      BY <1>1, <1>4, <2>2, <2>4, Waited
    <2>6. cache.at \in 0..writes' /\ view \in -1..writes' /\ cache.probe = "none"
      BY <1>1, <1>2, <1>3, <1>7 DEF TypeOK, Views
    <2>7. Waits(Step) /\ step \in 1..Len(Steps)
      BY <1>1, <1>4, <1>9, AtStep DEF Waits, Marked
    <2>8. WaitOwed' /\ ReadOwed'
      BY <2>1, <2>2, <2>7, Command, <1>1 DEF WaitOwed, ReadOwed, Reads, Step
    <2>9. TypeOK'
      BY <1>1, <1>2, <1>7, <2>1, <2>2, <2>3, <2>5, <2>6 DEF TypeOK, WaiterTypeOK, Steps
    <2>10. Place'
      BY <1>1, <1>4, <2>1, <2>2, <2>5, <1>7 DEF Place, Finished, Step
    <2>11. Work'
      BY <1>1, <1>3, <1>5, <2>1, <2>2 DEF Work, Requesting, Each, Finished, Step, Marked
    <2>12. Counts'
      BY <1>1, <1>5, <1>7, <2>2, <2>3 DEF Bare, Counts, Requesting, Before
    <2>13. Views'
      BY <2>2, <2>6, <2>8 DEF Views
    <2>14. Keys'
      BY <2>2, <2>3 DEF Keys, Requesting
    <2>15. Creations'
      BY <1>5, <2>1 DEF Creations
    <2>16. Targets'
      BY <1>1, <1>5, <2>1, <2>2, <2>8 DEF Targets, Single
    <2>17. Items'
      BY <1>5, <2>1, <2>2 DEF Items
    <2> QED
      BY <2>9, <2>10, <2>11, <2>12, <2>13, <2>14, <2>15, <2>16, <2>17 DEF IInv
  <1> QED
    BY <1>2, <1>8, <1>9

LEMMA AcceptedKeeps == ASSUME IInv, Accepted PROVE IInv'
  <1>1. TypeOK /\ Place /\ Work /\ Counts /\ Views /\ Keys /\ Creations /\ Targets /\ Items
    BY DEF IInv
  <1>2. PICK made \in Makes : Write(made, item) /\ id' = IF Marked("id") THEN made ELSE id
    BY DEF Accepted
  <1>3. /\ pc = "call" /\ ~cmd.dry /\ writes' = writes + 1 /\ listed' = listed + 1
        /\ UNCHANGED <<cmd, todo, item, token, dryRun, cache, outcome, run, minted, view, lost>>
    BY DEF Accepted, Calling
  <1>4. /\ ~Finished /\ Step.do = "binding" /\ step \in 1..Len(Steps) /\ Step = Steps[step]
        /\ Len(Steps) \in Nat /\ Step.api = Api /\ (Marked("id") <=> Api = "create")
    BY <1>1, <1>3, AtStep, Command DEF Place, Step
  <1>5. /\ CloudTypeOK' /\ others' = others /\ effects' \in 0..1 /\ honoured' \subseteq 0..minted
        /\ Api = "create" =>
             /\ made \in Resources
             /\ Cardinality(Made') <= IF cmd.key THEN 1 ELSE run
             /\ cmd.key /\ 0 \notin honoured' => Made' = {}
        /\ Api = "delete" => \A r \in Resources : status'[r] # "none" => r \in shown'
        /\ Api = "move" => \A r \in cmd.ids : status'[r] = "running"
        /\ Api = "assign" /\ others = 0 /\ ~SharedKey =>
             /\ cmd.key /\ 0 \in honoured' => \A r \in cmd.ids : status'[r] = "running"
             /\ \A r \in cmd.ids : status[r] = "running" \/ item = {r} => status'[r] = "running"
    BY <1>2, <1>3, Takes
  <1>6. /\ writes \in Nat /\ listed' = writes' /\ listed' \in 0..writes' /\ lost' \in BOOLEAN
        /\ outcome = "running"
    BY <1>3, StillRuns
  <1>7. cache.at \in 0..writes' /\ view \in -1..writes' /\ cache.probe = "none"
    BY <1>1, <1>3, <1>6 DEF TypeOK, Views
  <1>8. Api' = Api /\ Steps' = Steps /\ SharedKey' = SharedKey
    BY <1>3, ApiStays
  <1>9. id' \in Resources \cup {None} /\ (id' # None => Api = "create") /\ (Api = "create" => id' \in Resources)
    BY <1>1, <1>2, <1>4, <1>5 DEF TypeOK, Targets
  <1>10. CASE /\ Marked("waits") /\ ~cmd.noWait
              /\ Wait("waiting", IF id' # None THEN {id'} ELSE cmd.ids) /\ UNCHANGED <<step, late>>
    <2>1. pc' = "waiting" /\ StartWait(Step.w, CurrentIDs') /\ CurrentIDs' \in SUBSET Resources
      BY <1>1, <1>3, <1>9, <1>10, Command DEF Wait, CurrentIDs
    <2>2. /\ wait' \in [at : {"idle", "probe", "sleep"} \cup Ends, w : Waiters, ids : SUBSET Resources,
                        n : 0..MaxAttempts]
          /\ wait'.at = "probe" /\ wait'.w = Step.w /\ wait'.ids = CurrentIDs'
      BY <1>1, <1>4, <2>1, Waited
    <2>3. Waits(Step)
      BY <1>4, <1>10 DEF Waits, Marked
    <2>4. WaitOwed' /\ ReadOwed'
      BY <1>4, <1>8, <1>10, <2>3 DEF WaitOwed, ReadOwed, Reads
    <2>5. ~Marked("each")
      BY <1>1, <1>4, <2>3, AtStep
    <2>6. TypeOK'
      BY <1>1, <1>3, <1>5, <1>6, <1>7, <1>8, <1>9, <1>10, <2>1, <2>2 DEF TypeOK, WaiterTypeOK, Steps
    <2>7. Place'
      BY <1>4, <1>3, <1>6, <1>8, <1>10, <2>1, <2>2, <2>3 DEF Place, Finished, Step
    <2>8. Work'
      BY <1>1, <1>3, <1>4, <1>8, <1>10, <2>1, <2>5 DEF Work, Requesting, Finished, Step, Marked
    <2>9. Counts'
      BY <1>1, <1>3, <1>5, <1>6, <2>1 DEF Bare, Counts, Requesting, Before
    <2>10. Views'
      BY <1>3, <1>7, <2>1, <2>4 DEF Views
    <2>11. Keys'
      BY <1>3, <1>5, <2>1 DEF Keys, Requesting
    <2>12. Creations'
      BY <1>3, <1>5, <1>8, <1>9, <2>1 DEF Creations, Before
    <2>13. Targets'
      BY <1>5, <1>8, <1>9, <2>2, <2>4 DEF Targets
    <2>14. Items'
      BY <1>1, <1>3, <1>4, <1>5, <1>8, <2>1, <2>3, AtStep DEF Items, AllRunning
    <2> QED
      BY <2>6, <2>7, <2>8, <2>9, <2>10, <2>11, <2>12, <2>13, <2>14 DEF IInv
  <1>11. CASE /\ ~(Marked("waits") /\ ~cmd.noWait)
              /\ FinishRequest /\ LeaveScope /\ UNCHANGED wait
    <2>1. /\ todo = {} => pc' = "ready" /\ step' = step + 1
          /\ todo # {} => pc' = "item" /\ step' = step
          /\ late' \in 0..2
      BY <1>1, <1>11 DEF FinishRequest, LeaveScope, TypeOK, WaiterTypeOK
    <2>2. ~Marked("each") => todo = {}
      BY <1>1, <1>3, <1>4 DEF Work, Marked
    <2>3. step' \in 1..(Len(Steps) + 1) /\ step' >= step /\ step' # 1
      BY <1>1, <1>4, <2>1, <2>2, AtStep
    <2>4. cmd.noWait \/ ReadOwed'
      <3>1. SUFFICES ASSUME ~cmd.noWait PROVE ReadOwed'
        OBVIOUS
      <3>2. PICK j \in (step + 1)..Len(Steps) : Reads(Steps[j])
        BY <1>1, <1>4, <1>11, <3>1, AtStep
      <3> QED
        BY <1>4, <1>8, <2>1, <2>3, <3>2 DEF ReadOwed
    <2>5. cmd.noWait \/ Api \notin Single \/ WaitOwed'
      <3>1. SUFFICES ASSUME ~cmd.noWait, Api \in Single PROVE WaitOwed'
        OBVIOUS
      <3>2. PICK k \in 1..Len(Steps) : Waits(Steps[k])
        BY <1>1, <3>1, Command
      <3>3. step = 1 /\ ~Waits(Step)
        BY <1>1, <1>4, <1>11, <3>1, AtStep DEF Waits, Marked
      <3>4. k # 1 /\ ~Marked("each")
        BY <1>1, <1>4, <3>1, <3>2, <3>3, AtStep DEF Single
      <3>5. step' = 2
        BY <2>1, <2>2, <3>3, <3>4
      <3> QED
        BY <1>4, <1>8, <3>2, <3>4, <3>5 DEF WaitOwed
    <2>6. TypeOK'
      BY <1>1, <1>3, <1>5, <1>6, <1>7, <1>8, <1>9, <1>11, <2>1, <2>3 DEF TypeOK, WaiterTypeOK, Steps
    <2>7. Place'
      BY <1>1, <1>3, <1>4, <1>6, <1>8, <1>11, <2>1 DEF Place, Finished, Step
    <2>8. Work'
      BY <1>1, <1>3, <1>4, <1>8, <2>1, <2>2 DEF Work, Requesting, Finished, Step, Marked, Each
    <2>9. Counts'
      BY <1>1, <1>3, <1>5, <1>6, <2>1, <2>3 DEF Bare, Counts, Requesting, Before
    <2>10. Views'
      BY <1>3, <1>7, <2>1, <2>4 DEF Views
    <2>11. Keys'
      BY <1>3, <1>5, <2>1 DEF Keys, Requesting
    <2>12. Creations'
      BY <1>3, <1>5, <1>8, <1>9, <2>1, <2>3 DEF Creations, Before
    <2>13. Targets'
      BY <1>3, <1>5, <1>8, <1>9, <2>1, <2>5 DEF Targets
    <2>14. Items'
      <3>1. Api = "move" /\ others' = 0 => AllRunning'
        BY <1>3, <1>5 DEF AllRunning
      <3>2. Api = "assign" /\ others' = 0 /\ ~SharedKey /\ cmd.key /\ 0 \in honoured' => AllRunning'
        BY <1>3, <1>5 DEF AllRunning
      <3>3. ASSUME Api = "assign", others' = 0, ~SharedKey, NEW r \in cmd.ids
            PROVE  \/ status'[r] = "running"
                   \/ step' = 2 /\ pc' \in {"item", "call", "backoff"} /\ {r} \in todo'
        <4>1. step = 2
          BY <1>1, <1>4, <3>3, AtStep
        <4>2. \/ status[r] = "running" \/ {r} \in todo \/ item = {r}
          BY <1>1, <1>3, <1>5, <1>6, <3>3, <4>1 DEF Items, Succeeding
        <4> QED
          BY <1>3, <1>5, <2>1, <3>3, <4>1, <4>2
      <3> QED
        BY <1>3, <1>8, <3>1, <3>2, <3>3 DEF Items
    <2> QED
      BY <2>6, <2>7, <2>8, <2>9, <2>10, <2>11, <2>12, <2>13, <2>14 DEF IInv
  <1> QED
    BY <1>10, <1>11 DEF Accepted

-----------------------------------------------------------------------------
\* Steps that are done.

LEMMA Advances ==
  ASSUME IInv, ~Finished, todo = {}, pc' = "ready", step' = step + 1,
         pc = "waiting" \/ (pc = "ready" /\ Step.do # "binding"),
         UNCHANGED <<cmd, todo, item, token, id, dryRun, outcome, countVars, listed, lost, cloudVars>>,
         wait' = Idle \/ wait' = wait, late' \in 0..2,
         cache'.probe \in {"none", "attribute", "state", "list"},
         cache'.ids \subseteq Resources, cache'.at \in 0..writes,
         cache'.probe # "none" => cache'.at = writes,
         view' \in {view, writes}, cmd.noWait \/ cmd.dry \/ view' = writes \/ ~Reads(Step),
         others = 0 /\ ~cmd.noWait /\ ~cmd.dry /\ Waits(Step) /\ Api \in Single => Goal
  PROVE  IInv'
  <1>1. TypeOK /\ Place /\ Work /\ Counts /\ Views /\ Keys /\ Creations /\ Targets /\ Items
    BY DEF IInv
  <1>2. Api' = Api /\ Steps' = Steps /\ SharedKey' = SharedKey
    BY ApiStays
  <1>3. /\ step \in 1..Len(Steps) /\ Step = Steps[step] /\ Len(Steps) \in Nat
        /\ step' \in 1..(Len(Steps) + 1) /\ step' # 1
    BY <1>1, AtStep, Command DEF Step
  <1>4. outcome = "running" /\ writes \in Nat
    BY StillRuns
  <1>5. /\ UNCHANGED <<run, minted, effects, writes, status, shown, maker, honoured, others>>
        /\ Made' = Made
    BY DEF countVars, cloudVars, Made
  <1>6. pc = "ready" /\ Api \in Single => step > 1
    BY <1>1, <1>3, Command
  <1>7. Api = "assign" => pc = "ready" /\ step # 2
    BY <1>1, <1>3, AtStep, Command DEF Place
  <1>8. TypeOK'
    <2>1. WaiterTypeOK'
      BY <1>1, IdleWait DEF TypeOK, WaiterTypeOK
    <2>2. CloudTypeOK'
      BY <1>1, <1>5 DEF TypeOK, CloudTypeOK
    <2>3. view' \in -1..writes
      BY <1>1, <1>4 DEF TypeOK
    <2> QED
      BY <1>1, <1>2, <1>3, <1>5, <2>1, <2>2, <2>3 DEF TypeOK, Steps
  <1>9. Place'
    BY <1>1, <1>4 DEF Place, Idle
  <1>10. Work'
    BY <1>2 DEF Work, Requesting
  <1>11. Counts'
    BY <1>1, <1>3, <1>5 DEF Counts, Requesting, Before
  <1>12. Views'
    <2>1. cmd.dry => view' \in {-1, writes}
      BY <1>1, <1>4 DEF Counts, TypeOK
    <2>2. cmd.noWait \/ view \in {-1, writes} \/ ReadOwed
      BY <1>1, <1>4 DEF Views, Succeeding
    <2>3. ReadOwed /\ ~Reads(Step) => ReadOwed'
      BY <1>2, <1>3 DEF ReadOwed
    <2> QED
      BY <1>5, <2>1, <2>2, <2>3 DEF Views
  <1>13. Keys'
    BY <1>1, <1>5 DEF Keys, Requesting
  <1>14. Creations'
    <2>1. Api = "create" /\ ~cmd.dry => id \in Resources
      BY <1>1, <1>3, <1>4, <1>6 DEF Creations, Succeeding, Single
    <2> QED
      BY <1>1, <1>2, <1>3, <1>5, <2>1 DEF Creations
  <1>15. Targets'
    <2>1. Goal' <=> Goal
      BY <1>2, <1>5 DEF Goal
    <2>2. WaitOwed /\ ~Waits(Step) => WaitOwed'
      BY <1>2, <1>3 DEF WaitOwed
    <2>3. others = 0 /\ ~cmd.noWait /\ ~cmd.dry /\ Api \in Single /\ ~WaitOwed' => Goal
      BY <1>1, <1>4, <2>2 DEF Targets, Succeeding
    <2> QED
      BY <1>1, <1>2, <1>5, <2>1, <2>3 DEF Targets
  <1>16. Items'
    <2>1. AllRunning' <=> AllRunning
      BY <1>5 DEF AllRunning
    <2>2. Api = "move" /\ others = 0 => AllRunning
      BY <1>1, <1>4, <1>6 DEF Items, Succeeding, Before, Single
    <2>3. Api = "assign" /\ others = 0 /\ ~SharedKey /\ ~(step' = 2) => AllRunning
      BY <1>1, <1>3, <1>4, <1>7 DEF Items, Succeeding, AllRunning, Requesting
    <2>4. Api = "assign" /\ others = 0 /\ ~SharedKey /\ cmd.key /\ 0 \in honoured => AllRunning
      BY <1>1 DEF Items
    <2> QED
      BY <1>2, <1>3, <1>5, <2>1, <2>2, <2>3, <2>4 DEF Items, AllRunning
  <1> QED
    BY <1>8, <1>9, <1>10, <1>11, <1>12, <1>13, <1>14, <1>15, <1>16 DEF IInv

LEMMA SkipStepKeeps == ASSUME IInv, SkipStep PROVE IInv'
  <1>1. TypeOK /\ Work /\ Counts /\ Views
    BY DEF IInv
  <1>2. /\ pc = "ready" /\ ~Finished /\ step' = step + 1 /\ todo = {}
        /\ UNCHANGED <<cmd, pc, todo, item, token, id, dryRun, cache, outcome, countVars, reportVars,
                       waiterVars, cloudVars>>
        /\ (Step.unlessNoWait /\ cmd.noWait) \/ (Step.do # "binding" /\ cmd.dry)
    BY <1>1 DEF SkipStep, Work, Counts
  <1>3. Step.do # "binding" /\ (cmd.noWait \/ cmd.dry)
    BY <1>1, <1>2, AtStep
  <1>4. UNCHANGED <<wait, late, cache, view, listed, lost>> /\ late' \in 0..2
    BY <1>1, <1>2 DEF waiterVars, reportVars, TypeOK, WaiterTypeOK
  <1>5. /\ cache.probe \in {"none", "attribute", "state", "list"} /\ cache.ids \subseteq Resources
        /\ cache.at \in 0..writes /\ (cache.probe # "none" => cache.at = writes)
    BY <1>1 DEF TypeOK, Views
  <1> QED
    BY <1>2, <1>3, <1>4, <1>5, Advances

LEMMA EmitStepKeeps == ASSUME IInv, EmitStep PROVE IInv'
  <1>1. TypeOK /\ Work /\ Views
    BY DEF IInv
  <1>2. /\ pc = "ready" /\ ~Finished /\ step' = step + 1 /\ todo = {} /\ Step.do = "emit"
        /\ UNCHANGED <<cmd, pc, todo, item, token, id, dryRun, cache, outcome, countVars, reportVars,
                       waiterVars, cloudVars>>
    BY <1>1 DEF EmitStep, Running, Work
  <1>3. ~Reads(Step) /\ ~Waits(Step)
    BY <1>2 DEF Reads, Waits
  <1>4. UNCHANGED <<wait, late, cache, view, listed, lost>> /\ late' \in 0..2
    BY <1>1, <1>2 DEF waiterVars, reportVars, TypeOK, WaiterTypeOK
  <1>5. /\ cache.probe \in {"none", "attribute", "state", "list"} /\ cache.ids \subseteq Resources
        /\ cache.at \in 0..writes /\ (cache.probe # "none" => cache.at = writes)
    BY <1>1 DEF TypeOK, Views
  <1> QED
    BY <1>2, <1>3, <1>4, <1>5, Advances

LEMMA ProbeStepKeeps == ASSUME IInv, ProbeStep PROVE IInv'
  <1>1. TypeOK /\ Work /\ Views
    BY DEF IInv
  <1>2. /\ pc = "ready" /\ ~Finished /\ step' = step + 1 /\ todo = {} /\ Step.do = "probe"
        /\ UNCHANGED <<cmd, pc, todo, item, token, id, dryRun, outcome, countVars, listed, lost,
                       waiterVars, cloudVars>>
        /\ view' = IF cache.probe = Step.w.probe /\ cache.ids = CurrentIDs THEN cache.at ELSE writes
        /\ cache' = [probe |-> Step.w.probe, ids |-> CurrentIDs, at |-> view']
    BY <1>1 DEF ProbeStep, Running, Work
  <1>3. Step.w.probe \in {"attribute", "state", "list"}
    BY <1>1, <1>2, AtStep DEF StepRecords, Waiters
  <1>4. CurrentIDs \subseteq Resources /\ writes \in Nat
    BY <1>1, Command DEF TypeOK, CurrentIDs
  <1>5. view' = writes
    BY <1>1, <1>2, <1>3 DEF Views
  <1>6. UNCHANGED <<wait, late>> /\ late' \in 0..2 /\ ~Waits(Step)
    BY <1>1, <1>2 DEF waiterVars, TypeOK, WaiterTypeOK, Waits
  <1>7. cache' = [probe |-> Step.w.probe, ids |-> CurrentIDs, at |-> writes] /\ writes \in 0..writes
    BY <1>2, <1>4, <1>5
  <1>8. /\ cache'.probe \in {"none", "attribute", "state", "list"} /\ cache'.ids \subseteq Resources
        /\ cache'.at \in 0..writes /\ cache'.at = writes
    BY <1>3, <1>4, <1>7
  <1> QED
    BY <1>2, <1>5, <1>6, <1>8, Advances

LEMMA WaitHitKeeps == ASSUME IInv, WaitHit PROVE IInv'
  <1>1. TypeOK /\ Place /\ Work /\ Targets
    BY DEF IInv
  <1>2. /\ pc = "waiting" /\ wait.at = "hit" /\ FinishRequest /\ wait' = Idle /\ LeaveScope
        /\ UNCHANGED <<cmd, todo, item, token, id, dryRun, outcome, countVars, listed, lost, cloudVars>>
        /\ cache' = [probe |-> wait.w.probe, ids |-> wait.ids, at |-> writes] /\ view' = writes
    BY DEF WaitHit
  <1>3. ~Finished /\ Waits(Step)
    BY <1>1, <1>2 DEF Place
  <1>4. ~Marked("each")
    BY <1>1, <1>3, AtStep DEF Waits, Marked
  <1>5. todo = {}
    BY <1>1, <1>2, <1>3, <1>4 DEF Work, Marked
  <1>6. pc' = "ready" /\ step' = step + 1
    BY <1>2, <1>5 DEF FinishRequest
  <1>7. late' \in 0..2 /\ writes \in 0..writes
    BY <1>1, <1>2 DEF LeaveScope, TypeOK, WaiterTypeOK
  <1>8. wait.w.probe \in {"attribute", "state", "list"} /\ wait.ids \subseteq Resources
    BY <1>1 DEF TypeOK, WaiterTypeOK, Waiters
  <1>9. /\ cache'.probe \in {"none", "attribute", "state", "list"} /\ cache'.ids \subseteq Resources
        /\ cache'.at \in 0..writes /\ cache'.at = writes
    BY <1>2, <1>7, <1>8
  <1>10. others = 0 /\ ~cmd.dry => Goal
    BY <1>1, <1>2 DEF Targets
  <1> QED
    BY <1>2, <1>3, <1>5, <1>6, <1>7, <1>9, <1>10, Advances

-----------------------------------------------------------------------------
\* Steps before a request, and between its attempts.

LEMMA SameCloud ==
  ASSUME UNCHANGED <<cmd, id, cloudVars>>
  PROVE  /\ UNCHANGED <<status, shown, maker, honoured, others>> /\ Made' = Made
         /\ (Goal' <=> Goal) /\ (AllRunning' <=> AllRunning) /\ (CloudTypeOK' <=> CloudTypeOK)
  BY ApiStays DEF cloudVars, Made, Goal, AllRunning, CloudTypeOK

LEMMA BeginBindingKeeps == ASSUME IInv, BeginBinding PROVE IInv'
  <1>1. TypeOK /\ Place /\ Work /\ Counts /\ Views /\ Keys /\ Creations /\ Targets /\ Items
    BY DEF IInv
  <1>2. /\ pc = "ready" /\ ~Finished /\ Step.do = "binding"
        /\ todo' = IF Marked("each") THEN Each ELSE {cmd.ids}
        /\ pc' = "item" /\ cache' = NoCache
        /\ UNCHANGED <<cmd, step, item, token, id, dryRun, outcome, run, minted, effects, writes, view,
                       listed, lost, wait, late, cloudVars>>
    BY DEF BeginBinding, Running, Each, countVars, reportVars, waiterVars
  <1>3. Api' = Api /\ Steps' = Steps /\ SharedKey' = SharedKey
    BY <1>2, ApiStays
  <1>4. /\ UNCHANGED <<status, shown, maker, honoured, others>> /\ Made' = Made
        /\ (Goal' <=> Goal) /\ (AllRunning' <=> AllRunning) /\ CloudTypeOK'
    BY <1>1, <1>2, SameCloud DEF TypeOK
  <1>5. todo' \subseteq SUBSET Resources
    BY <1>1, <1>2, Command DEF Each
  <1>6. writes \in Nat /\ outcome = "running"
    BY <1>2, StillRuns
  <1>7. WaiterTypeOK'
    BY <1>1, <1>2 DEF TypeOK, WaiterTypeOK
  <1>8. TypeOK'
    BY <1>1, <1>2, <1>3, <1>4, <1>5, <1>6, <1>7 DEF TypeOK, NoCache, Steps
  <1>9. Place'
    BY <1>1, <1>2, <1>3 DEF Place, Finished, Step
  <1>10. Work'
    BY <1>2, <1>3 DEF Work, Requesting, Finished, Step, Marked, Each
  <1>11. Counts'
    BY <1>1, <1>2 DEF Counts, Requesting, Before
  <1>12. Views'
    <2>1. ReadOwed' <=> ReadOwed
      BY <1>2, <1>3 DEF ReadOwed
    <2> QED
      BY <1>1, <1>2, <2>1 DEF Views, NoCache, Succeeding
  <1>13. Keys'
    BY <1>1, <1>2, <1>4 DEF Keys, Requesting
  <1>14. Creations'
    BY <1>1, <1>2, <1>3, <1>4 DEF Creations, Before, Succeeding
  <1>15. Targets'
    <2>1. WaitOwed' <=> WaitOwed
      BY <1>2, <1>3 DEF WaitOwed
    <2> QED
      BY <1>1, <1>2, <1>3, <1>4, <2>1 DEF Targets, Succeeding
  <1>16. Items'
    <2>1. Api = "move" => step = 1
      BY <1>1, <1>2, AtStep DEF Single
    <2>2. Api = "assign" => step = 2 /\ todo' = Each
      BY <1>1, <1>2, AtStep
    <2>3. \A r \in cmd.ids : {r} \in Each
      BY DEF Each
    <2>4. Api = "assign" /\ others = 0 /\ ~SharedKey /\ cmd.key /\ 0 \in honoured => AllRunning
      BY <1>1 DEF Items
    <2> QED
      BY <1>2, <1>3, <1>4, <2>1, <2>2, <2>3, <2>4 DEF Items, Before
  <1> QED
    BY <1>8, <1>9, <1>10, <1>11, <1>12, <1>13, <1>14, <1>15, <1>16 DEF IInv

LEMMA PrepareRequestKeeps == ASSUME IInv, PrepareRequest PROVE IInv'
  <1>1. TypeOK /\ Place /\ Work /\ Counts /\ Views /\ Keys /\ Creations /\ Targets /\ Items
    BY DEF IInv
  <1>2. /\ pc = "item" /\ pc' = "call" /\ effects' = 0
        /\ token' = IF ~Marked("token") THEN NoToken ELSE IF cmd.key THEN 0 ELSE minted + 1
        /\ minted' = IF Marked("token") /\ ~cmd.key THEN minted + 1 ELSE minted
        /\ UNCHANGED <<cmd, step, id, dryRun, cache, outcome, run, writes, view, listed, lost, wait, late,
                       cloudVars>>
    BY DEF PrepareRequest, reportVars, waiterVars
  <1>3. PICK ids \in todo : item' = ids /\ todo' = todo \ {ids}
    BY DEF PrepareRequest
  <1>4. Api' = Api /\ Steps' = Steps /\ SharedKey' = SharedKey
    BY <1>2, ApiStays
  <1>5. /\ UNCHANGED <<status, shown, maker, honoured, others>> /\ Made' = Made
        /\ (Goal' <=> Goal) /\ (AllRunning' <=> AllRunning) /\ CloudTypeOK'
    BY <1>1, <1>2, SameCloud DEF TypeOK
  <1>6. minted \in Nat /\ minted' \in Nat /\ minted' >= minted /\ token' \in Tokens
    <2>1. minted \in Nat
      BY <1>1 DEF TypeOK
    <2>2. minted' = minted + 1 \/ minted' = minted
      BY <1>2
    <2>3. token' = NoToken \/ token' = 0 \/ token' = minted + 1
      BY <1>2
    <2> QED
      BY <2>1, <2>2, <2>3 DEF Tokens
  <1>7. ids \subseteq Resources /\ todo' \subseteq SUBSET Resources
    BY <1>1, <1>3 DEF TypeOK
  <1>8. WaiterTypeOK'
    BY <1>1, <1>2 DEF TypeOK, WaiterTypeOK
  <1>9. TypeOK'
    BY <1>1, <1>2, <1>3, <1>4, <1>5, <1>6, <1>7, <1>8 DEF TypeOK, Steps
  <1>10. Place'
    BY <1>1, <1>2, <1>4 DEF Place, Finished, Step
  <1>11. Work'
    BY <1>1, <1>2, <1>3, <1>4 DEF Work, Requesting, Finished, Step, Marked, Each
  <1>12. Counts'
    BY <1>1, <1>2 DEF Counts, Requesting, Before
  <1>13. Views'
    <2>1. ReadOwed' <=> ReadOwed
      BY <1>2, <1>4 DEF ReadOwed
    <2> QED
      BY <1>1, <1>2, <2>1 DEF Views, Succeeding
  <1>14. Keys'
    <2>1. honoured' \subseteq 0..minted'
      BY <1>1, <1>5, <1>6 DEF Keys
    <2>2. Marked("token") /\ ~cmd.key => token' = minted' /\ minted' \notin honoured'
      BY <1>1, <1>2, <1>5, <1>6 DEF Keys
    <2>3. Step' = Step
      BY <1>2, <1>4 DEF Step
    <2> QED
      BY <1>2, <2>1, <2>2, <2>3 DEF Keys, Marked
  <1>15. Creations'
    BY <1>1, <1>2, <1>4, <1>5 DEF Creations, Before, Succeeding
  <1>16. Targets'
    <2>1. WaitOwed' <=> WaitOwed
      BY <1>2, <1>4 DEF WaitOwed
    <2> QED
      BY <1>1, <1>2, <1>4, <1>5, <2>1 DEF Targets, Succeeding
  <1>17. Items'
    <2>1. Api = "move" => step = 1
      BY <1>1, <1>2, AtStep DEF Place, Single
    <2>2. \A r \in cmd.ids : {r} \in todo => {r} \in todo' \/ item' = {r}
      BY <1>3
    <2>3. Api = "assign" => step = 2
      BY <1>1, <1>2, AtStep DEF Place
    <2> QED
      BY <1>1, <1>2, <1>4, <1>5, <2>1, <2>2, <2>3 DEF Items, Before, Succeeding, Requesting
  <1> QED
    BY <1>9, <1>10, <1>11, <1>12, <1>13, <1>14, <1>15, <1>16, <1>17 DEF IInv

LEMMA DryRunPassesKeeps == ASSUME IInv, DryRunPasses PROVE IInv'
  <1>1. TypeOK /\ Place /\ Work /\ Counts /\ Views /\ Keys /\ Creations /\ Targets /\ Items
    BY DEF IInv
  <1>2. /\ pc = "call" /\ cmd.dry /\ dryRun' = TRUE /\ FinishRequest
        /\ UNCHANGED <<cmd, todo, item, token, id, cache, outcome, run, minted, effects, writes, view,
                       listed, lost, wait, late, cloudVars>>
    BY DEF DryRunPasses, Calling, countVars, reportVars, waiterVars
  <1>3. Api' = Api /\ Steps' = Steps /\ SharedKey' = SharedKey
    BY <1>2, ApiStays
  <1>4. /\ UNCHANGED <<status, shown, maker, honoured, others>> /\ Made' = Made
        /\ (Goal' <=> Goal) /\ (AllRunning' <=> AllRunning) /\ CloudTypeOK'
    BY <1>1, <1>2, SameCloud DEF TypeOK
  <1>5. writes = 0 /\ outcome = "running" /\ view \in {-1, writes}
    BY <1>1, <1>2, StillRuns DEF Counts, TypeOK
  <1>6. ~Finished /\ Step.do = "binding" /\ step \in 1..Len(Steps) /\ Len(Steps) \in Nat
    BY <1>1, <1>2, AtStep, Command DEF Place
  <1>7. Api \notin {"move", "assign"}
    BY <1>1, <1>2, Command
  <1>8. pc' = "ready" /\ step' = step + 1 /\ todo = {}
    BY <1>1, <1>2, <1>6, <1>7, AtStep DEF FinishRequest, Work, Marked
  <1>9. WaiterTypeOK'
    BY <1>1, <1>2 DEF TypeOK, WaiterTypeOK
  <1>10. TypeOK'
    BY <1>1, <1>2, <1>3, <1>4, <1>6, <1>8, <1>9 DEF TypeOK, Steps
  <1>11. Place'
    BY <1>1, <1>2, <1>5, <1>8 DEF Place
  <1>12. Work'
    BY <1>2, <1>6, <1>8 DEF Work, Requesting
  <1>13. Counts'
    BY <1>1, <1>2, <1>5, <1>8 DEF Counts, Requesting
  <1>14. Views'
    BY <1>1, <1>2, <1>5, <1>8 DEF Views
  <1>15. Keys'
    BY <1>1, <1>2, <1>4, <1>8 DEF Keys, Requesting
  <1>16. Creations'
    <2>1. Api = "create" => Cardinality(Made) <= IF cmd.key THEN 1 ELSE run
      BY <1>1 DEF Creations
    <2> QED
      BY <1>1, <1>2, <1>3, <1>4, <1>6, <1>8, <2>1 DEF Creations
  <1>17. Targets'
    BY <1>1, <1>2, <1>3, <1>4, <1>8 DEF Targets
  <1>18. Items'
    BY <1>3, <1>7 DEF Items
  <1> QED
    BY <1>10, <1>11, <1>12, <1>13, <1>14, <1>15, <1>16, <1>17, <1>18 DEF IInv

LEMMA Repeats ==
  ASSUME IInv, Requesting, pc' \in {"call", "backoff"}, lost' \in BOOLEAN,
         UNCHANGED <<cmd, execVars, outcome, countVars, view, listed, waiterVars, cloudVars>>
  PROVE  IInv'
  <1>1. TypeOK /\ Place /\ Work /\ Counts /\ Views /\ Keys /\ Creations /\ Targets /\ Items
    BY DEF IInv
  <1>2. UNCHANGED <<cmd, step, todo, item, token, id, dryRun, cache, outcome, run, minted, effects,
                    writes, view, listed, wait, late, cloudVars>>
    BY DEF execVars, countVars, waiterVars
  <1>3. Api' = Api /\ Steps' = Steps /\ SharedKey' = SharedKey
    BY <1>2, ApiStays
  <1>4. /\ UNCHANGED <<status, shown, maker, honoured, others>> /\ Made' = Made
        /\ (Goal' <=> Goal) /\ (AllRunning' <=> AllRunning) /\ CloudTypeOK'
    BY <1>1, <1>2, SameCloud DEF TypeOK
  <1>5. Step' = Step /\ (Finished' <=> Finished)
    BY <1>2, <1>3 DEF Step, Finished
  <1>6. /\ (WaitOwed' <=> WaitOwed) /\ (ReadOwed' <=> ReadOwed)
        /\ (Requesting' <=> Requesting) /\ (Before' <=> Before)
    BY <1>2, <1>3 DEF WaitOwed, ReadOwed, Requesting, Before
  <1>7. WaiterTypeOK'
    BY <1>1, <1>2 DEF TypeOK, WaiterTypeOK
  <1>8. TypeOK'
    BY <1>1, <1>2, <1>3, <1>4, <1>7 DEF TypeOK, Steps
  <1>9. Place'
    BY <1>1, <1>2, <1>5 DEF Place, Requesting
  <1>10. Work'
    BY <1>1, <1>2, <1>5, <1>6 DEF Work, Requesting, Each
  <1>11. Counts'
    BY <1>1, <1>2, <1>6 DEF Counts
  <1>12. Views'
    BY <1>1, <1>2, <1>6 DEF Views, Requesting, Succeeding
  <1>13. Keys'
    BY <1>1, <1>2, <1>4, <1>5, <1>6 DEF Keys
  <1>14. Creations'
    BY <1>1, <1>2, <1>3, <1>4, <1>6 DEF Creations, Requesting, Succeeding
  <1>15. Targets'
    BY <1>1, <1>2, <1>3, <1>4, <1>6 DEF Targets, Requesting, Succeeding
  <1>16. Items'
    BY <1>1, <1>2, <1>3, <1>4, <1>6 DEF Items, Requesting, Succeeding
  <1> QED
    BY <1>8, <1>9, <1>10, <1>11, <1>12, <1>13, <1>14, <1>15, <1>16 DEF IInv

LEMMA PostponedKeeps == ASSUME IInv, Postponed PROVE IInv'
  BY Repeats DEF Postponed, Calling, Requesting

LEMMA RetryKeeps == ASSUME IInv, Retry PROVE IInv'
  <1>1. lost' = lost /\ pc = "backoff" /\ pc' = "call"
    BY DEF Retry, reportVars
  <1>2. lost' \in BOOLEAN
    BY <1>1 DEF IInv, TypeOK
  <1> QED
    BY <1>1, <1>2, Repeats DEF Retry, Requesting, reportVars

LEMMA Times ==
  ASSUME IInv, late' \in 0..2,
         UNCHANGED <<cmd, pc, execVars, outcome, countVars, reportVars, wait, cloudVars>>
  PROVE  IInv'
  <1>1. TypeOK /\ Place /\ Work /\ Counts /\ Views /\ Keys /\ Creations /\ Targets /\ Items
    BY DEF IInv
  <1>2. UNCHANGED <<cmd, pc, step, todo, item, token, id, dryRun, cache, outcome, run, minted, effects,
                    writes, view, listed, lost, wait, status, shown, maker, honoured, others>>
    BY DEF execVars, countVars, reportVars, cloudVars
  <1>3. Api' = Api /\ Steps' = Steps /\ SharedKey' = SharedKey
    BY <1>2, ApiStays
  <1>4. TypeOK'
    BY <1>1, <1>2, <1>3 DEF TypeOK, WaiterTypeOK, CloudTypeOK, Steps
  <1>5. Place' /\ Work' /\ Counts' /\ Views' /\ Keys'
    BY <1>1, <1>2, <1>3 DEF Place, Work, Counts, Views, Keys, Requesting, Before, Succeeding, ReadOwed,
       Each, Finished, Step, CurrentIDs
  <1>6. Made' = Made /\ (Goal' <=> Goal) /\ (AllRunning' <=> AllRunning)
    BY <1>2, SameCloud
  <1>7. WaitOwed' <=> WaitOwed
    BY <1>2, <1>3 DEF WaitOwed
  <1>8. Creations'
    BY <1>1, <1>2, <1>3, <1>6 DEF Creations, Before, Succeeding
  <1>9. Targets'
    BY <1>1, <1>2, <1>3, <1>6, <1>7 DEF Targets, Succeeding
  <1>10. Items'
    BY <1>1, <1>2, <1>3, <1>6 DEF Items, Requesting, Before, Succeeding
  <1> QED
    BY <1>4, <1>5, <1>8, <1>9, <1>10 DEF IInv

LEMMA ExpireKeeps == ASSUME IInv, Expire PROVE IInv'
  BY Times DEF Expire

LEMMA CancelKeeps == ASSUME IInv, Cancel PROVE IInv'
  BY Times DEF Cancel

LEMMA StutterKeeps == ASSUME IInv, UNCHANGED vars PROVE IInv'
  <1>1. late' \in 0..2
    BY DEF IInv, TypeOK, WaiterTypeOK, vars, waiterVars
  <1> QED
    BY <1>1, Times DEF vars, waiterVars

-----------------------------------------------------------------------------
\* Waits.

LEMMA BeginWaitKeeps == ASSUME IInv, BeginWait PROVE IInv'
  <1>1. TypeOK /\ Place /\ Work /\ Counts /\ Views /\ Keys /\ Creations /\ Targets /\ Items
    BY DEF IInv
  <1>2. /\ pc = "ready" /\ ~Finished /\ Step.do = "wait" /\ ~(Step.unlessNoWait /\ cmd.noWait)
        /\ pc' = "waiting" /\ StartWait(Step.w, CurrentIDs)
        /\ UNCHANGED <<cmd, step, todo, item, token, id, dryRun, cache, outcome, run, minted, effects,
                       writes, view, listed, lost, late, cloudVars>>
    BY DEF BeginWait, Running, Wait, execVars, countVars, reportVars
  <1>3. Api' = Api /\ Steps' = Steps /\ SharedKey' = SharedKey
    BY <1>2, ApiStays
  <1>4. /\ UNCHANGED <<status, shown, maker, honoured, others>> /\ Made' = Made
        /\ (Goal' <=> Goal) /\ (AllRunning' <=> AllRunning) /\ CloudTypeOK'
    BY <1>1, <1>2, SameCloud DEF TypeOK
  <1>5. /\ Step' = Step /\ (Finished' <=> Finished) /\ CurrentIDs' = CurrentIDs
        /\ (WaitOwed' <=> WaitOwed) /\ (ReadOwed' <=> ReadOwed)
    BY <1>2, <1>3 DEF Step, Finished, CurrentIDs, WaitOwed, ReadOwed
  <1>6. CurrentIDs \in SUBSET Resources
    BY <1>1, Command DEF TypeOK, CurrentIDs
  <1>7. /\ wait' \in [at : {"idle", "probe", "sleep"} \cup Ends, w : Waiters, ids : SUBSET Resources,
                      n : 0..MaxAttempts]
        /\ wait'.at = "probe" /\ wait'.w = Step.w /\ wait'.ids = CurrentIDs
    BY <1>1, <1>2, <1>6, Waited
  <1>8. Waits(Step) /\ ~cmd.noWait /\ "each" \notin Step.marks /\ step \in 1..Len(Steps) /\ Step = Steps[step]
    BY <1>1, <1>2, AtStep DEF Waits, Step
  <1>9. TypeOK'
    BY <1>1, <1>2, <1>3, <1>4, <1>7 DEF TypeOK, WaiterTypeOK, Steps
  <1>10. outcome = "running"
    BY <1>2, StillRuns
  <1>11. Place'
    BY <1>2, <1>5, <1>7, <1>8, <1>10 DEF Place
  <1>12. Work'
    BY <1>1, <1>2, <1>5, <1>8 DEF Work, Requesting
  <1>13. Counts'
    BY <1>1, <1>2 DEF Counts, Requesting, Before
  <1>14. Views'
    BY <1>1, <1>2, <1>5 DEF Views, Succeeding
  <1>15. Keys'
    BY <1>1, <1>2, <1>4 DEF Keys, Requesting
  <1>16. Api \in Single => step > 1
    BY <1>1, <1>2, <1>8, Command
  <1>17. Creations'
    BY <1>1, <1>2, <1>3, <1>4, <1>16 DEF Creations, Before, Succeeding, Single
  <1>18. Targets'
    BY <1>1, <1>2, <1>3, <1>4, <1>5, <1>7 DEF Targets, Succeeding
  <1>19. Items'
    <2>1. Api # "assign"
      BY <1>1, <1>2, <1>8, AtStep
    <2> QED
      BY <1>1, <1>2, <1>3, <1>4, <1>16, <2>1 DEF Items, Before, Succeeding, Single
  <1> QED
    BY <1>9, <1>11, <1>12, <1>13, <1>14, <1>15, <1>17, <1>18, <1>19 DEF IInv

\* How a verdict changes the wait.
LEMMA Verdict ==
  ASSUME TypeOK, NEW v \in Ends \cup {"pending"}, Observe(v)
  PROVE  /\ wait' \in [at : {"idle", "probe", "sleep"} \cup Ends, w : Waiters, ids : SUBSET Resources,
                       n : 0..MaxAttempts]
         /\ wait'.w = wait.w /\ wait'.ids = wait.ids /\ UNCHANGED <<late, cloudVars>>
         /\ wait'.at = "sleep" => wait'.n < MaxAttempts
         /\ wait'.at = "hit" => v = "hit"
  <1>1. wait \in [at : {"idle", "probe", "sleep"} \cup Ends, w : Waiters, ids : SUBSET Resources,
                 n : 0..MaxAttempts]
    BY DEF TypeOK, WaiterTypeOK
  <1> QED
    BY <1>1, WaiterAssumption DEF Observe, Ends

\* What a wait that reached its target has seen.
LEMMA Observed ==
  ASSUME TypeOK, WaitStep, wait.at = "sleep" => wait.n < MaxAttempts
  PROVE  /\ wait' \in [at : {"idle", "probe", "sleep"} \cup Ends, w : Waiters, ids : SUBSET Resources,
                       n : 0..MaxAttempts]
         /\ wait'.w = wait.w /\ wait'.ids = wait.ids /\ UNCHANGED <<late, cloudVars>>
         /\ wait'.at = "sleep" => wait'.n < MaxAttempts
         /\ wait'.at = "hit" =>
              /\ wait.w.by = "absent" => Seen(wait.ids) = {}
              /\ wait.w.by = "status" => \A r \in Resources : wait.ids = {r} => status[r] = "running"
              /\ wait.w.by = "capture" => wait.ids \subseteq Seen(wait.ids)
  <1>1. /\ wait \in [at : {"idle", "probe", "sleep"} \cup Ends, w : Waiters, ids : SUBSET Resources,
                    n : 0..MaxAttempts]
        /\ wait.w.by \in {"status", "absent", "capture"}
    BY DEF TypeOK, WaiterTypeOK, Waiters
  <1>2. CASE ProbeAnswers
    <2>1. PICK v \in Judged(wait.w, wait.ids) : Observe(v)
      BY <1>2 DEF ProbeAnswers
    <2>2. CASE wait.w.by = "status"
      <3>1. \/ v = "pending"
            \/ \E r \in Seen(wait.ids) :
                 v = IF status[r] = "running" THEN "hit"
                     ELSE IF status[r] = "failed" /\ wait.w.fails THEN "failure" ELSE "pending"
        BY <2>1, <2>2 DEF Judged
      <3>2. v \in Ends \cup {"pending"} /\ (v = "hit" => \E r \in wait.ids : status[r] = "running")
        BY <3>1 DEF Ends, Seen
      <3> QED
        BY <2>1, <2>2, <3>2, Verdict
    <2>3. CASE wait.w.by = "absent"
      <3>1. v = IF Seen(wait.ids) = {} THEN "hit" ELSE "pending"
        BY <2>1, <2>3 DEF Judged
      <3>2. v \in Ends \cup {"pending"} /\ (v = "hit" => Seen(wait.ids) = {})
        BY <3>1 DEF Ends
      <3> QED
        BY <2>1, <2>3, <3>2, Verdict
    <2>4. CASE wait.w.by = "capture"
      <3>1. v = IF wait.ids # {} /\ \A r \in wait.ids : r \in Seen(wait.ids) /\ status[r] = "running"
                THEN "hit" ELSE "pending"
        BY <2>1, <2>4 DEF Judged
      <3>2. v \in Ends \cup {"pending"} /\ (v = "hit" => wait.ids \subseteq Seen(wait.ids))
        BY <3>1 DEF Ends
      <3> QED
        BY <2>1, <2>4, <3>2, Verdict
    <2> QED
      BY <1>1, <2>2, <2>3, <2>4
  <1>3. CASE ProbeNotFound
    <2>1. PICK v \in {"hit", "pending", "error"} :
            /\ Observe(v) /\ Seen(wait.ids) = {}
            /\ v = IF wait.w.by = "absent" THEN "hit" ELSE IF wait.w.lag THEN "pending" ELSE "error"
      BY <1>3 DEF ProbeNotFound
    <2>2. v \in Ends \cup {"pending"} /\ (v = "hit" => wait.w.by = "absent")
      BY <2>1 DEF Ends
    <2> QED
      BY <2>1, <2>2, Verdict
  <1>4. CASE ProbeFails
    <2>1. PICK v \in {"pending", "error"} : Observe(v)
      BY <1>4 DEF ProbeFails
    <2>2. v \in Ends \cup {"pending"} /\ v # "hit"
      BY <2>1 DEF Ends
    <2> QED
      BY <2>1, <2>2, Verdict
  <1>5. CASE Interval
    <2>1. wait' = [wait EXCEPT !.at = "probe", !.n = wait.n + 1] /\ UNCHANGED <<late, cloudVars>>
      BY <1>5 DEF Interval
    <2>2. wait.n + 1 \in 0..MaxAttempts
      BY <1>1, <1>5, WaiterAssumption DEF Interval
    <2>3. /\ wait'.at = "probe" /\ wait'.w = wait.w /\ wait'.ids = wait.ids
          /\ wait' \in [at : {"idle", "probe", "sleep"} \cup Ends, w : Waiters, ids : SUBSET Resources,
                        n : 0..MaxAttempts]
      BY <1>1, <2>1, <2>2
    <2> QED
      BY <2>1, <2>3
  <1>6. CASE ContextDone
    <2>1. PICK end \in {"timeout", "error"} : wait' = [wait EXCEPT !.at = end]
      BY <1>6 DEF ContextDone
    <2>2. end \in Ends
      BY <2>1 DEF Ends
    <2> QED
      BY <1>1, <1>6, <2>1, <2>2 DEF ContextDone
  <1> QED
    BY <1>2, <1>3, <1>4, <1>5, <1>6 DEF WaitStep

LEMMA DoWaitKeeps == ASSUME IInv, DoWait PROVE IInv'
  <1>1. TypeOK /\ Place /\ Work /\ Counts /\ Views /\ Keys /\ Creations /\ Targets /\ Items
    BY DEF IInv
  <1>2. /\ pc \in {"waiting", "reconciling"} /\ WaitStep
        /\ UNCHANGED <<cmd, pc, step, todo, item, token, id, dryRun, cache, outcome, run, minted, effects,
                       writes, view, listed, lost>>
    BY DEF DoWait, execVars, countVars, reportVars
  <1>3. /\ wait' \in [at : {"idle", "probe", "sleep"} \cup Ends, w : Waiters, ids : SUBSET Resources,
                      n : 0..MaxAttempts]
        /\ wait'.w = wait.w /\ wait'.ids = wait.ids /\ UNCHANGED <<late, cloudVars>>
        /\ wait'.at = "sleep" => wait'.n < MaxAttempts
        /\ wait'.at = "hit" =>
             /\ wait.w.by = "absent" => Seen(wait.ids) = {}
             /\ wait.w.by = "status" => \A r \in Resources : wait.ids = {r} => status[r] = "running"
             /\ wait.w.by = "capture" => wait.ids \subseteq Seen(wait.ids)
    BY <1>1, <1>2, Observed DEF Place
  <1>4. Api' = Api /\ Steps' = Steps /\ SharedKey' = SharedKey
    BY <1>2, ApiStays
  <1>5. /\ UNCHANGED <<status, shown, maker, honoured, others>> /\ Made' = Made
        /\ (Goal' <=> Goal) /\ (AllRunning' <=> AllRunning) /\ CloudTypeOK'
    BY <1>1, <1>2, <1>3, SameCloud DEF TypeOK
  <1>6. /\ Step' = Step /\ (Finished' <=> Finished) /\ CurrentIDs' = CurrentIDs
        /\ (WaitOwed' <=> WaitOwed) /\ (ReadOwed' <=> ReadOwed)
    BY <1>2, <1>4 DEF Step, Finished, CurrentIDs, WaitOwed, ReadOwed
  <1>7. TypeOK'
    BY <1>1, <1>2, <1>3, <1>4, <1>5 DEF TypeOK, WaiterTypeOK, Steps
  <1>8. Place'
    BY <1>1, <1>2, <1>3, <1>6 DEF Place
  <1>9. Work'
    BY <1>1, <1>2, <1>6 DEF Work, Requesting, Each
  <1>10. Counts'
    BY <1>1, <1>2 DEF Counts, Requesting, Before
  <1>11. Views'
    BY <1>1, <1>2, <1>6 DEF Views, Succeeding
  <1>12. Keys'
    BY <1>1, <1>2, <1>5, <1>6 DEF Keys, Requesting
  <1>13. Creations'
    BY <1>1, <1>2, <1>4, <1>5 DEF Creations, Before, Succeeding
  <1>14. Targets'
    <2>1. ASSUME pc = "waiting", wait'.at = "hit", ~cmd.dry PROVE Goal
      <3>1. /\ ~Finished /\ Waits(Step) /\ wait.w = Step.w /\ wait.ids = CurrentIDs
            /\ outcome = "running"
        BY <1>1, <2>1 DEF Place
      <3>2. /\ Api = "delete" => Step.w.by = "absent"
            /\ Api = "move" => Step.w.by = "capture"
            /\ Api \in {"create", "start"} => Step.w.by = "status"
        BY <1>1, <3>1, AtStep
      <3>3. /\ Api = "create" => id \in Resources /\ id # None
            /\ Api # "create" => CurrentIDs = cmd.ids
            /\ id # None => CurrentIDs = {id}
        BY <1>1, <2>1, <3>1, CloudAssumption DEF Creations, Targets, CurrentIDs, Succeeding
      <3>4. Api = "create" => id # None /\ status[id] = "running"
        BY <1>3, <2>1, <3>1, <3>2, <3>3
      <3>5. Api = "delete" => \A r \in cmd.ids : status[r] = "none"
        BY <1>1, <1>3, <2>1, <3>1, <3>2, <3>3, Command DEF Targets, Seen
      <3>6. Api = "start" /\ (\E r \in Resources : cmd.ids = {r}) =>
              \A r \in cmd.ids : status[r] = "running"
        BY <1>3, <2>1, <3>1, <3>2, <3>3
      <3>7. Api = "move" => cmd.ids \subseteq shown
        BY <1>3, <2>1, <3>1, <3>2, <3>3 DEF Seen
      <3> QED
        BY <3>4, <3>5, <3>6, <3>7 DEF Goal
    <2> QED
      BY <1>1, <1>2, <1>4, <1>5, <1>6, <2>1 DEF Targets, Succeeding
  <1>15. Items'
    BY <1>1, <1>2, <1>4, <1>5 DEF Items, Requesting, Before, Succeeding
  <1> QED
    BY <1>7, <1>8, <1>9, <1>10, <1>11, <1>12, <1>13, <1>14, <1>15 DEF IInv

-----------------------------------------------------------------------------
\* The end of a command that succeeds, its repetition, and the service's steps.

LEMMA FinishKeeps == ASSUME IInv, Finish PROVE IInv'
  <1>1. TypeOK /\ Place /\ Work /\ Counts /\ Views /\ Keys /\ Creations /\ Targets /\ Items
    BY DEF IInv
  <1>2. /\ pc = "ready" /\ Finished /\ pc' = "done" /\ outcome' = "ok"
        /\ UNCHANGED <<cmd, step, todo, item, token, id, dryRun, cache, run, minted, effects, writes,
                       view, listed, lost, wait, late, cloudVars>>
    BY DEF Finish, execVars, countVars, reportVars, waiterVars
  <1>3. Api' = Api /\ Steps' = Steps /\ SharedKey' = SharedKey
    BY <1>2, ApiStays
  <1>4. /\ UNCHANGED <<status, shown, maker, honoured, others>> /\ Made' = Made
        /\ (Goal' <=> Goal) /\ (AllRunning' <=> AllRunning) /\ CloudTypeOK'
    BY <1>1, <1>2, SameCloud DEF TypeOK
  <1>5. /\ Finished' /\ (WaitOwed' <=> WaitOwed) /\ (ReadOwed' <=> ReadOwed)
    BY <1>2, <1>3 DEF Finished, WaitOwed, ReadOwed
  <1>6. outcome = "running" /\ listed = writes
    BY <1>2, StillRuns
  <1>7. WaiterTypeOK'
    BY <1>1, <1>2 DEF TypeOK, WaiterTypeOK
  <1>8. TypeOK'
    BY <1>1, <1>2, <1>3, <1>4, <1>7 DEF TypeOK, Steps
  <1>9. Place'
    BY <1>1, <1>2, <1>5 DEF Place
  <1>10. Work'
    BY <1>2, <1>5 DEF Work, Requesting
  <1>11. Counts'
    BY <1>1, <1>2, <1>6 DEF Bare, Counts, Requesting, Before
  <1>12. Views'
    BY <1>1, <1>2, <1>5, <1>6 DEF Views, Succeeding
  <1>13. Keys'
    BY <1>1, <1>2, <1>4 DEF Keys, Requesting
  <1>14. Creations'
    BY <1>1, <1>2, <1>3, <1>4, <1>6 DEF Creations, Before, Succeeding
  <1>15. Targets'
    BY <1>1, <1>2, <1>3, <1>4, <1>5, <1>6 DEF Targets, Succeeding
  <1>16. /\ Api \in Single => step # 1
         /\ Api = "assign" => step # 2
    <2>1. /\ Len(Steps) \in Nat /\ step \in 1..(Len(Steps) + 1) /\ step > Len(Steps)
          /\ Shape(Steps, Writing(cmd.op))
      BY <1>1, <1>2, Command DEF Finished
    <2>2. PICK k \in 1..Len(Steps) : Steps[k] = Writing(cmd.op) /\ Writing(cmd.op).do = "binding"
      BY <2>1 DEF Shape
    <2>3. Api = "assign" => k = 2
      BY <2>1, <2>2 DEF Shape, Api
    <2> QED
      BY <2>1, <2>2, <2>3
  <1>17. Items'
    BY <1>1, <1>2, <1>3, <1>4, <1>6, <1>16 DEF Items, Requesting, Before, Succeeding, Single
  <1> QED
    BY <1>8, <1>9, <1>10, <1>11, <1>12, <1>13, <1>14, <1>15, <1>17 DEF IInv

LEMMA RerunKeeps == ASSUME IInv, Rerun PROVE IInv'
  <1>1. TypeOK /\ Place /\ Work /\ Counts /\ Views /\ Keys /\ Creations /\ Targets /\ Items
    BY DEF IInv
  <1>2. /\ pc = "done" /\ run < MaxRuns /\ run' = run + 1 /\ late' = 0
        /\ pc' = "ready" /\ step' = 1 /\ todo' = {} /\ item' = {} /\ token' = NoToken
        /\ id' = None /\ dryRun' = FALSE /\ cache' = NoCache /\ outcome' = "running"
        /\ effects' = 0 /\ writes' = 0 /\ view' = -1 /\ listed' = 0 /\ lost' = FALSE
        /\ UNCHANGED <<cmd, minted, wait, cloudVars>>
    BY DEF Rerun
  <1>3. Api' = Api /\ Steps' = Steps /\ SharedKey' = SharedKey
    BY <1>2, ApiStays
  <1>4. /\ UNCHANGED <<status, shown, maker, honoured, others>> /\ Made' = Made
        /\ (AllRunning' <=> AllRunning) /\ CloudTypeOK'
    BY <1>1, <1>2 DEF TypeOK, CloudTypeOK, cloudVars, Made, AllRunning
  <1>5. /\ Len(Steps) \in Nat /\ 1 \in 1..(Len(Steps) + 1)
        /\ Api \in Single => \E k \in 1..Len(Steps) : Waits(Steps[k])
    BY <1>1, Command
  <1>6. run \in Nat /\ run' \in 1..MaxRuns
    BY <1>1, <1>2, WorkflowAssumption DEF TypeOK
  <1>7. WaiterTypeOK'
    BY <1>1, <1>2 DEF TypeOK, WaiterTypeOK
  <1>8. TypeOK'
    <2>1. step' \in 1..(Len(Catalog[cmd'.op]) + 1)
      BY <1>2, <1>5 DEF Steps
    <2>2. token' \in Tokens /\ todo' \subseteq SUBSET Resources /\ item' \subseteq Resources
      BY <1>2 DEF Tokens
    <2>3. /\ cache'.probe = "none" /\ cache'.ids = {} /\ cache'.at = 0 /\ 0 \in 0..writes'
          /\ view' \in -1..writes' /\ listed' \in 0..writes'
      BY <1>2 DEF NoCache
    <2>4. /\ pc' \in {"ready", "item", "call", "backoff", "waiting", "reconciling", "done"}
          /\ cmd' \in Commands /\ minted' \in Nat /\ effects' \in Nat /\ writes' \in Nat
      BY <1>1, <1>2 DEF TypeOK
    <2> QED
      BY <1>2, <1>4, <1>6, <1>7, <2>1, <2>2, <2>3, <2>4 DEF TypeOK
  <1>9. Place'
    BY <1>1, <1>2 DEF Place
  <1>10. Work'
    BY <1>2 DEF Work, Requesting
  <1>11. Counts'
    BY <1>2 DEF Counts, Requesting
  <1>12. Views'
    BY <1>2 DEF Views, NoCache
  <1>13. Keys'
    BY <1>1, <1>2, <1>4 DEF Keys, Requesting
  <1>14. Creations'
    BY <1>1, <1>2, <1>3, <1>4, <1>6, MadeFinite DEF Creations
  <1>15. Targets'
    <2>1. Api \in Single => WaitOwed'
      BY <1>2, <1>3, <1>5 DEF WaitOwed
    <2> QED
      BY <1>1, <1>2, <1>3, <1>4, <2>1 DEF Targets
  <1>16. Items'
    BY <1>1, <1>2, <1>3, <1>4 DEF Items, Before
  <1> QED
    BY <1>8, <1>9, <1>10, <1>11, <1>12, <1>13, <1>14, <1>15, <1>16 DEF IInv

LEMMA ServiceKeeps == ASSUME IInv, Service PROVE IInv'
  <1>1. TypeOK /\ Place /\ Work /\ Counts /\ Views /\ Keys /\ Creations /\ Targets /\ Items
    BY DEF IInv
  <1>2. /\ CloudNext
        /\ UNCHANGED <<cmd, pc, step, todo, item, token, id, dryRun, cache, outcome, run, minted, effects,
                       writes, view, listed, lost, wait, late>>
    BY DEF Service, execVars, countVars, reportVars, waiterVars
  <1>3. Api' = Api /\ Steps' = Steps /\ SharedKey' = SharedKey
    BY <1>2, ApiStays
  <1>4. /\ CloudTypeOK' /\ UNCHANGED <<maker, honoured>> /\ shown \subseteq shown'
        /\ others' = 0 =>
             /\ others = 0
             /\ \A r \in Resources : status[r] \in {"running", "none"} => status'[r] = status[r]
        /\ \A r \in Resources : status'[r] # "none" => status[r] # "none"
    BY <1>1, <1>2, CloudMoves DEF TypeOK
  <1>5. Made' = Made /\ cmd.ids \subseteq Resources /\ id \in Resources \cup {None}
    BY <1>1, <1>4, Command DEF Made, TypeOK
  <1>6. others' = 0 /\ Goal => Goal'
    BY <1>2, <1>3, <1>4, <1>5 DEF Goal
  <1>7. others' = 0 /\ AllRunning => AllRunning'
    BY <1>2, <1>4, <1>5 DEF AllRunning
  <1>8. (WaitOwed' <=> WaitOwed) /\ (ReadOwed' <=> ReadOwed)
    BY <1>2, <1>3 DEF WaitOwed, ReadOwed
  <1>9. TypeOK'
    BY <1>1, <1>2, <1>3, <1>4 DEF TypeOK, WaiterTypeOK, Steps
  <1>10. Place' /\ Work' /\ Counts'
    BY <1>1, <1>2, <1>3 DEF Place, Work, Counts, Requesting, Before, Each, Finished, Step, CurrentIDs
  <1>11. Views'
    BY <1>1, <1>2, <1>8 DEF Views, Succeeding
  <1>12. Keys'
    BY <1>1, <1>2, <1>3, <1>4 DEF Keys, Requesting, Step
  <1>13. Creations'
    BY <1>1, <1>2, <1>3, <1>4, <1>5 DEF Creations, Before, Succeeding
  <1>14. Targets'
    BY <1>1, <1>2, <1>3, <1>4, <1>6, <1>8 DEF Targets, Succeeding
  <1>15. Items'
    <2>1. ASSUME Api = "assign", others' = 0, ~SharedKey, Succeeding, step >= 2,
                 ~(step = 2 /\ pc = "ready"), NEW r \in cmd.ids
          PROVE  \/ status'[r] = "running"
                 \/ step = 2 /\ pc \in {"item", "call", "backoff"} /\ {r} \in todo
                 \/ step = 2 /\ Requesting /\ item = {r}
      BY <1>1, <1>4, <1>5, <2>1 DEF Items
    <2>2. Api = "move" /\ others' = 0 /\ Succeeding /\ pc # "reconciling" /\ ~(Before /\ step = 1) =>
            AllRunning'
      BY <1>1, <1>4, <1>7 DEF Items
    <2>3. Api = "assign" /\ others' = 0 /\ ~SharedKey /\ cmd.key /\ 0 \in honoured => AllRunning'
      BY <1>1, <1>4, <1>7 DEF Items
    <2> QED
      BY <1>2, <1>3, <1>4, <2>1, <2>2, <2>3 DEF Items, Requesting, Before, Succeeding
  <1> QED
    BY <1>9, <1>10, <1>11, <1>12, <1>13, <1>14, <1>15 DEF IInv

-----------------------------------------------------------------------------
\* The invariant holds, and what follows from it.

LEMMA Initially == ASSUME Init PROVE IInv
  <1>1. cmd \in Commands /\ CloudInit /\ WaiterInit
    BY DEF Init
  <1>2. CloudTypeOK
    BY <1>1, CloudAssumption DEF CloudInit, CloudTypeOK, Statuses
  <1>3. WaiterTypeOK
    BY <1>1, IdleWait DEF WaiterInit, WaiterTypeOK
  <1>4. Shape(Steps, Writing(cmd.op))
    BY <1>1, Shapes DEF Commands, Steps
  <1>5. Len(Steps) \in Nat /\ (Api \in Single => \E k \in 1..Len(Steps) : Waits(Steps[k]))
    BY <1>4 DEF Shape, Api
  <1>6. TypeOK
    <2>1. step \in 1..(Len(Catalog[cmd.op]) + 1)
      BY <1>5 DEF Init, Steps
    <2>2. token \in Tokens /\ todo \subseteq SUBSET Resources /\ item \subseteq Resources
      BY DEF Init, Tokens
    <2>3. /\ cache.probe = "none" /\ cache.ids = {} /\ cache.at = 0 /\ 0 \in 0..writes
          /\ view \in -1..writes /\ listed \in 0..writes
      BY DEF Init, NoCache
    <2>4. /\ pc \in {"ready", "item", "call", "backoff", "waiting", "reconciling", "done"}
          /\ minted \in Nat /\ effects \in Nat /\ writes \in Nat /\ run \in 1..MaxRuns
      BY WorkflowAssumption DEF Init
    <2> QED
      BY <1>1, <1>2, <1>3, <2>1, <2>2, <2>3, <2>4 DEF Init, TypeOK
  <1>7. Place
    BY <1>1 DEF Init, Place, WaiterInit, Idle
  <1>8. Work /\ Counts /\ Views
    BY DEF Init, Work, Counts, Views, Requesting, NoCache
  <1>9. Keys
    BY <1>1 DEF Init, Keys, Requesting, CloudInit
  <1>10. Made = {}
    BY <1>1 DEF CloudInit, Made
  <1>11. Creations
    BY <1>10, FS_EmptySet DEF Init, Creations
  <1>12. Targets
    <2>1. Api \in Single => WaitOwed
      BY <1>5 DEF Init, WaitOwed
    <2> QED
      BY <1>1, <2>1 DEF Init, Targets, CloudInit
  <1>13. Items
    BY <1>1 DEF Init, Items, Before, CloudInit
  <1> QED
    BY <1>6, <1>7, <1>8, <1>9, <1>11, <1>12, <1>13 DEF IInv

LEMMA Inductive == ASSUME IInv, [Next]_vars PROVE IInv'
  <1>1. CASE Execute
    BY <1>1, SkipStepKeeps, StepUnresolvedKeeps, BeginBindingKeeps, PrepareRequestKeeps, PrepareFailsKeeps, DryRunPassesKeeps,
       AcceptedKeeps, AcceptedWithoutIDKeeps, BatchInvalidKeeps, RefusedKeeps, PostponedKeeps,
       AnswerLostKeeps, RetryKeeps, RetryTimeoutKeeps, BeginWaitKeeps, DoWaitKeeps, WaitHitKeeps,
       WaitFailedKeeps, ReconciledKeeps, ProbeStepKeeps, ProbeStepFailsKeeps, EmitStepKeeps, FinishKeeps
    DEF Execute
  <1> QED
    BY <1>1, RerunKeeps, ExpireKeeps, CancelKeeps, ServiceKeeps, StutterKeeps DEF Next

\* The execution keeps its invariant: where it is in the workflow, what it has
\* still to request, what it has counted and seen, which tokens and creations
\* there are, and what its waits have reached.
THEOREM Invariance == Spec => []IInv
  <1>1. Init => IInv
    BY Initially
  <1>2. IInv /\ [Next]_vars => IInv'
    BY Inductive
  <1> QED
    BY <1>1, <1>2, PTL DEF Spec

\* A request is carried out at most once, and repeated commands create no more
\* than they were asked to.
THEOREM ActsOnce == Spec => []OneEffect
  <1>1. IInv => OneEffect
    BY DEF IInv, Counts, Creations, Made, Api, OneEffect, AtMostOnce, NoDuplicates
  <1> QED
    BY <1>1, Invariance, PTL

\* The actions of a result are the requests that were accepted, and none when
\* the command ends because a step or a request cannot be resolved or a
\* creation is answered without an id; and the view a command shows was read
\* after the last of them (executeOperationWorkflow).
THEOREM TellsAll == Spec => []ResultTells
  <1>1. IInv => AcceptedReported
    BY DEF IInv, Counts, AcceptedReported
  <1>2. IInv => FreshView
    <2> SUFFICES ASSUME IInv, pc = "done", outcome = "ok", ~cmd.noWait, view # -1 PROVE view = writes
      BY DEF FreshView, Ended
    <2>1. /\ step \in Nat /\ Len(Steps) \in Nat /\ Finished
      BY Command DEF IInv, Place
    <2>2. ~ReadOwed
      BY <2>1 DEF ReadOwed, Finished
    <2> QED
      BY <2>2 DEF IInv, Views, Succeeding
  <1> QED
    BY <1>1, <1>2, Invariance, PTL DEF ResultTells

\* A command that reports success has reached what it waited for and has
\* carried out every item, unless another client interfered or items shared a
\* key.
THEOREM Succeeds == Spec => []SuccessIsReal
  <1>1. IInv => SuccessIsReached
    <2> SUFFICES ASSUME IInv, Succeeded, ~cmd.noWait
                 PROVE  /\ Api = "create" => status[id] = "running"
                        /\ Api = "delete" => Seen(cmd.ids) = {}
                        /\ Api = "start" /\ Cardinality(cmd.ids) = 1 => \A r \in cmd.ids : status[r] = "running"
                        /\ Api = "move" => cmd.ids \subseteq shown
      BY DEF SuccessIsReached, Api
    <2>1. TypeOK /\ Targets /\ Finished /\ others = 0 /\ ~cmd.dry /\ Succeeding
      BY DEF IInv, Place, Succeeded, Succeeding
    <2>2. step \in Nat /\ Len(Steps) \in Nat /\ cmd.ids \subseteq Resources
      BY <2>1, Command
    <2>3. ~WaitOwed
      BY <2>1, <2>2 DEF WaitOwed, Finished
    <2>4. Api \in Single => Goal
      BY <2>1, <2>3 DEF Targets
    <2>5. Cardinality(cmd.ids) = 1 => \E r \in Resources : cmd.ids = {r}
      BY <2>2, CloudAssumption, FS_Subset, FS_Singleton
    <2> QED
      BY <2>4, <2>5 DEF Goal, Single, Seen
  <1>2. IInv => AllItemsDone
    <2> SUFFICES ASSUME IInv, Succeeded, Api \in {"move", "assign"}, ~SharedKey
                 PROVE  AllRunning
      BY DEF AllItemsDone, Api, AllRunning
    <2>1. TypeOK /\ Items /\ Finished /\ others = 0 /\ Succeeding /\ pc = "done"
      BY DEF IInv, Place, Succeeded, Succeeding, Ended
    <2>2. CASE Api = "move"
      BY <2>1, <2>2 DEF Items, Before
    <2>3. CASE Api = "assign"
      <3>1. /\ step \in Nat /\ Len(Steps) \in Nat /\ step > Len(Steps) /\ Shape(Steps, Writing(cmd.op))
        BY <2>1, Command DEF Finished
      <3>2. \E k \in 1..Len(Steps) : k = 2
        BY <2>3, <3>1 DEF Shape, Api
      <3>3. step > 2
        BY <3>1, <3>2
      <3> QED
        BY <2>1, <2>3, <3>1, <3>3 DEF Items, AllRunning
    <2> QED
      BY <2>2, <2>3
  <1>3. IInv => TypeOK
    BY DEF IInv
  <1> QED
    BY <1>1, <1>2, <1>3, Invariance, PTL DEF SuccessIsReal

=============================================================================
