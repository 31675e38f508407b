------------------------------ MODULE Workflow ------------------------------
(* The execution of a command by pkg/engine: the steps of an operation's      *)
(* workflow, the write of a binding with its client token, its retries and    *)
(* the check of a batch, the waits, the reads with their cache, and what the  *)
(* command reports.  Several runs of one command follow each other, as a user *)
(* repeats a command that failed.  Every call, wait and sleep interleaves     *)
(* with the service's own steps, with other clients and with deadlines.       *)
EXTENDS Operations, Sequences

CONSTANTS Operation,  \* the operations of the catalog that may be executed
          MaxIds,     \* bound: how many resources a command names
          MaxRuns     \* bound: how often the command is executed

ASSUME WorkflowAssumption ==
  /\ Operation \subseteq DOMAIN Catalog
  /\ MaxIds \in Nat \ {0} /\ MaxRuns \in Nat \ {0}

VARIABLES cmd,        \* the command: its operation and its input
          pc,         \* where the execution of the command is
          step,       \* the workflow step
          todo,       \* the requests a binding has still to make, each a set of resources
          item,       \* the resources the current request is about
          token,      \* the client token of the current request
          id,         \* the id of a created resource
          dryRun,     \* the service has answered to a dry run
          cache,      \* the probe whose result the next step may reuse
          outcome,    \* how the command ended
          run,        \* how often the command was started
          minted,     \* how many client tokens were generated
          effects,    \* how often the current request took effect
          writes,     \* how many requests of this run were accepted
          view,       \* the accepted requests that the reported view knows of
          listed,     \* the accepted requests among the actions of the result
          lost        \* whether a call was made that is not reported

execVars   == <<step, todo, item, token, id, dryRun, cache>>
countVars  == <<run, minted, effects, writes>>
reportVars == <<view, listed, lost>>
vars == <<cmd, pc, execVars, outcome, countVars, reportVars, waiterVars, cloudVars>>

\* The first binding of an operation.
Writing(op) ==
  Catalog[op][CHOOSE k \in DOMAIN Catalog[op] :
                /\ Catalog[op][k].do = "binding"
                /\ \A j \in 1..(k - 1) : Catalog[op][j].do # "binding"]

Commands ==
  {c \in [op : Operation, ids : SUBSET Resources, dry : BOOLEAN, noWait : BOOLEAN, key : BOOLEAN] :
     LET write == Writing(c.op) IN
     /\ (c.ids = {}) <=> (write.api = "create")
     /\ Cardinality(c.ids) <= IF "many" \in write.marks THEN MaxIds ELSE 1
     /\ c.dry => "dry" \in write.marks
     /\ c.key => "token" \in write.marks}

NoCache == [probe |-> "none", ids |-> {}, at |-> 0]

TypeOK ==
  /\ CloudTypeOK /\ WaiterTypeOK
  /\ cmd \in Commands
  /\ pc \in {"ready", "item", "call", "backoff", "waiting", "reconciling", "done"}
  /\ step \in 1..(Len(Catalog[cmd.op]) + 1)
  /\ todo \subseteq SUBSET Resources /\ item \subseteq Resources
  /\ token \in Tokens
  /\ id \in Resources \cup {None}
  /\ dryRun \in BOOLEAN
  /\ cache.probe \in {"none", "attribute", "state", "list"}
  /\ cache.ids \subseteq Resources /\ cache.at \in 0..writes
  /\ outcome \in {"running", "ok", "unprepared", "refused", "unknown", "retryTimeout", "invalid",
                  "noID", "notFound"} \cup (Ends \ {"hit"})
  /\ run \in 1..MaxRuns
  /\ minted \in Nat /\ effects \in Nat /\ writes \in Nat
  /\ view \in -1..writes
  /\ listed \in 0..writes /\ lost \in BOOLEAN

Init ==
  /\ CloudInit /\ WaiterInit
  /\ cmd \in Commands
  /\ pc = "ready" /\ step = 1 /\ todo = {} /\ item = {} /\ token = NoToken
  /\ id = None /\ dryRun = FALSE /\ cache = NoCache /\ outcome = "running"
  /\ run = 1 /\ minted = 0 /\ effects = 0 /\ writes = 0
  /\ view = -1 /\ listed = 0 /\ lost = FALSE

Steps == Catalog[cmd.op]
Finished == step > Len(Steps)
Step == Steps[step]
Marked(mark) == mark \in Step.marks

\* currentResourceIDs: the created resource first, then those of the input.
CurrentIDs == IF id # None THEN {id} ELSE cmd.ids

\* The command ends with an error that carries the actions of the result.
EndWith(why) ==
  /\ pc' = "done" /\ outcome' = why
  /\ wait' = Idle /\ LeaveScope
  /\ UNCHANGED <<cmd, execVars, run, minted, view>>

\* The command ends with an error that carries no actions: those of the
\* result are dropped.
EndBare(why) ==
  /\ pc' = "done" /\ outcome' = why
  /\ listed' = 0 /\ lost' = (lost \/ writes' > 0)
  /\ LeaveScope
  /\ UNCHANGED <<cmd, execVars, run, minted, view, wait>>

\* The next request of a binding, or the next step of the workflow.
FinishRequest ==
  /\ pc' = IF todo = {} THEN "ready" ELSE "item"
  /\ step' = IF todo = {} THEN step + 1 ELSE step

\* The command waits for the resources given.
Wait(at, ids) == pc' = at /\ StartWait(Step.w, ids)

\* A step is left out: its condition, or the service answered to a dry run.
SkipStep ==
  /\ pc = "ready" /\ ~Finished
  /\ (Step.unlessNoWait /\ cmd.noWait) \/ (Step.do # "binding" /\ dryRun)
  /\ step' = step + 1
  /\ UNCHANGED <<cmd, pc, todo, item, token, id, dryRun, cache, outcome, countVars, reportVars,
                 waiterVars, cloudVars>>

Running(kind) ==
  /\ pc = "ready" /\ ~Finished /\ Step.do = kind
  /\ ~(Step.unlessNoWait /\ cmd.noWait)
  /\ kind # "binding" => ~dryRun

\* What a step depends on does not resolve for the input given: its condition,
\* the ids it is about, the items it runs for, or the fields it emits.
StepUnresolved ==
  /\ pc = "ready" /\ ~Finished
  /\ UNCHANGED <<effects, writes, cloudVars>>
  /\ EndBare("unprepared")

\* A binding keeps what an earlier read left.
MutBeginBinding ==
  /\ Running("binding")
  /\ todo' = IF Marked("each") THEN {{r} : r \in cmd.ids} ELSE {cmd.ids}
  /\ pc' = "item"
  /\ UNCHANGED <<cmd, step, item, token, id, dryRun, cache, outcome, countVars, reportVars,
                 waiterVars, cloudVars>>

\* The requests of a binding: each resource for itself, or all in one.
BeginBinding ==
  /\ Running("binding")
  /\ todo' = IF Marked("each") THEN {{r} : r \in cmd.ids} ELSE {cmd.ids}
  /\ pc' = "item" /\ cache' = NoCache
  /\ UNCHANGED <<cmd, step, item, token, id, dryRun, outcome, countVars, reportVars, waiterVars,
                 cloudVars>>

\* The key of the command is not used.
MutPrepareRequest ==
  /\ pc = "item"
  /\ \E ids \in todo : item' = ids /\ todo' = todo \ {ids}
  /\ token' = IF Marked("token") THEN minted + 1 ELSE NoToken
  /\ minted' = IF Marked("token") THEN minted + 1 ELSE minted
  /\ pc' = "call" /\ effects' = 0
  /\ UNCHANGED <<cmd, step, id, dryRun, cache, outcome, run, writes, reportVars, waiterVars, cloudVars>>

\* A request gets a client token of its own unless the command carries one.
PrepareRequest ==
  /\ pc = "item"
  /\ \E ids \in todo : item' = ids /\ todo' = todo \ {ids}
  /\ token' = IF ~Marked("token") THEN NoToken ELSE IF cmd.key THEN 0 ELSE minted + 1
  /\ minted' = IF Marked("token") /\ ~cmd.key THEN minted + 1 ELSE minted
  /\ pc' = "call" /\ effects' = 0
  /\ UNCHANGED <<cmd, step, id, dryRun, cache, outcome, run, writes, reportVars, waiterVars, cloudVars>>

\* A request is not made: an expression of it does not resolve, an input it
\* needs is missing, or a hook that completes it fails.
PrepareFails ==
  /\ pc = "item"
  /\ UNCHANGED <<effects, writes, cloudVars>>
  /\ EndBare("unprepared")

Calling == pc = "call" /\ late = 0

\* The service accepts a request and carries out the items of it in done.
Write(made, done) ==
  /\ Allowed(Step.api, item)
  /\ Effect(Step.api, item, token, made, done)
  /\ effects' = IF token \in honoured THEN effects ELSE effects + 1

Makes == IF Step.api = "create" THEN Resources ELSE {None}

\* The service answers to a dry run: the steps that read or wait are left out.
DryRunPasses ==
  /\ Calling /\ cmd.dry /\ Allowed(Step.api, item)
  /\ dryRun' = TRUE
  /\ FinishRequest
  /\ UNCHANGED <<cmd, todo, item, token, id, cache, outcome, countVars, reportVars, waiterVars,
                 cloudVars>>

\* The answer is not matched one to one with what was requested.
MutAccepted ==
  /\ Calling /\ ~cmd.dry
  /\ \E made \in Makes, done \in (IF Marked("items") THEN SUBSET item ELSE {item}) :
       Write(made, done) /\ id' = IF Marked("id") THEN made ELSE id
  /\ writes' = writes + 1 /\ listed' = listed + 1
  /\ IF Marked("waits") /\ ~cmd.noWait
     THEN Wait("waiting", IF id' # None THEN {id'} ELSE cmd.ids) /\ UNCHANGED <<step, late>>
     ELSE FinishRequest /\ LeaveScope /\ UNCHANGED wait
  /\ UNCHANGED <<cmd, todo, item, token, dryRun, cache, outcome, run, minted, view, lost>>

\* The request is carried out, and its answer lists every item as done.
Accepted ==
  /\ Calling /\ ~cmd.dry
  /\ \E made \in Makes : Write(made, item) /\ id' = IF Marked("id") THEN made ELSE id
  /\ writes' = writes + 1 /\ listed' = listed + 1
  /\ IF Marked("waits") /\ ~cmd.noWait
     THEN Wait("waiting", IF id' # None THEN {id'} ELSE cmd.ids) /\ UNCHANGED <<step, late>>
     ELSE FinishRequest /\ LeaveScope /\ UNCHANGED wait
  /\ UNCHANGED <<cmd, todo, item, token, dryRun, cache, outcome, run, minted, view, lost>>

\* The answer to a creation lacks the id.
AcceptedWithoutID ==
  /\ Calling /\ ~cmd.dry /\ Marked("id")
  /\ \E made \in Makes : Write(made, item)
  /\ writes' = writes + 1
  /\ EndBare("noID")

\* A batch whose answer misses an item, or reports one as failed.  The items
\* it reports as carried out are waited for before the command fails.
BatchInvalid ==
  /\ Calling /\ Marked("items")
  /\ \E done, told \in SUBSET item :
       /\ Write(None, done) /\ (done # item \/ told # item)
       /\ writes' = writes + 1 /\ listed' = listed + 1
       /\ IF done \cap told # {} /\ Marked("waits") /\ ~cmd.noWait
          THEN /\ Wait("reconciling", done \cap told)
               /\ UNCHANGED <<cmd, execVars, outcome, run, minted, view, late>>
          ELSE EndWith("invalid")
  /\ UNCHANGED lost

\* The service refuses for a reason that ends the command.
Refused ==
  /\ Calling
  /\ EndWith("refused")
  /\ UNCHANGED <<effects, writes, listed, lost, cloudVars>>

Retries == Marked("retry") /\ Cardinality(item) = 1

\* An answer that was lost is taken for a refusal, and the request repeated.
MutPostponed ==
  /\ Calling /\ Retries
  /\ \E made \in Makes : Write(made, item)
  /\ pc' = "backoff" /\ lost' = TRUE
  /\ UNCHANGED <<cmd, execVars, outcome, run, minted, writes, view, listed, waiterVars>>

\* The service is not ready for the request: the error is one the binding
\* lists.  The attempt is not reported: only a later one may be.
Postponed ==
  /\ Calling /\ Retries /\ NotReady(Step.api, item)
  /\ pc' = "backoff" /\ lost' = TRUE
  /\ UNCHANGED <<cmd, execVars, outcome, countVars, view, listed, waiterVars, cloudVars>>

\* The answer to a request is lost, and the request itself perhaps too.
AnswerLost ==
  /\ pc = "call"
  /\ \/ /\ ~cmd.dry
        /\ \E made \in Makes, done \in (IF Marked("items") THEN SUBSET item ELSE {item}) :
             Write(made, done)
        /\ writes' = writes + 1 /\ listed' = listed + 1
     \/ UNCHANGED <<effects, writes, listed, cloudVars>>
  /\ EndWith("unknown")
  /\ UNCHANGED lost

\* The timer of the retry fires, or the time of the retry is over.
Retry ==
  /\ pc = "backoff" /\ late = 0
  /\ pc' = "call"
  /\ UNCHANGED <<cmd, execVars, outcome, countVars, reportVars, waiterVars, cloudVars>>

RetryTimeout ==
  /\ pc = "backoff" /\ late > 0
  /\ EndWith("retryTimeout")
  /\ UNCHANGED <<effects, writes, listed, lost, cloudVars>>

BeginWait ==
  /\ Running("wait")
  /\ Wait("waiting", CurrentIDs)
  /\ UNCHANGED <<cmd, execVars, outcome, countVars, reportVars, late, cloudVars>>

DoWait ==
  /\ pc \in {"waiting", "reconciling"}
  /\ WaitStep
  /\ UNCHANGED <<cmd, pc, execVars, outcome, countVars, reportVars>>

\* A wait that ran out of time is taken for one that reached its target.
MutWaitHit ==
  /\ pc = "waiting" /\ wait.at \in {"hit", "timeout"}
  /\ cache' = [probe |-> wait.w.probe, ids |-> wait.ids, at |-> writes]
  /\ view' = writes
  /\ FinishRequest
  /\ wait' = Idle /\ LeaveScope
  /\ UNCHANGED <<cmd, todo, item, token, id, dryRun, outcome, countVars, listed, lost, cloudVars>>

\* A wait that reached its target leaves its last answer for the next step.
WaitHit ==
  /\ pc = "waiting" /\ wait.at = "hit"
  /\ cache' = [probe |-> wait.w.probe, ids |-> wait.ids, at |-> writes]
  /\ view' = writes
  /\ FinishRequest
  /\ wait' = Idle /\ LeaveScope
  /\ UNCHANGED <<cmd, todo, item, token, id, dryRun, outcome, countVars, listed, lost, cloudVars>>

\* The error of a wait replaces the actions of the result.
MutWaitFailed ==
  /\ pc = "waiting" /\ wait.at \in Ends \ {"hit"}
  /\ UNCHANGED <<effects, writes, cloudVars>>
  /\ listed' = 0 /\ lost' = TRUE
  /\ EndWith(wait.at)

WaitFailed ==
  /\ pc = "waiting" /\ wait.at \in Ends \ {"hit"}
  /\ EndWith(wait.at)
  /\ UNCHANGED <<effects, writes, listed, lost, cloudVars>>

\* Whatever the wait shows, the error of the batch is the command's.
Reconciled ==
  /\ pc = "reconciling" /\ wait.at \in Ends
  /\ EndWith("invalid")
  /\ UNCHANGED <<effects, writes, listed, lost, cloudVars>>

\* A read of the resources, or the answer a step before it left.
ProbeStep ==
  /\ Running("probe")
  /\ LET cached == cache.probe = Step.w.probe /\ cache.ids = CurrentIDs IN
       /\ cached \/ late = 0
       /\ view' = IF cached THEN cache.at ELSE writes
       /\ cache' = [probe |-> Step.w.probe, ids |-> CurrentIDs, at |-> view']
  /\ step' = step + 1
  /\ UNCHANGED <<cmd, pc, todo, item, token, id, dryRun, outcome, countVars, listed, lost,
                 waiterVars, cloudVars>>

ProbeStepFails ==
  /\ Running("probe")
  /\ ~(cache.probe = Step.w.probe /\ cache.ids = CurrentIDs)
  /\ \/ Seen(CurrentIDs) = {} /\ EndWith("notFound")
     \/ EndWith("error")
  /\ UNCHANGED <<effects, writes, listed, lost, cloudVars>>

EmitStep ==
  /\ Running("emit")
  /\ step' = step + 1
  /\ UNCHANGED <<cmd, pc, todo, item, token, id, dryRun, cache, outcome, countVars, reportVars,
                 waiterVars, cloudVars>>

Finish ==
  /\ pc = "ready" /\ Finished
  /\ pc' = "done" /\ outcome' = "ok"
  /\ UNCHANGED <<cmd, execVars, countVars, reportVars, waiterVars, cloudVars>>

\* The user repeats a command that failed.
Rerun ==
  /\ pc = "done" /\ outcome # "ok" /\ run < MaxRuns
  /\ run' = run + 1 /\ late' = 0
  /\ pc' = "ready" /\ step' = 1 /\ todo' = {} /\ item' = {} /\ token' = NoToken
  /\ id' = None /\ dryRun' = FALSE /\ cache' = NoCache /\ outcome' = "running"
  /\ effects' = 0 /\ writes' = 0 /\ view' = -1 /\ listed' = 0 /\ lost' = FALSE
  /\ UNCHANGED <<cmd, minted, wait, cloudVars>>

\* A retry has no time of its own.
MutExpire ==
  /\ late = 0
  /\ Waiting
  /\ late' = 1
  /\ UNCHANGED <<cmd, pc, execVars, outcome, countVars, reportVars, wait, cloudVars>>

\* The time of a wait or of a retry runs out.
Expire ==
  /\ late = 0
  /\ Waiting \/ (pc \in {"call", "backoff"} /\ Retries)
  /\ late' = 1
  /\ UNCHANGED <<cmd, pc, execVars, outcome, countVars, reportVars, wait, cloudVars>>

\* The time limit of the command, or its user, ends it.
Cancel ==
  /\ pc # "done" /\ late < 2
  /\ late' = 2
  /\ UNCHANGED <<cmd, pc, execVars, outcome, countVars, reportVars, wait, cloudVars>>

Service == CloudNext /\ UNCHANGED <<cmd, pc, execVars, outcome, countVars, reportVars, waiterVars>>

Execute ==
  \/ SkipStep \/ StepUnresolved \/ BeginBinding \/ PrepareRequest \/ PrepareFails
  \/ DryRunPasses \/ Accepted \/ AcceptedWithoutID \/ BatchInvalid \/ Refused \/ Postponed
  \/ AnswerLost \/ Retry \/ RetryTimeout
  \/ BeginWait \/ DoWait \/ WaitHit \/ WaitFailed \/ Reconciled
  \/ ProbeStep \/ ProbeStepFails \/ EmitStep \/ Finish

Next == Execute \/ Rerun \/ Expire \/ Cancel \/ Service

Spec == Init /\ [][Next]_vars

\* A call of the service returns, timers fire, and the executor goes on: it
\* blocks on nothing else.
LiveSpec == Spec /\ WF_vars(Execute) /\ WF_vars(Expire)

-----------------------------------------------------------------------------

Ended == pc = "done"

\* A request is carried out at most once, whatever is retried: a retry follows
\* only an answer that says nothing was done (callTransition).
AtMostOnce == effects <= 1

\* However often a command that failed is repeated, it creates one resource
\* when it carries a key, and no more than one each time when it does not
\* (transitionToken).
NoDuplicates ==
  Writing(cmd.op).api = "create" =>
    Cardinality({r \in Resources : maker[r] # None}) <= IF cmd.key THEN 1 ELSE run

\* Requests for single items that share the key of their command.
SharedKey == cmd.key /\ "each" \in Writing(cmd.op).marks /\ Cardinality(cmd.ids) > 1

Succeeded == Ended /\ outcome = "ok" /\ ~cmd.dry /\ others = 0

\* A command that reports success has reached what it waited for, as long as
\* nobody else interferes (runSingleBinding and its wait).  Two kinds of command
\* are left to StartsAll and AssignsAll, which do not hold.
SuccessIsReached ==
  /\ Succeeded /\ ~cmd.noWait /\ Writing(cmd.op).api = "create" => status[id] = "running"
  /\ Succeeded /\ ~cmd.noWait /\ Writing(cmd.op).api = "delete" => Seen(cmd.ids) = {}
  /\ Succeeded /\ ~cmd.noWait /\ Writing(cmd.op).api = "start" /\ Cardinality(cmd.ids) = 1 =>
       \A r \in cmd.ids : status[r] = "running"
  /\ Succeeded /\ ~cmd.noWait /\ Writing(cmd.op).api = "move" => cmd.ids \subseteq shown

\* A batch, or a series of requests, that reports success has carried out
\* every item, waited for or not (checkBindingResponse, runBinding).
AllItemsDone ==
  Succeeded /\ Writing(cmd.op).api \in {"move", "assign"} /\ ~SharedKey =>
    \A r \in cmd.ids : status[r] = "running"

\* The ends whose error says nothing of what was done: an expression or an
\* input of a later step, item or request is rejected after earlier requests
\* were accepted, or a creation is answered without an id.
Bare == {"unprepared", "noID"}

\* A request that was accepted is among the actions of the result, or of the
\* error when a call, a wait or a read failed.  The bare ends are the exception
\* (executeOperationWorkflow drops the result): they list none of the requests
\* that were accepted before.
AcceptedReported == Ended => listed = IF outcome \in Bare THEN 0 ELSE writes

\* A command that waits shows the resource as it was read after the last
\* accepted request, whether the read was made for that or was a wait's
\* (workflowProbe and what a binding leaves as cached).
FreshView == Ended /\ outcome = "ok" /\ ~cmd.noWait /\ view # -1 => view = writes

\* Retries and repeated commands have one effect (callTransition,
\* transitionToken); the result of a command, and the error of a call, a wait
\* or a read, tell what was done and show what is there (actionsFromError,
\* workflowProbe); and success means what it says (checkBindingResponse,
\* runSingleBinding).
OneEffect == AtMostOnce /\ NoDuplicates
ResultTells == AcceptedReported /\ FreshView
SuccessIsReal == TypeOK /\ SuccessIsReached /\ AllItemsDone

\* Every command ends (the bounds of its waits and retries).
CommandEnds == pc # "done" ~> pc = "done"

\* What the documentation says of the actions of a result: each call is among
\* them (website/docs/reference/errors.md).  It does not hold of attempts that a
\* retry gave up, nor of the requests accepted before a bare end.
CallsReported == Ended => ~lost

\* What the documentation says of starting several instances: the command
\* waits for them to run (docs/design/ecs/instance.md).  It does not hold: the
\* waiter judges the first one of an answer.
StartsAll ==
  Succeeded /\ ~cmd.noWait /\ Writing(cmd.op).api = "start" => \A r \in cmd.ids : status[r] = "running"

\* What the documentation says of several addresses in one command: all of
\* them are assigned (docs/design/lingjun/lni.md).  It does not hold with an
\* explicit key, which all requests of the command share.
AssignsAll ==
  Succeeded /\ Writing(cmd.op).api = "assign" => \A r \in cmd.ids : status[r] = "running"
=============================================================================
