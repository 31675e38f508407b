------------------------------- MODULE Waiter -------------------------------
(* One wait of a command: pkg/waiter/waiter.go with the probe function that   *)
(* pkg/engine/engine.go gives it.  The service is probed until the resources  *)
(* are in the target state, are in a failure state, the attempts are used up  *)
(* or the context is done.                                                    *)
EXTENDS Cloud

CONSTANT MaxAttempts  \* timeout / interval + 1, the attempts of a wait

ASSUME WaiterAssumption == MaxAttempts \in Nat \ {0}

VARIABLES wait,       \* the wait in progress
          late        \* 1: the time of the wait or of the retry is over, 2: that of the command

waiterVars == <<wait, late>>

\* A waiter of a specification: how the probe's answer is judged, the probe,
\* whether failure states are configured and whether NotFound is awaited.
Waiters == [by : {"status", "absent", "capture"}, probe : {"attribute", "state", "list"},
            fails : BOOLEAN, lag : BOOLEAN]

NoWaiter == [by |-> "status", probe |-> "list", fails |-> FALSE, lag |-> FALSE]

Ends == {"hit", "failure", "timeout", "error"}

WaiterTypeOK ==
  /\ wait \in [at : {"idle", "probe", "sleep"} \cup Ends, w : Waiters,
               ids : SUBSET Resources, n : 0..MaxAttempts]
  /\ late \in 0..2

Idle == [at |-> "idle", w |-> NoWaiter, ids |-> {}, n |-> 0]

WaiterInit == wait = Idle /\ late = 0

StartWait(w, ids) == wait' = [at |-> "probe", w |-> w, ids |-> ids, n |-> 1]

\* How the answer is judged.  Of several resources the first one in the
\* order of the answer decides, and that order is the service's.
Judged(w, ids) ==
  CASE w.by = "status" ->
         IF Seen(ids) = {} THEN {"pending"}
         ELSE {IF status[r] = "running" THEN "hit"
               ELSE IF status[r] = "failed" /\ w.fails THEN "failure" ELSE "pending" : r \in Seen(ids)}
    [] w.by = "absent" -> {IF Seen(ids) = {} THEN "hit" ELSE "pending"}
    [] w.by = "capture" ->
         {IF ids # {} /\ \A r \in ids : r \in Seen(ids) /\ status[r] = "running" THEN "hit" ELSE "pending"}

\* The attempts are not counted.
MutObserve(verdict) ==
  /\ wait' = [wait EXCEPT !.at = IF verdict # "pending" THEN verdict ELSE "sleep"]
  /\ UNCHANGED <<late, cloudVars>>

\* After a probe that does not decide, the next attempt or the end.
Observe(verdict) ==
  /\ wait' = [wait EXCEPT !.at = IF verdict # "pending" THEN verdict
                                 ELSE IF wait.n < MaxAttempts THEN "sleep" ELSE "timeout"]
  /\ UNCHANGED <<late, cloudVars>>

\* An answer that comes after its deadline is one that came before it, so none
\* is judged late.
ProbeAnswers ==
  /\ wait.at = "probe" /\ late = 0
  /\ \E verdict \in Judged(wait.w, wait.ids) : Observe(verdict)

\* The probed API reports an absent resource as an error.
ProbeNotFound ==
  /\ wait.at = "probe" /\ late = 0 /\ Seen(wait.ids) = {}
  /\ Observe(IF wait.w.by = "absent" THEN "hit" ELSE IF wait.w.lag THEN "pending" ELSE "error")

ProbeFails ==
  /\ wait.at = "probe" /\ late = 0
  /\ \E retryable \in BOOLEAN :
       Observe(IF retryable /\ wait.n < MaxAttempts THEN "pending" ELSE "error")

Interval ==
  /\ wait.at = "sleep" /\ late = 0
  /\ wait' = [wait EXCEPT !.at = "probe", !.n = wait.n + 1]
  /\ UNCHANGED <<late, cloudVars>>

\* A probe cut off reports an error of its own.
ContextDone ==
  /\ wait.at \in {"probe", "sleep"} /\ late > 0
  /\ \E end \in {"timeout"} \cup (IF wait.at = "probe" THEN {"error"} ELSE {}) :
       wait' = [wait EXCEPT !.at = end]
  /\ UNCHANGED <<late, cloudVars>>

WaitStep == ProbeAnswers \/ ProbeNotFound \/ ProbeFails \/ Interval \/ ContextDone

Waiting == wait.at \in {"probe", "sleep"}

\* When a scope with a time limit of its own ends, only the command's remains.
LeaveScope == late' = IF late = 1 THEN 0 ELSE late

=============================================================================
