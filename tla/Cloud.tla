------------------------------- MODULE Cloud -------------------------------
(* The cloud service as the commands of ecctl use it.  Nothing of it is in   *)
(* the repository: it stands for what the code assumes of an OpenAPI.  A     *)
(* resource goes through a life cycle of its own; reads may lag behind a     *)
(* creation or a move; a write is accepted or refused as a whole, except a   *)
(* batch, which answers for every item; a client token the service has       *)
(* honoured has no second effect.                                            *)
EXTENDS Integers, FiniteSets

CONSTANTS Resources,  \* the resources a service can hold
          None,       \* no resource
          MaxOthers   \* bound: how often other clients interfere

NoToken == -1

\* The client tokens of writes, and what stands for the lack of one.
Tokens == Nat \cup {NoToken}

ASSUME CloudAssumption ==
  /\ IsFiniteSet(Resources) /\ None \notin Resources \cup Tokens
  /\ MaxOthers \in Nat

VARIABLES status,     \* the state of each resource
          shown,      \* the resources that reads already return
          maker,      \* the client token that created a resource, or None
          honoured,   \* the client tokens already honoured
          others       \* how often other clients have interfered

cloudVars == <<status, shown, maker, honoured, others>>

Statuses == {"none", "stopped", "pending", "running", "failed", "deleting"}

CloudTypeOK ==
  /\ status \in [Resources -> Statuses]
  /\ shown \subseteq Resources
  /\ maker \in [Resources -> Tokens \cup {None}]
  /\ honoured \subseteq Nat
  /\ others \in 0..MaxOthers

\* Resources that exist before the command are settled or still being made.
CloudInit ==
  /\ status \in [Resources -> {"none", "stopped", "pending", "running"}]
  /\ shown = {r \in Resources : status[r] # "none"}
  /\ maker = [r \in Resources |-> None]
  /\ honoured = {}
  /\ others = 0

\* What a read of some resources returns.
Seen(ids) == {r \in ids : r \in shown /\ status[r] # "none"}

\* The service is not ready for the write yet and says so with an error code
\* that the specification of the binding lists.
NotReady(api, ids) ==
  api \in {"update", "delete"} /\ \E r \in ids : status[r] = "pending"

\* The service may refuse anything else for reasons of its own (quota,
\* permission), and refuses what the state of a resource does not allow.
Allowed(api, ids) ==
  /\ ~NotReady(api, ids)
  /\ api \in {"start", "move"} => \A r \in ids : status[r] = "stopped"
  /\ api = "update" => \A r \in ids : status[r] \in {"stopped", "running"}
  /\ api = "delete" => \A r \in ids : status[r] \in {"stopped", "running", "failed"}
  /\ api = "assign" => \A r \in ids : status[r] = "none"

\* The effect of an accepted write.  made is the resource a creation returns,
\* done the items of a batch that were carried out.
Effect(api, ids, token, made, done) ==
  /\ UNCHANGED others
  /\ honoured' = IF token = NoToken THEN honoured ELSE honoured \cup {token}
  /\ IF token \in honoured
     THEN /\ UNCHANGED <<status, shown, maker>>
          /\ done = ids
          /\ IF api = "create" THEN maker[made] = token ELSE made = None
     ELSE /\ CASE api = "create" ->
                    /\ made # None /\ status[made] = "none" /\ maker[made] = None
                    /\ done = ids
                    /\ status' = [status EXCEPT ![made] = "pending"]
                    /\ maker' = [maker EXCEPT ![made] = token]
                    /\ UNCHANGED shown
               [] api = "move" ->
                    /\ made = None
                    /\ status' = [r \in Resources |-> IF r \in done THEN "running" ELSE status[r]]
                    /\ shown' = shown \ done
                    /\ UNCHANGED maker
               [] OTHER ->
                    /\ made = None /\ done = ids
                    /\ status' = [r \in Resources |-> IF r \notin ids THEN status[r]
                                    ELSE [start |-> "pending", assign |-> "running",
                                          delete |-> "deleting", update |-> status[r]][api]]
                    /\ shown' = IF api = "assign" THEN shown \cup ids ELSE shown
                    /\ UNCHANGED maker

\* A resource settles: it becomes ready or fails, or it is gone.
Settle(r) ==
  /\ \/ status[r] = "pending" /\ \E s \in {"running", "failed"} : status' = [status EXCEPT ![r] = s]
     \/ status[r] = "deleting" /\ status' = [status EXCEPT ![r] = "none"]
  /\ UNCHANGED <<shown, maker, honoured, others>>

\* A read starts to return a resource.
Show(r) ==
  /\ status[r] # "none" /\ r \notin shown
  /\ shown' = shown \cup {r}
  /\ UNCHANGED <<status, maker, honoured, others>>

\* Another client stops or deletes a resource.
Interfere(r) ==
  /\ others < MaxOthers /\ status[r] = "running"
  /\ \E s \in {"stopped", "deleting"} : status' = [status EXCEPT ![r] = s]
  /\ others' = others + 1
  /\ UNCHANGED <<shown, maker, honoured>>

CloudNext == \E r \in Resources : Settle(r) \/ Show(r) \/ Interfere(r)
=============================================================================
