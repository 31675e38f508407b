--------------------------- MODULE ConfigRegister --------------------------
(***************************************************************************)
(* What the configuration store promises: the file only changes by a whole *)
(* recorded mutation, merged into the file as it is at that moment, once   *)
(* per command.                                                            *)
(***************************************************************************)
EXTENDS ConfigData

VARIABLES
  file,      \* the configuration file
  asked,     \* the mutation each command recorded when it loaded the file
  committed  \* the commands whose mutation is merged

vars == <<file, asked, committed>>

Init ==
  /\ file \in {NoFile, Fresh}
  /\ asked = [c \in Commands |-> None]
  /\ committed = {}

Ask(c) ==
  /\ asked[c] = None
  /\ \E r \in Requests : asked' = [asked EXCEPT ![c] = Recorded(file, r, c)]
  /\ UNCHANGED <<file, committed>>

Commit(c) ==
  /\ asked[c] # None /\ c \notin committed
  /\ Mergeable(file, asked[c])
  /\ file' = Merged(file, asked[c])
  /\ committed' = committed \cup {c}
  /\ UNCHANGED asked

Edit ==
  /\ file' \in Edited(file)
  /\ UNCHANGED <<asked, committed>>

Next == Edit \/ \E c \in Commands : Ask(c) \/ Commit(c)

Spec == Init /\ [][Next]_vars
=============================================================================
