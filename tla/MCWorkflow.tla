----------------------------- MODULE MCWorkflow -----------------------------
(* Two resources, two attempts of a wait, two executions of a command.       *)
EXTENDS Workflow

CONSTANTS r1, r2

MCResources == {r1, r2}

\* The commands on one resource.
MCSingle ==
  {"vpc_create", "vpc_update", "vpc_delete", "instance_create", "image_copy", "cache_create",
   "cluster_update"}

\* The commands on several resources.
MCMany == {"instance_start", "instance_delete", "group_move", "interface_update"}

MCAll == MCSingle \cup MCMany

MCStart == {"instance_start"}
MCAssign == {"interface_update"}
MCUpdate == {"vpc_update"}
MCNone == -2
=============================================================================
