----------------------------- MODULE Operations -----------------------------
(* Operations of resource specifications under specs/, reduced to what their *)
(* execution depends on: which write each binding makes, whether it carries a *)
(* client token, is retried, runs for each item, is checked item by item,     *)
(* yields an id, what it waits for, and the reads that follow.                *)
EXTENDS Waiter

Binding(api, w, marks) ==
  [do |-> "binding", api |-> api, w |-> w, marks |-> marks, unlessNoWait |-> FALSE]
WaitFor(w) == [do |-> "wait", api |-> "none", w |-> w, marks |-> {}, unlessNoWait |-> TRUE]
ProbeFirst(name) ==
  [do |-> "probe", api |-> "none", w |-> [NoWaiter EXCEPT !.probe = name], marks |-> {},
   unlessNoWait |-> FALSE]
Probe(name) == [ProbeFirst(name) EXCEPT !.unlessNoWait = TRUE]
Emit == [do |-> "emit", api |-> "none", w |-> NoWaiter, marks |-> {}, unlessNoWait |-> FALSE]

Ready(probe) == [NoWaiter EXCEPT !.probe = probe]
ReadyOrFailed(probe) == [NoWaiter EXCEPT !.probe = probe, !.fails = TRUE]
\* The service may not show the resource at first.
ReadyLater(probe) == [ReadyOrFailed(probe) EXCEPT !.lag = TRUE]
Gone(probe) == [NoWaiter EXCEPT !.by = "absent", !.probe = probe]
Visible == [NoWaiter EXCEPT !.by = "capture"]

VpcCreate ==
  <<Binding("create", Ready("attribute"), {"token", "id", "dry", "waits"}), Probe("attribute"), Emit>>
VpcUpdate == <<Binding("update", Ready("attribute"), {"retry", "waits"}), Probe("attribute")>>
VpcDelete == <<Binding("delete", Gone("list"), {"token", "dry", "waits"}), Emit>>
InstanceCreate ==
  <<Binding("create", Ready("state"), {"token", "id", "dry", "waits"}), Probe("state"), Emit>>
InstanceDelete == <<Binding("delete", Gone("state"), {"retry", "many", "waits"}), Emit>>
InstanceStart == <<Binding("start", Ready("state"), {"many", "waits"}), Probe("state")>>
ImageCopy == <<Binding("create", NoWaiter, {"token", "id"}), WaitFor(ReadyOrFailed("state")), Emit>>
CacheCreate == <<Binding("create", ReadyLater("state"), {"id", "waits"})>>
ClusterUpdate ==
  <<Binding("update", ReadyOrFailed("attribute"), {"waits"}), Binding("update", NoWaiter, {}),
    Probe("attribute")>>
GroupMove == <<Binding("move", Visible, {"items", "many", "waits"})>>
InterfaceUpdate ==
  <<ProbeFirst("attribute"), Binding("assign", NoWaiter, {"token", "each", "many"}),
    Probe("attribute"), Emit>>

Catalog ==
  [vpc_create |-> VpcCreate, vpc_update |-> VpcUpdate, vpc_delete |-> VpcDelete,
   instance_create |-> InstanceCreate, instance_delete |-> InstanceDelete,
   instance_start |-> InstanceStart, image_copy |-> ImageCopy,
   cache_create |-> CacheCreate, cluster_update |-> ClusterUpdate, group_move |-> GroupMove,
   interface_update |-> InterfaceUpdate]
=============================================================================
