------------------------------- MODULE Domain -------------------------------
(* The sets of things the controller's modules are about. *)
CONSTANTS
  Apps,         \* names of ApplicationConfigurations
  Tmpls,        \* ROS templates, one for each valid specification
  BadSpec,      \* a specification NewTemplate rejects
  WithOutputs,  \* the templates that have Outputs
  Ids,          \* stack ids the ROS service can hand out (bound)
  Watchers,     \* slots for goroutines waitStackDoneAndSaveOutputs (bound)
  Worker,       \* the goroutine that recovers, then runs the handlers
  None          \* "no such thing": an absent key, a nil stack, no app

ASSUME DomainAssumption ==
  /\ WithOutputs \subseteq Tmpls
  /\ BadSpec \notin Tmpls
  /\ Worker \notin Watchers
  /\ None \notin Tmpls \cup Ids \cup Apps

Specs == Tmpls \cup {BadSpec}
Procs == Watchers \cup {Worker}
=============================================================================
