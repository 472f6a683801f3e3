-------------------------- MODULE LifeCycleMapping --------------------------
(***************************************************************************)
(* How the state of RosController is read as one of LifeCycle.  An         *)
(* operation begins with its request to ROS: until the worker has written  *)
(* "Progressing" (MidFlight), what it holds counts as recorded.  It ends   *)
(* with the write of the outcome; what follows (the list, the condition,   *)
(* the outputs before it) does not show.                                   *)
(***************************************************************************)
EXTENDS ControllerInvariant

LifeObject(c) == IF c.state = "live" /\ c.fin THEN "held" ELSE c.state

LifeBook(a) ==
  LET l == proc[Worker] IN
  IF MidFlight(Worker, a)
  THEN [id |-> l.id, tmpl |-> IF Holding(l) THEN l.want ELSE rec[a].tmpl,
        phase |-> "Progressing"]
  ELSE [id |-> rec[a].sid, tmpl |-> rec[a].tmpl, phase |-> rec[a].status]

Stage(status) ==
  CASE status = "ABSENT"             -> "none"
    [] status = "DELETE_COMPLETE"    -> "gone"
    [] status = "DELETE_IN_PROGRESS" -> "leaving"
    [] status \in Deployed           -> "good"
    [] status \in Unsuccessful       -> "bad"
    [] OTHER                         -> "busy"

LifeStack(s) ==
  [stage |-> Stage(s.status), app |-> s.app,
   tmpl |-> IF Stage(s.status) \in {"busy", "good"} THEN s.tmpl ELSE None]

objectBar == [a \in Apps |-> LifeObject(conf[a])]
bookBar   == [a \in Apps |-> LifeBook(a)]
stacksBar == [i \in Ids |-> LifeStack(stack[i])]

Life == INSTANCE LifeCycle WITH object <- objectBar, book <- bookBar, stacks <- stacksBar

(* Every step of the controller, its users and ROS begins an operation on  *)
(* the stack of one application, ends one, or does not show: the requests  *)
(* of appconf.go and the reports of waitStackDoneAndSaveOutputs interleave *)
(* as if each operation were begun and ended in one step.                  *)
ImplementsLifeCycle == Life!Spec

(* What that gives a user. *)
LifeIsReliable == Life!Reliable
=============================================================================
