------------------------------ MODULE LifeCycle ------------------------------
(***************************************************************************)
(* What the controller promises of an application from its creation to its *)
(* end, in the terms of a user who reads its record: operations on its     *)
(* stack (create, update, delete) begin in one step, never two at a time,  *)
(* and end in one step with the outcome the service has come to; the       *)
(* object cannot go before the stack has.  RosController, where each of    *)
(* these steps is spread over Kubernetes and ROS calls of several          *)
(* goroutines, is shown to implement this module (LifeCycleMapping).       *)
(***************************************************************************)
CONSTANTS Apps, Tmpls, Ids, None

VARIABLES
  object,   \* object[a]: "held" once it carries the finalizer
  book,     \* book[a]: the record: stack id, template and phase
  stacks    \* stacks[i]: stage, application, and the template it will have,
            \* or has, as long as no operation on it has failed

lifeVars == <<object, book, stacks>>

NoBook == [id |-> None, tmpl |-> None, phase |-> None]
Unmade == [stage |-> "none", app |-> None, tmpl |-> None]

Init ==
  /\ object = [a \in Apps |-> "absent"]
  /\ book = [a \in Apps |-> NoBook]
  /\ stacks = [i \in Ids |-> Unmade]

Object(a, o) == object' = [object EXCEPT ![a] = o]
Book(a, id, tmpl, phase) ==
  book' = [book EXCEPT ![a] = [id |-> id, tmpl |-> tmpl, phase |-> phase]]
Stack(i, stage, a, tmpl) ==
  stacks' = [stacks EXCEPT ![i] = [stage |-> stage, app |-> a, tmpl |-> tmpl]]
-----------------------------------------------------------------------------
UserCreates(a) ==
  /\ object[a] = "absent" /\ Object(a, "live")
  /\ UNCHANGED <<book, stacks>>

UserDeletes(a) ==
  /\ \/ object[a] = "live" /\ Object(a, "gone")
     \/ object[a] = "held" /\ Object(a, "deleting")
  /\ UNCHANGED <<book, stacks>>

(* The finalizer is set, before anything is created for the application ... *)
Hold(a) ==
  /\ object[a] = "live" /\ Object(a, "held")
  /\ UNCHANGED <<book, stacks>>

(* ... and taken away when nothing is left of it. *)
Release(a) ==
  /\ object[a] = "deleting" /\ book[a].id = None
  /\ Object(a, "gone")
  /\ UNCHANGED <<book, stacks>>
-----------------------------------------------------------------------------
(* No operation on the stack of a is under way. *)
AtRest(a) == book[a].phase # "Progressing"

Holds(a) == object[a] \in {"held", "deleting"}

CreateStack(a, i, t) ==
  /\ AtRest(a) /\ Holds(a) /\ book[a].id = None /\ stacks[i].stage = "none"
  /\ Book(a, i, t, "Progressing") /\ Stack(i, "busy", a, t)
  /\ UNCHANGED object

(* The stack in the record, when the last operation on it has ended. *)
UpdateStack(a, t) ==
  LET i == book[a].id IN
  /\ AtRest(a) /\ Holds(a) /\ i \in Ids /\ stacks[i].stage \in {"good", "bad"}
  /\ Book(a, i, t, "Progressing") /\ Stack(i, "busy", a, t)
  /\ UNCHANGED object

DeleteStack(a) ==
  LET i == book[a].id IN
  /\ AtRest(a) /\ object[a] = "deleting" /\ i \in Ids /\ stacks[i].stage \in {"good", "bad"}
  /\ Book(a, i, book[a].tmpl, "Progressing") /\ Stack(i, "leaving", a, None)
  /\ UNCHANGED object

(* A request is refused, or the specification makes no template. *)
Refuse(a) ==
  /\ AtRest(a)
  /\ Book(a, book[a].id, book[a].tmpl, "Failed")
  /\ UNCHANGED <<object, stacks>>
-----------------------------------------------------------------------------
(* The service ends an operation; one that fails may leave any template. *)
Settle(i) ==
  LET s == stacks[i] IN
  /\ \/ s.stage = "busy" /\ Stack(i, "good", s.app, s.tmpl)
     \/ s.stage = "busy" /\ Stack(i, "bad", s.app, None)
     \/ s.stage = "leaving" /\ Stack(i, "gone", s.app, None)
  /\ UNCHANGED <<object, book>>

(* The end of the operation under way is reported. *)
Ends(a, stage, phase) ==
  LET i == book[a].id IN
  /\ ~AtRest(a) /\ i \in Ids /\ stacks[i].stage = stage
  /\ Book(a, i, book[a].tmpl, phase)
  /\ UNCHANGED <<object, stacks>>

(* Ready: the template in the record is the one that is deployed. *)
Succeed(a) ==
  /\ book[a].id \in Ids /\ stacks[book[a].id].tmpl = book[a].tmpl
  /\ Ends(a, "good", "Ready")

Fail(a) == Ends(a, "bad", "Failed")

(* Nothing is remembered of a stack that has been deleted on request. *)
Forget(a) ==
  /\ object[a] = "deleting"
  /\ book[a].id \in Ids /\ stacks[book[a].id].stage = "gone"
  /\ book' = [book EXCEPT ![a] = NoBook]
  /\ UNCHANGED <<object, stacks>>
-----------------------------------------------------------------------------
Next ==
  \/ \E a \in Apps :
       \/ UserCreates(a) \/ UserDeletes(a) \/ Hold(a) \/ Release(a)
       \/ \E t \in Tmpls : UpdateStack(a, t) \/ \E i \in Ids : CreateStack(a, i, t)
       \/ DeleteStack(a) \/ Refuse(a)
       \/ Succeed(a) \/ Fail(a) \/ Forget(a)
  \/ \E i \in Ids : Settle(i)

Spec == Init /\ [][Next]_lifeVars

(* What a user may rely on: a stack that exists is the one in its          *)
(* application's record, and work on it shows as Progressing; an object is *)
(* held as long as its record names a stack; Ready means deployed.         *)
Reliable ==
  /\ \A i \in Ids : stacks[i].stage \notin {"none", "gone"} =>
       LET a == stacks[i].app IN
       /\ a \in Apps /\ book[a].id = i
       /\ stacks[i].stage \in {"busy", "leaving"} => book[a].phase = "Progressing"
  /\ \A a \in Apps : book[a].id # None => Holds(a)
  /\ \A a \in Apps : book[a].phase = "Ready" /\ book[a].id # None =>
       stacks[book[a].id] = [stage |-> "good", app |-> a, tmpl |-> book[a].tmpl]
=============================================================================
