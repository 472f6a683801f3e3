----------------------------- MODULE RosService -----------------------------
(***************************************************************************)
(* The ROS service as pkg/ros/stack.go uses it: stacks with the statuses   *)
(* of stack.go:35-55, changed by CreateStack, UpdateStack and DeleteStack  *)
(* and moving on by themselves.  The service is external; the statuses,    *)
(* their classification and the errors told apart are the code's.          *)
(***************************************************************************)
EXTENDS Domain

CONSTANTS
  Moves,      \* the status changes the service (or its console) may make
  MayRefuse   \* the requests it may refuse: "create", "update", "delete"

VARIABLES
  stack,      \* stack[i]: status, owner, template and the one before it
  accepted    \* history: the templates the service accepted for stack i

rosVars == <<stack, accepted>>

InProgress == {"CREATE_IN_PROGRESS", "UPDATE_IN_PROGRESS",
  "DELETE_IN_PROGRESS", "CREATE_ROLLBACK_IN_PROGRESS",
  "ROLLBACK_IN_PROGRESS", "CHECK_IN_PROGRESS", "REVIEW_IN_PROGRESS"}

(* Variant: the cases for rolled back stacks are missing. *)
Unsuccessful_NoRollback == {"CREATE_FAILED", "UPDATE_FAILED", "DELETE_FAILED",
  "CHECK_FAILED"}

(* Stack.WaitUntilDone returns success, or failure, for these statuses and *)
(* keeps polling for every other one.                                      *)
Succeeded == {"CREATE_COMPLETE", "UPDATE_COMPLETE", "DELETE_COMPLETE",
  "CHECK_COMPLETE"}
Unsuccessful == {"CREATE_FAILED", "UPDATE_FAILED", "DELETE_FAILED",
  "CHECK_FAILED", "CREATE_ROLLBACK_FAILED", "CREATE_ROLLBACK_COMPLETE",
  "ROLLBACK_FAILED", "ROLLBACK_COMPLETE"}
Settled == Succeeded \cup Unsuccessful

(* The statuses whose outputs waitStackDoneAndSaveOutputs saves. *)
Deployed == {"CREATE_COMPLETE", "UPDATE_COMPLETE", "CHECK_COMPLETE"}

(* Stack.IsInDeleteStatus *)
InDelete == {"DELETE_IN_PROGRESS", "DELETE_FAILED", "DELETE_COMPLETE"}

Statuses == InProgress \cup Settled \cup {"ABSENT"}

(* Everything the service does on its own, and what an operator may do at  *)
(* its console: check a stack, or delete it behind the controller's back.  *)
ServiceMoves == {
  <<"CREATE_IN_PROGRESS", "CREATE_COMPLETE">>,
  <<"CREATE_IN_PROGRESS", "CREATE_FAILED">>,
  <<"CREATE_IN_PROGRESS", "CREATE_ROLLBACK_IN_PROGRESS">>,
  <<"CREATE_ROLLBACK_IN_PROGRESS", "CREATE_ROLLBACK_COMPLETE">>,
  <<"CREATE_ROLLBACK_IN_PROGRESS", "CREATE_ROLLBACK_FAILED">>,
  <<"UPDATE_IN_PROGRESS", "UPDATE_COMPLETE">>,
  <<"UPDATE_IN_PROGRESS", "UPDATE_FAILED">>,
  <<"UPDATE_IN_PROGRESS", "ROLLBACK_IN_PROGRESS">>,
  <<"ROLLBACK_IN_PROGRESS", "ROLLBACK_COMPLETE">>,
  <<"ROLLBACK_IN_PROGRESS", "ROLLBACK_FAILED">>,
  <<"DELETE_IN_PROGRESS", "DELETE_COMPLETE">>,
  <<"DELETE_IN_PROGRESS", "DELETE_FAILED">>,
  <<"CHECK_IN_PROGRESS", "CHECK_COMPLETE">>,
  <<"CHECK_IN_PROGRESS", "CHECK_FAILED">>}

ConsoleMoves ==
  {<<s, "CHECK_IN_PROGRESS">> : s \in Deployed}
    \cup {<<s, "DELETE_IN_PROGRESS">> : s \in Settled \ {"DELETE_COMPLETE"}}

ASSUME RosAssumption ==
  /\ Moves \subseteq ServiceMoves \cup ConsoleMoves
  /\ MayRefuse \subseteq {"create", "update", "delete"}

Stacks == [status : Statuses, app : Apps \cup {None},
           tmpl : Tmpls \cup {None}, prev : Tmpls \cup {None}]
NoStack == [status |-> "ABSENT", app |-> None, tmpl |-> None, prev |-> None]

RosTypeOK ==
  /\ stack \in [Ids -> Stacks]
  /\ accepted \in [Ids -> SUBSET Tmpls]

RosInit ==
  /\ stack = [i \in Ids |-> NoStack]
  /\ accepted = [i \in Ids |-> {}]

Exists(i) == stack[i].status \notin {"ABSENT", "DELETE_COMPLETE"}
-----------------------------------------------------------------------------
(* NewStack's request is accepted: stack i is born. *)
StackCreated(a, t, i) ==
  /\ stack[i].status = "ABSENT"
  /\ stack' = [stack EXCEPT ![i] =
       [status |-> "CREATE_IN_PROGRESS", app |-> a, tmpl |-> t, prev |-> t]]
  /\ accepted' = [accepted EXCEPT ![i] = {t}]

CreateRefused == "create" \in MayRefuse

(* Stack.Update's request is accepted.  The template of a stack that is    *)
(* not Deployed may be sent again.                                         *)
StackUpdated(i, t) ==
  /\ Exists(i) /\ stack[i].status \in Settled
  /\ stack[i].tmpl # t \/ stack[i].status \notin Deployed
  /\ stack' = [stack EXCEPT ![i] =
       [@ EXCEPT !.status = "UPDATE_IN_PROGRESS", !.tmpl = t, !.prev = stack[i].tmpl]]
  /\ accepted' = [accepted EXCEPT ![i] = @ \cup {t}]

(* Variant: an update refused while the stack is busy passes for StackNotFound. *)
IsStackNotFound_Busy(i) == ~Exists(i) \/ stack[i].status \in InProgress

(* The answers to Stack.Update that are errors (errors.go). *)
IsStackSame(i, t)  == Exists(i) /\ stack[i].tmpl = t
IsStackNotFound(i) == ~Exists(i)
UpdateRefused(i)   ==
  /\ Exists(i)
  /\ "update" \in MayRefuse \/ stack[i].status \in InProgress

(* Stack.Delete's request is accepted, at once or while it is under way. *)
StackDeleted(i) ==
  /\ Exists(i)
  /\ stack' = [stack EXCEPT ![i] = [@ EXCEPT !.status = "DELETE_IN_PROGRESS"]]
  /\ UNCHANGED accepted

DeleteRefused(i) == Exists(i) /\ "delete" \in MayRefuse

(* A stack moves on.  A rolled back update leaves the previous template. *)
StackMoves(i) ==
  /\ \E m \in Moves :
       /\ stack[i].status = m[1]
       /\ stack' = [stack EXCEPT ![i] = [@ EXCEPT
            !.status = m[2],
            !.tmpl = IF m[2] = "ROLLBACK_COMPLETE" THEN stack[i].prev
                                                  ELSE stack[i].tmpl]]
  /\ UNCHANGED accepted
=============================================================================
