---------------------------- MODULE AtomicObject ----------------------------
(***************************************************************************)
(* What the controller relies on when it changes an application's object:  *)
(* its finalizer and its status, each in one step and nothing else, while  *)
(* users change the specification and ask for the deletion.                *)
(***************************************************************************)
CONSTANTS Specs, Phases, Messages, Absent

VARIABLES object

NoStatus == [phase |-> "None", type |-> "None", message |-> ""]

(* The object after a change: one that is marked goes with its finalizer. *)
Stored(o) == IF o.marked /\ ~o.fin THEN Absent ELSE o

(* Variant: the type of a condition stays the first one's. *)
NewStatus_FirstType(status, phase, message) ==
  [phase   |-> phase,
   type    |-> IF status.type # "None" THEN status.type
               ELSE IF phase = "Failed" THEN "Error" ELSE "Ready",
   message |-> IF message = "" THEN status.message ELSE message]

(* UpdateStatus: the first condition is made, or keeps a message that the  *)
(* new one does not replace.                                               *)
NewStatus(status, phase, message) ==
  [phase   |-> phase,
   type    |-> IF phase = "Failed" THEN "Error" ELSE "Ready",
   message |-> IF message = "" THEN status.message ELSE message]

Init == object = Absent

Create(s) ==
  /\ object = Absent
  /\ object' = [spec |-> s, fin |-> FALSE, marked |-> FALSE, status |-> NoStatus]

Edit(s) == object # Absent /\ object' = [object EXCEPT !.spec = s]

Delete == object # Absent /\ object' = Stored([object EXCEPT !.marked = TRUE])

AddFinalizer == object # Absent /\ object' = [object EXCEPT !.fin = TRUE]

RemoveFinalizer == object # Absent /\ object' = Stored([object EXCEPT !.fin = FALSE])

SetStatus(phase, message) ==
  /\ object # Absent
  /\ object' = [object EXCEPT !.status = NewStatus(object.status, phase, message)]

Next ==
  \/ \E s \in Specs : Create(s) \/ Edit(s)
  \/ Delete \/ AddFinalizer \/ RemoveFinalizer
  \/ \E phase \in Phases, message \in Messages : SetStatus(phase, message)

Spec == Init /\ [][Next]_object
=============================================================================
