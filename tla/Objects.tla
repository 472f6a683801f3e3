------------------------------ MODULE Objects -------------------------------
(***************************************************************************)
(* One application's object as its goroutines change it: the worker and    *)
(* the watchers of pkg/handlers, through pkg/appconf and the typed client  *)
(* of pkg/client.  Every change is a Get and, later, a request that has    *)
(* the resourceVersion that was read.  Users and the API server (with the  *)
(* status subresource of charts/ros/crds) are external.                    *)
(***************************************************************************)
EXTENDS Integers

CONSTANTS
  Procs, Worker,   \* goroutines; the worker is one of them
  Specs,
  Absent,          \* no object
  MaxChanges       \* bound: changes by users, requests to ROS, times written anew

ASSUME ObjectsAssumption == Worker \in Procs /\ MaxChanges \in Nat

Phases == {"Progressing", "Ready", "Failed"}
Messages == {"", "reason"}

VARIABLES
  object,    \* spec, fin, marked (for deletion) and status, or Absent
  version,   \* its resourceVersion
  changes,   \* how many of those
  due,       \* whether an event about it is in the worker's queue
  record,    \* AppStackStatus of its record
  task,      \* each goroutine: pc, what it is to write, and the AppConf it got
  alone      \* history: the last SetProgressing, SetReady or SetError ran alone,
             \* and wrote the object's status if there was an object

vars == <<object, version, changes, due, record, task, alone>>

A == INSTANCE AtomicObject

Idle == [pc |-> "idle", phase |-> "None", deletes |-> FALSE, conf |-> Absent, version |-> 0]

Init ==
  /\ object = Absent /\ version = 0 /\ changes = 0
  /\ due = FALSE /\ record = "None"
  /\ task = [p \in Procs |-> Idle]
  /\ alone = TRUE

pc(p) == task[p].pc
Goes(p, t) == task' = [task EXCEPT ![p] = t]
At(p, where) == [task[p] EXCEPT !.pc = where]
InStatus(p) == pc(p) \in {"statusGet", "statusPut"}
-----------------------------------------------------------------------------
(* The API server stores a changed object under a new version; every       *)
(* change is an event.                                                     *)
Stores(o) ==
  /\ object' = o
  /\ version' = IF o = object THEN version ELSE version + 1
  /\ due' = (due \/ o # object)

UserDoes(o) ==
  /\ changes < MaxChanges /\ changes' = changes + 1
  /\ Stores(o)
  /\ UNCHANGED <<record, task>>

UserCreates(s) ==
  /\ object = Absent /\ alone' = FALSE
  /\ UserDoes([spec |-> s, fin |-> FALSE, marked |-> FALSE, status |-> A!NoStatus])

UserEdits(s) ==
  /\ object # Absent /\ UNCHANGED alone
  /\ UserDoes([object EXCEPT !.spec = s])

UserDeletes ==
  /\ object # Absent /\ UNCHANGED alone
  /\ UserDoes(A!Stored([object EXCEPT !.marked = TRUE]))
-----------------------------------------------------------------------------
(* GetAppConf and NewAppConf *)
Get(p, next) ==
  Goes(p, [task[p] EXCEPT !.pc = next, !.conf = object, !.version = version])

Current(p) == object # Absent /\ task[p].version = version

(* Variant: a conflict is answered by the same body under the new version. *)
Update_Again(p, fin) ==
  /\ object # Absent
  /\ Stores(A!Stored([task[p].conf EXCEPT !.fin = fin, !.status = object.status,
                                          !.marked = object.marked]))

(* Update: ToRosStack copies all that was read; the server ignores its     *)
(* status, and leaves deletion to users.                                   *)
Update(p, fin) ==
  /\ Current(p)
  /\ Stores(A!Stored([task[p].conf EXCEPT !.fin = fin, !.status = object.status,
                                          !.marked = object.marked]))

(* Variant: the status goes with the object. *)
UpdateStatus_Object(p, message) ==
  /\ Current(p) /\ Stores(object) /\ UNCHANGED changes

(* UpdateStatus: the server ignores all but the status.  The time in it,   *)
(* in seconds, may make a change of the same status.                       *)
UpdateStatus(p, message) ==
  /\ Current(p)
  /\ object' = [object EXCEPT !.status =
       A!NewStatus(task[p].conf.status, task[p].phase, message)]
  /\ \/ Stores(object') /\ UNCHANGED changes
     \/ /\ version' = version + 1 /\ due' = TRUE
        /\ changes < MaxChanges /\ changes' = changes + 1

(* SetProgressing, SetReady and SetError, up to maybeSetAppCondition. *)
Sets(p, phase, deletes) ==
  /\ record' = phase
  /\ Goes(p, [Idle EXCEPT !.pc = "statusGet", !.phase = phase, !.deletes = deletes])
  /\ alone' = (\A q \in Procs \ {p} : ~InStatus(q))
-----------------------------------------------------------------------------
Quiet == UNCHANGED <<changes, alone>>
Same == UNCHANGED <<object, version>>

(* The worker takes an event: the object is gone, in Progressing, or its   *)
(* template is the one that was deployed (which is left to chance).        *)
HandleNothing ==
  /\ pc(Worker) = "idle" /\ due /\ due' = FALSE
  /\ object # Absent => ~object.marked
  /\ Same /\ Quiet /\ UNCHANGED <<record, task>>

(* CreateOrUpdate, up to addCleanUpFinalizer. *)
HandleEdit ==
  /\ pc(Worker) = "idle" /\ due /\ due' = FALSE
  /\ object # Absent /\ ~object.marked /\ record # "Progressing"
  /\ changes < MaxChanges /\ changes' = changes + 1
  /\ Goes(Worker, At(Worker, "addGet"))
  /\ Same /\ UNCHANGED <<record, alone>>

(* Variant: an application without a stack is left alone. *)
HandleDelete_NoStack ==
  /\ pc(Worker) = "idle" /\ due /\ due' = FALSE
  /\ object # Absent /\ object.marked /\ record # "Progressing"
  /\ Same /\ changes' = (IF record = "None" THEN changes ELSE changes + 1)
  /\ changes' <= MaxChanges
  /\ \/ record = "None" /\ UNCHANGED <<record, task, alone>>
     \/ record # "None" /\ Sets(Worker, "Progressing", TRUE)
     \/ record # "None" /\ Sets(Worker, "Failed", TRUE)

(* Delete, when it need not wait: there is no stack, ROS deletes it, or    *)
(* ROS refuses to.                                                         *)
HandleDelete ==
  /\ pc(Worker) = "idle" /\ due /\ due' = FALSE
  /\ object # Absent /\ object.marked /\ record # "Progressing"
  /\ Same /\ changes' = (IF record = "None" THEN changes ELSE changes + 1)
  /\ changes' <= MaxChanges
  /\ \/ /\ record = "None" /\ Goes(Worker, At(Worker, "removeGet"))
        /\ UNCHANGED <<record, alone>>
     \/ record # "None" /\ Sets(Worker, "Progressing", TRUE)
     \/ record # "None" /\ Sets(Worker, "Failed", TRUE)

(* An error of the worker's puts the event back into the queue. *)
Fails(p) == due' = (due \/ p = Worker)

AddGet ==
  /\ pc(Worker) = "addGet" /\ Same /\ Quiet /\ UNCHANGED record
  /\ IF object = Absent THEN Goes(Worker, Idle) /\ Fails(Worker)
                        ELSE Get(Worker, "addPut") /\ UNCHANGED due

AddPut ==
  /\ pc(Worker) = "addPut"
  /\ Update(Worker, TRUE) /\ Goes(Worker, [Idle EXCEPT !.pc = "added"])
  /\ Quiet /\ UNCHANGED record

AddConflict ==
  /\ pc(Worker) = "addPut" /\ ~Current(Worker)
  /\ Goes(Worker, Idle) /\ Fails(Worker)
  /\ Same /\ Quiet /\ UNCHANGED record

(* ROS creates or updates the stack, or refuses to. *)
Deploy ==
  /\ pc(Worker) = "added"
  /\ Sets(Worker, "Progressing", FALSE) \/ Sets(Worker, "Failed", FALSE)
  /\ Same /\ UNCHANGED <<changes, due>>

(* What follows a status: a watcher after Progressing (only Delete minds   *)
(* an error), and after a deletion that failed, the end of the record.     *)
Follows(p, failed) ==
  /\ IF p = Worker
     THEN IF task[p].phase = "Progressing" /\ ~(failed /\ task[p].deletes)
          THEN \E q \in Procs \ {Worker} :
                 /\ pc(q) = "idle"
                 /\ task' = [task EXCEPT ![p] = Idle, ![q] =
                      [Idle EXCEPT !.pc = "watch", !.deletes = task[p].deletes]]
          ELSE Goes(p, Idle)
     ELSE Goes(p, IF task[p].deletes THEN [Idle EXCEPT !.pc = "drop"] ELSE Idle)
  /\ UNCHANGED record

(* maybeSetAppCondition: an object that is gone is no error. *)
StatusGone(p) ==
  /\ pc(p) = "statusGet" /\ object = Absent
  /\ Follows(p, FALSE)
  /\ Same /\ Quiet /\ UNCHANGED due

StatusGet(p) ==
  /\ pc(p) = "statusGet" /\ object # Absent
  /\ Get(p, "statusPut")
  /\ Same /\ Quiet /\ UNCHANGED <<due, record>>

StatusPut(p) ==
  /\ pc(p) = "statusPut"
  /\ UpdateStatus(p, IF task[p].phase = "Failed" THEN "reason" ELSE "")
  /\ Follows(p, FALSE) /\ UNCHANGED alone

StatusConflict(p) ==
  /\ pc(p) = "statusPut" /\ ~Current(p)
  /\ Follows(p, TRUE) /\ alone' = FALSE
  /\ Fails(p) /\ Same /\ UNCHANGED changes

(* waitStackDoneAndSaveOutputs *)
WatcherEnds(p) ==
  /\ pc(p) = "watch"
  /\ \/ ~task[p].deletes /\ Sets(p, "Ready", FALSE)
     \/ Sets(p, "Failed", task[p].deletes)
     \/ /\ task[p].deletes /\ Goes(p, [Idle EXCEPT !.pc = "drop"])
        /\ UNCHANGED <<record, alone>>
  /\ Same /\ UNCHANGED <<changes, due>>

Drop(p) ==
  /\ pc(p) = "drop" /\ record' = "None"
  /\ Goes(p, At(p, "removeGet"))
  /\ Same /\ Quiet /\ UNCHANGED due

RemoveGet(p) ==
  /\ pc(p) = "removeGet" /\ Same /\ Quiet /\ UNCHANGED <<record, due>>
  /\ IF object = Absent THEN Goes(p, Idle) ELSE Get(p, "removePut")

RemovePut(p) ==
  /\ pc(p) = "removePut"
  /\ Update(p, FALSE) /\ Goes(p, Idle)
  /\ Quiet /\ UNCHANGED record

RemoveConflict(p) ==
  /\ pc(p) = "removePut" /\ ~Current(p)
  /\ Goes(p, Idle) /\ Fails(p)
  /\ Same /\ Quiet /\ UNCHANGED record
-----------------------------------------------------------------------------
Users == UserDeletes \/ \E s \in Specs : UserCreates(s) \/ UserEdits(s)

WorkerStep ==
  \/ HandleNothing \/ HandleEdit \/ HandleDelete
  \/ AddGet \/ AddPut \/ AddConflict \/ Deploy

Goroutine(p) ==
  \/ StatusGone(p) \/ StatusGet(p) \/ StatusPut(p) \/ StatusConflict(p)
  \/ WatcherEnds(p) \/ Drop(p) \/ RemoveGet(p) \/ RemovePut(p) \/ RemoveConflict(p)

Next == Users \/ WorkerStep \/ \E p \in Procs : Goroutine(p)

(* Goroutines run; users do as they like. *)
Fairness == WF_vars(WorkerStep) /\ \A p \in Procs : WF_vars(Goroutine(p))

Spec == Init /\ [][Next]_vars /\ Fairness
-----------------------------------------------------------------------------
(* An object that is marked for deletion has the finalizer, or it would be *)
(* gone; the condition of a status is of its phase (appconf.go:165-199).   *)
Statuses ==
  {s \in [phase : Phases \cup {"None"}, type : {"None", "Ready", "Error"}, message : Messages] :
     s.phase = "Failed" <=> s.type = "Error"}

Confs ==
  {o \in [spec : Specs, fin : BOOLEAN, marked : BOOLEAN, status : Statuses] : o.marked => o.fin}

PCs == {"idle", "addGet", "addPut", "added", "statusGet", "statusPut",
        "watch", "drop", "removeGet", "removePut"}

Tasks == [pc : PCs, phase : Phases \cup {"None"}, deletes : BOOLEAN,
          conf : Confs \cup {Absent}, version : Nat]

TypeOK ==
  /\ object \in Confs \cup {Absent} /\ version \in Nat /\ changes \in 0..MaxChanges
  /\ due \in BOOLEAN /\ alone \in BOOLEAN /\ record \in Phases \cup {"None"}
  /\ task \in [Procs -> Tasks]

(* What was read under the current version is the object: no version is    *)
(* given twice.                                                            *)
ReadsFresh ==
  /\ version = 0 => object = Absent
  /\ \A p \in Procs :
       /\ task[p].version <= version
       /\ task[p].version = version => task[p].conf = object

PhasesKnown == \A p \in Procs : InStatus(p) => task[p].phase \in Phases

(* The inductive invariant (ObjectsProofs). *)
IInv == TypeOK /\ ReadsFresh /\ PhasesKnown

(* Between the Get and the request of a goroutine (handlers/appconf.go:    *)
(* 255-262, 268-278, appstack.go:591-600) users and other goroutines       *)
(* change the object: what it writes back is only ever its finalizer or    *)
(* its status, as if in one step, or nothing.                              *)
ImplementsAtomic == A!Spec

(* The record is written first and the object later, by whichever          *)
(* goroutine (appstack.go:600): the object has the phase of the record     *)
(* when the last of them ran alone and without a conflict.                 *)
PhaseSettles ==
  alone /\ object # Absent /\ record # "None" /\ (\A p \in Procs : ~InStatus(p))
    => object.status.phase = record

(* What makes it inductive: a goroutine that has not written the phase of  *)
(* such a record yet is about to.                                          *)
PhasePending ==
  alone /\ record # "None" => \A p \in Procs : InStatus(p) => task[p].phase = record

(* A watcher gives up when the removal of the finalizer meets a change     *)
(* (handlers/appconf.go:320-323); that change is an event, and the worker  *)
(* removes it then: no object that is to be deleted is left without a      *)
(* record and with its finalizer.                                          *)
RemovalCompletes ==
  []<>(object # Absent /\ object.marked => record # "None")
=============================================================================
