--------------------------- MODULE ObjectsProofs ----------------------------
(***************************************************************************)
(* The invariant of Objects, and that Get-and-Update of goroutines changes *)
(* the object as AtomicObject says, for any goroutines, specifications and *)
(* number of changes.                                                      *)
(***************************************************************************)
EXTENDS Objects, TLAPS

USE ObjectsAssumption

(* What a step may do to the object: nothing, or a change with a version   *)
(* of its own.                                                             *)
ObjectMoves ==
  \/ UNCHANGED <<object, version>>
  \/ object' \in Confs \cup {Absent} /\ version' = version + 1

(* What a step may do to the task of a goroutine: what was read is kept,   *)
(* dropped, or read anew.                                                  *)
TaskMoves(p) ==
  \/ task'[p].version = task[p].version /\ task'[p].conf = task[p].conf
  \/ task'[p].version = 0 /\ task'[p].conf = Absent
  \/ task'[p].version = version /\ task'[p].conf = object /\ UNCHANGED <<object, version>>

(* All that ReadsFresh and PhasesKnown need of a step. *)
TasksMove ==
  /\ task' \in [Procs -> Tasks]
  /\ \A p \in Procs : TaskMoves(p) /\ (InStatus(p)' => task'[p].phase \in Phases)
-----------------------------------------------------------------------------
LEMMA IdleIsTask ==
  /\ Idle \in Tasks /\ Idle.pc = "idle" /\ Idle.version = 0 /\ Idle.conf = Absent
  BY DEF Idle, Tasks, PCs

(* An object keeps its type when a user or a goroutine changes it          *)
(* (appconf.go:165-199 for the status).                                    *)
LEMMA StatusTypes ==
  ASSUME NEW s \in Statuses, NEW phase \in Phases, NEW message \in Messages
  PROVE  A!NewStatus(s, phase, message) \in Statuses
  BY DEF A!NewStatus, Statuses, Phases, Messages

LEMMA StoredTypes ==
  ASSUME NEW o \in [spec : Specs, fin : BOOLEAN, marked : BOOLEAN, status : Statuses]
  PROVE  A!Stored(o) \in Confs \cup {Absent}
  BY DEF A!Stored, Confs

LEMMA StoresMoves ==
  ASSUME NEW o \in Confs \cup {Absent}, Stores(o)
  PROVE  ObjectMoves /\ due' \in BOOLEAN
  BY DEF Stores, ObjectMoves

(* Goes writes one task only. *)
LEMMA GoesMoves ==
  ASSUME TypeOK, PhasesKnown, NEW p \in Procs, NEW t \in Tasks, Goes(p, t),
         \/ t.version = task[p].version /\ t.conf = task[p].conf
         \/ t.version = 0 /\ t.conf = Absent
         \/ t.version = version /\ t.conf = object /\ UNCHANGED <<object, version>>,
         t.pc \in {"statusGet", "statusPut"} => t.phase \in Phases
  PROVE  TasksMove
  BY DEF Goes, TypeOK, PhasesKnown, TasksMove, TaskMoves, InStatus, pc

LEMMA SameTasksMove == TypeOK /\ PhasesKnown /\ UNCHANGED task => TasksMove
  BY DEF TypeOK, PhasesKnown, TasksMove, TaskMoves, InStatus, pc

(* The places a goroutine goes to without anything it has read. *)
LEMMA FreshMoves ==
  ASSUME TypeOK, PhasesKnown, NEW p \in Procs,
         NEW where \in PCs \ {"statusGet", "statusPut"}, NEW deletes \in BOOLEAN,
         Goes(p, [Idle EXCEPT !.pc = where, !.deletes = deletes])
  PROVE  TasksMove
  <1>1. [Idle EXCEPT !.pc = where, !.deletes = deletes] \in Tasks
    BY DEF Idle, Tasks, PCs
  <1> QED BY <1>1, GoesMoves DEF Idle

LEMMA IdleMoves ==
  ASSUME TypeOK, PhasesKnown, NEW p \in Procs, Goes(p, Idle)
  PROVE  TasksMove
  BY IdleIsTask, GoesMoves

LEMMA AtMoves ==
  ASSUME TypeOK, PhasesKnown, NEW p \in Procs,
         NEW where \in PCs \ {"statusGet", "statusPut"}, Goes(p, At(p, where))
  PROVE  TasksMove
  <1>1. At(p, where) \in Tasks
    BY DEF At, TypeOK, Tasks
  <1> QED BY <1>1, GoesMoves DEF At, TypeOK, Tasks

LEMMA GetMoves ==
  ASSUME TypeOK, PhasesKnown, NEW p \in Procs, NEW next \in PCs,
         next = "statusPut" => InStatus(p), next # "statusGet",
         Get(p, next), Same
  PROVE  TasksMove
  <1> DEFINE t == [task[p] EXCEPT !.pc = next, !.conf = object, !.version = version]
  <1>1. t \in Tasks /\ t.version = version /\ t.conf = object /\ t.pc = next
        /\ t.phase = task[p].phase
    BY DEF TypeOK, Tasks
  <1>2. t.pc \in {"statusGet", "statusPut"} => t.phase \in Phases
    BY <1>1 DEF PhasesKnown
  <1>3. Goes(p, t)
    BY DEF Get
  <1> HIDE DEF t
  <1> QED BY <1>1, <1>2, <1>3, GoesMoves DEF Same

LEMMA SetsMoves ==
  ASSUME TypeOK, PhasesKnown, NEW p \in Procs, NEW phase \in Phases, NEW deletes \in BOOLEAN,
         Sets(p, phase, deletes)
  PROVE  TasksMove /\ record' \in Phases /\ alone' \in BOOLEAN
  <1> DEFINE t == [Idle EXCEPT !.pc = "statusGet", !.phase = phase, !.deletes = deletes]
  <1>1. t \in Tasks /\ t.version = 0 /\ t.conf = Absent /\ t.phase = phase
    BY DEF Idle, Tasks, PCs
  <1>2. Goes(p, t)
    BY DEF Sets
  <1> HIDE DEF t
  <1>3. TasksMove
    BY <1>1, <1>2, GoesMoves
  <1> QED BY <1>3 DEF Sets

(* After a status: at most the goroutine itself and a new watcher move. *)
LEMMA FollowsMoves ==
  ASSUME TypeOK, PhasesKnown, NEW p \in Procs, NEW failed \in BOOLEAN, Follows(p, failed)
  PROVE  TasksMove
  <1>1. task[p].deletes \in BOOLEAN
    BY DEF TypeOK, Tasks
  <1>2. CASE Goes(p, Idle)
    BY <1>2, IdleMoves
  <1>3. CASE Goes(p, [Idle EXCEPT !.pc = "drop"])
    <2>1. [Idle EXCEPT !.pc = "drop"] \in Tasks
      BY DEF Idle, Tasks, PCs
    <2>2. [Idle EXCEPT !.pc = "drop"].pc = "drop" /\ [Idle EXCEPT !.pc = "drop"].version = 0
          /\ [Idle EXCEPT !.pc = "drop"].conf = Absent
      BY DEF Idle
    <2> QED BY <1>3, <2>1, <2>2, GoesMoves
  <1>4. ASSUME NEW q \in Procs \ {Worker},
               task' = [task EXCEPT ![p] = Idle, ![q] =
                 [Idle EXCEPT !.pc = "watch", !.deletes = task[p].deletes]]
        PROVE  TasksMove
    <2> DEFINE t == [Idle EXCEPT !.pc = "watch", !.deletes = task[p].deletes]
    <2>1. t \in Tasks /\ t.version = 0 /\ t.conf = Absent /\ t.pc = "watch"
      BY <1>1 DEF Idle, Tasks, PCs
    <2>2. task' = [task EXCEPT ![p] = Idle, ![q] = t]
      BY <1>4
    <2> HIDE DEF t
    <2>3. task' \in [Procs -> Tasks]
      BY <2>1, <2>2, IdleIsTask DEF TypeOK
    <2>4. ASSUME NEW r \in Procs
          PROVE  task'[r] = task[r] \/ task'[r] = Idle \/ task'[r] = t
      BY <2>2 DEF TypeOK
    <2> QED BY <2>1, <2>3, <2>4, IdleIsTask
         DEF TasksMove, TaskMoves, InStatus, pc, PhasesKnown
  <1> QED BY <1>2, <1>3, <1>4 DEF Follows
-----------------------------------------------------------------------------
(* What a step of each kind does to object and tasks; the types of the     *)
(* other variables.                                                        *)
OthersTyped ==
  /\ changes' \in 0..MaxChanges /\ due' \in BOOLEAN /\ alone' \in BOOLEAN
  /\ record' \in Phases \cup {"None"}

Moves == ObjectMoves /\ TasksMove /\ OthersTyped

(* What a user does is a change of its own (external). *)
LEMMA UserMoves == IInv /\ Users => Moves
  <1> SUFFICES ASSUME IInv, Users PROVE Moves
    OBVIOUS
  <1> USE DEF IInv
  <1>1. ASSUME NEW o \in Confs \cup {Absent}, UserDoes(o), alone' \in BOOLEAN
        PROVE  Moves
    BY <1>1, StoresMoves, SameTasksMove DEF UserDoes, TypeOK, OthersTyped, Moves
  <1>2. CASE UserDeletes
    <2>1. A!Stored([object EXCEPT !.marked = TRUE]) \in Confs \cup {Absent}
      BY <1>2, StoredTypes DEF UserDeletes, TypeOK, Confs
    <2> QED BY <1>2, <1>1, <2>1 DEF UserDeletes, TypeOK
  <1>3. ASSUME NEW s \in Specs, UserCreates(s)
        PROVE  Moves
    <2>1. [spec |-> s, fin |-> FALSE, marked |-> FALSE, status |-> A!NoStatus] \in Confs
      BY DEF Confs, Statuses, A!NoStatus, Messages
    <2> QED BY <1>1, <1>3, <2>1 DEF UserCreates
  <1>4. ASSUME NEW s \in Specs, UserEdits(s)
        PROVE  Moves
    <2>1. [object EXCEPT !.spec = s] \in Confs
      BY <1>4 DEF UserEdits, TypeOK, Confs
    <2> QED BY <1>1, <1>4, <2>1 DEF UserEdits, TypeOK
  <1> QED BY <1>2, <1>3, <1>4 DEF Users

(* A goroutine's Update changes the finalizer of the object it has read.   *)
LEMMA UpdateChanges ==
  ASSUME IInv, NEW p \in Procs, NEW fin \in BOOLEAN, Update(p, fin)
  PROVE  /\ object # Absent /\ object' = A!Stored([object EXCEPT !.fin = fin])
         /\ ObjectMoves /\ due' \in BOOLEAN
  <1>1. object # Absent /\ task[p].conf = object /\ object \in Confs
    BY DEF Update, Current, IInv, ReadsFresh, TypeOK
  <1>2. [task[p].conf EXCEPT !.fin = fin, !.status = object.status, !.marked = object.marked]
        = [object EXCEPT !.fin = fin]
    BY <1>1 DEF Confs
  <1>3. A!Stored([object EXCEPT !.fin = fin]) \in Confs \cup {Absent}
    BY <1>1, StoredTypes DEF Confs
  <1>4. Stores(A!Stored([object EXCEPT !.fin = fin]))
    BY <1>2 DEF Update
  <1> QED BY <1>1, <1>3, <1>4, StoresMoves DEF Stores

(* And UpdateStatus its status. *)
LEMMA UpdateStatusChanges ==
  ASSUME IInv, NEW p \in Procs, InStatus(p), NEW message \in Messages,
         UpdateStatus(p, message)
  PROVE  /\ A!SetStatus(task[p].phase, message)
         /\ ObjectMoves /\ due' \in BOOLEAN /\ changes' \in 0..MaxChanges
  <1>1. object # Absent /\ task[p].conf = object /\ object \in Confs /\ task[p].phase \in Phases
    BY DEF UpdateStatus, Current, IInv, ReadsFresh, PhasesKnown, TypeOK
  <1>2. A!SetStatus(task[p].phase, message)
    BY <1>1 DEF UpdateStatus, A!SetStatus
  <1>3. object' \in Confs
    BY <1>1, <1>2, StatusTypes DEF A!SetStatus, Confs
  <1>4. CASE Stores(object') /\ UNCHANGED changes
    BY <1>2, <1>3, <1>4, StoresMoves DEF IInv, TypeOK
  <1>5. CASE version' = version + 1 /\ due' = TRUE /\ changes < MaxChanges /\ changes' = changes + 1
    BY <1>2, <1>3, <1>5 DEF ObjectMoves, IInv, TypeOK
  <1> QED BY <1>4, <1>5 DEF UpdateStatus
-----------------------------------------------------------------------------
(* Each action of the worker (appconf.go:45-231). *)
LEMMA WorkerMoves == IInv /\ WorkerStep => Moves
  <1> SUFFICES ASSUME IInv, WorkerStep PROVE Moves
    OBVIOUS
  <1> USE DEF IInv
  <1>0. task[Worker] \in Tasks /\ Worker \in Procs
    BY DEF TypeOK
  <1>1. CASE HandleNothing
    BY <1>1, SameTasksMove
       DEF HandleNothing, Same, Quiet, Moves, ObjectMoves, OthersTyped, TypeOK
  <1>2. CASE HandleEdit
    <2>1. TasksMove
      BY <1>2, AtMoves DEF HandleEdit, PCs
    <2>2. /\ due' = FALSE /\ changes < MaxChanges /\ changes' = changes + 1
          /\ UNCHANGED <<object, version, record, alone>>
      BY <1>2 DEF HandleEdit, Same
    <2>3. changes' \in 0..MaxChanges
      BY <2>2 DEF TypeOK
    <2> QED BY <2>1, <2>2, <2>3 DEF Moves, ObjectMoves, OthersTyped, TypeOK
  <1>3. CASE HandleDelete
    <2>0. /\ due' = FALSE /\ UNCHANGED <<object, version>>
          /\ changes' \in {changes, changes + 1} /\ changes' <= MaxChanges
      BY <1>3 DEF HandleDelete, Same
    <2>1. changes' \in 0..MaxChanges
      <3>1. changes \in Nat /\ MaxChanges \in Nat
        BY DEF TypeOK
      <3> QED BY <2>0, <3>1
    <2>2. CASE Goes(Worker, At(Worker, "removeGet")) /\ UNCHANGED <<record, alone>>
      BY <2>0, <2>1, <2>2, AtMoves DEF PCs, Moves, ObjectMoves, OthersTyped, TypeOK
    <2>3. ASSUME NEW phase \in Phases, Sets(Worker, phase, TRUE)
          PROVE  Moves
      BY <2>0, <2>1, <2>3, SetsMoves DEF Moves, ObjectMoves, OthersTyped
    <2> QED BY <1>3, <2>2, <2>3 DEF HandleDelete, Phases
  <1>4. CASE AddGet
    <2>1. CASE Goes(Worker, Idle) /\ Fails(Worker)
      BY <1>4, <2>1, IdleMoves
         DEF AddGet, Fails, Same, Quiet, Moves, ObjectMoves, OthersTyped, TypeOK
    <2>2. CASE Get(Worker, "addPut") /\ UNCHANGED due
      BY <1>4, <2>2, GetMoves
         DEF AddGet, PCs, Same, Quiet, Moves, ObjectMoves, OthersTyped, TypeOK
    <2> QED BY <1>4, <2>1, <2>2 DEF AddGet
  <1>5. CASE AddPut
    <2>1. [Idle EXCEPT !.pc = "added"] \in Tasks
          /\ [Idle EXCEPT !.pc = "added"].version = 0
          /\ [Idle EXCEPT !.pc = "added"].conf = Absent
          /\ [Idle EXCEPT !.pc = "added"].pc = "added"
      BY DEF Idle, Tasks, PCs
    <2>2. TasksMove
      BY <1>5, <2>1, GoesMoves DEF AddPut
    <2> QED BY <1>5, <2>2, UpdateChanges DEF AddPut, Quiet, Moves, OthersTyped, TypeOK
  <1>6. CASE AddConflict
    BY <1>6, IdleMoves
       DEF AddConflict, Fails, Same, Quiet, Moves, ObjectMoves, OthersTyped, TypeOK
  <1>7. CASE Deploy
    <2>1. ASSUME NEW phase \in Phases, Sets(Worker, phase, FALSE)
          PROVE  Moves
      BY <1>7, <2>1, SetsMoves DEF Deploy, Same, Moves, ObjectMoves, OthersTyped, TypeOK
    <2> QED BY <1>7, <2>1 DEF Deploy, Phases
  <1> QED BY <1>1, <1>2, <1>3, <1>4, <1>5, <1>6, <1>7 DEF WorkerStep

(* Each action of any goroutine (appstack.go:579-605, appconf.go:255-326). *)
LEMMA GoroutineMoves ==
  ASSUME IInv, NEW p \in Procs, Goroutine(p)
  PROVE  Moves
  <1> USE DEF IInv
  <1>0. task[p] \in Tasks /\ task[p].deletes \in BOOLEAN
    BY DEF TypeOK, Tasks
  <1>1. CASE StatusGone(p)
    BY <1>1, FollowsMoves
       DEF StatusGone, Follows, Same, Quiet, Moves, ObjectMoves, OthersTyped, TypeOK
  <1>2. CASE StatusGet(p)
    BY <1>2, GetMoves
       DEF StatusGet, InStatus, PCs, Same, Quiet, Moves, ObjectMoves, OthersTyped, TypeOK
  <1>3. CASE StatusPut(p)
    <2>1. InStatus(p)
      BY <1>3 DEF StatusPut, InStatus
    <2>2. PICK message \in Messages : UpdateStatus(p, message)
      BY <1>3 DEF StatusPut, Messages
    <2>3. ObjectMoves /\ due' \in BOOLEAN /\ changes' \in 0..MaxChanges
      BY <2>1, <2>2, UpdateStatusChanges
    <2>4. TasksMove /\ UNCHANGED <<record, alone>>
      BY <1>3, FollowsMoves DEF StatusPut, Follows
    <2> QED BY <2>3, <2>4 DEF Moves, OthersTyped, TypeOK
  <1>4. CASE StatusConflict(p)
    BY <1>4, FollowsMoves
       DEF StatusConflict, Follows, Fails, Same, Moves, ObjectMoves, OthersTyped, TypeOK
  <1>5. CASE WatcherEnds(p)
    <2>1. UNCHANGED <<object, version, changes, due>>
      BY <1>5 DEF WatcherEnds, Same
    <2>2. ASSUME NEW phase \in Phases, NEW deletes \in BOOLEAN, Sets(p, phase, deletes)
          PROVE  Moves
      BY <2>1, <2>2, SetsMoves DEF Moves, ObjectMoves, OthersTyped, TypeOK
    <2>3. CASE Goes(p, [Idle EXCEPT !.pc = "drop"]) /\ UNCHANGED <<record, alone>>
      <3>1. [Idle EXCEPT !.pc = "drop"] \in Tasks
            /\ [Idle EXCEPT !.pc = "drop"].version = 0
            /\ [Idle EXCEPT !.pc = "drop"].conf = Absent
            /\ [Idle EXCEPT !.pc = "drop"].pc = "drop"
        BY DEF Idle, Tasks, PCs
      <3> QED BY <2>1, <2>3, <3>1, GoesMoves DEF Moves, ObjectMoves, OthersTyped, TypeOK
    <2> QED BY <1>0, <1>5, <2>2, <2>3 DEF WatcherEnds, Phases
  <1>6. CASE Drop(p)
    BY <1>6, AtMoves DEF Drop, PCs, Same, Quiet, Moves, ObjectMoves, OthersTyped, TypeOK
  <1>7. CASE RemoveGet(p)
    <2>1. CASE Goes(p, Idle)
      BY <1>7, <2>1, IdleMoves
         DEF RemoveGet, Same, Quiet, Moves, ObjectMoves, OthersTyped, TypeOK
    <2>2. CASE Get(p, "removePut")
      BY <1>7, <2>2, GetMoves
         DEF RemoveGet, PCs, Same, Quiet, Moves, ObjectMoves, OthersTyped, TypeOK
    <2> QED BY <1>7, <2>1, <2>2 DEF RemoveGet
  <1>8. CASE RemovePut(p)
    BY <1>8, IdleMoves, UpdateChanges
       DEF RemovePut, Quiet, Moves, OthersTyped, TypeOK
  <1>9. CASE RemoveConflict(p)
    BY <1>9, IdleMoves
       DEF RemoveConflict, Fails, Same, Quiet, Moves, ObjectMoves, OthersTyped, TypeOK
  <1> QED BY <1>1, <1>2, <1>3, <1>4, <1>5, <1>6, <1>7, <1>8, <1>9 DEF Goroutine
-----------------------------------------------------------------------------
LEMMA InitInv == Init => IInv
  <1> SUFFICES ASSUME Init PROVE IInv
    OBVIOUS
  <1>1. \A p \in Procs : task[p] = Idle
    BY DEF Init
  <1>2. TypeOK
    <2>1. task \in [Procs -> Tasks]
      BY IdleIsTask DEF Init
    <2>2. changes \in 0..MaxChanges
      BY DEF Init
    <2> QED BY <2>1, <2>2 DEF Init, TypeOK
  <1>3. ReadsFresh
    BY <1>1, IdleIsTask DEF Init, ReadsFresh
  <1>4. PhasesKnown
    BY <1>1, IdleIsTask DEF PhasesKnown, InStatus, pc
  <1> QED BY <1>2, <1>3, <1>4 DEF IInv

(* A version is never given twice, so what was read under the current one  *)
(* is current.                                                             *)
LEMMA MovesInv == IInv /\ Moves => IInv'
  <1> SUFFICES ASSUME IInv, Moves PROVE IInv'
    OBVIOUS
  <1> USE DEF IInv, Moves
  <1>1. TypeOK'
    BY DEF TypeOK, ObjectMoves, TasksMove, OthersTyped
  <1>2. ReadsFresh'
    <2>1. version \in Nat /\ version' \in Nat
      BY <1>1 DEF TypeOK
    <2>2. version' = 0 => object' = Absent
      BY <2>1 DEF ObjectMoves, ReadsFresh
    <2>3. ASSUME NEW p \in Procs
          PROVE  /\ task'[p].version <= version'
                 /\ task'[p].version = version' => task'[p].conf = object'
      <3>1. TaskMoves(p) /\ task[p].version \in Nat /\ task[p].version <= version
            /\ (task[p].version = version => task[p].conf = object)
        BY DEF TasksMove, ReadsFresh, TypeOK, Tasks
      <3>2. CASE UNCHANGED <<object, version>>
        BY <2>1, <2>2, <3>1, <3>2 DEF TaskMoves
      <3>3. CASE version' = version + 1
        BY <2>1, <3>1, <3>3 DEF TaskMoves
      <3> QED BY <3>2, <3>3 DEF ObjectMoves
    <2> QED BY <2>2, <2>3 DEF ReadsFresh
  <1>3. PhasesKnown'
    BY DEF PhasesKnown, TasksMove
  <1> QED BY <1>1, <1>2, <1>3

LEMMA NextInv == IInv /\ [Next]_vars => IInv'
  <1> SUFFICES ASSUME IInv, [Next]_vars PROVE IInv'
    OBVIOUS
  <1>1. CASE Next
    BY <1>1, UserMoves, WorkerMoves, GoroutineMoves, MovesInv DEF Next
  <1>2. CASE UNCHANGED vars
    BY <1>2 DEF vars, IInv, TypeOK, ReadsFresh, PhasesKnown, InStatus, pc
  <1> QED BY <1>1, <1>2

LEMMA Invariance == Spec => []IInv
  BY InitInv, NextInv, PTL DEF Spec

(* The types of Objects; an object that is to be deleted exists only with  *)
(* its finalizer, and the condition of a status is of its phase            *)
(* (appconf.go:165-199).                                                   *)
THEOREM TypeCorrect == Spec => []TypeOK
  BY Invariance, PTL DEF IInv
-----------------------------------------------------------------------------
LEMMA InitRefines == Init => A!Init
  BY DEF Init, A!Init

(* What a user does, AtomicObject lets him do. *)
LEMMA UsersRefine == Users => A!Next
  BY DEF Users, UserCreates, UserEdits, UserDeletes, UserDoes, Stores,
         A!Next, A!Create, A!Edit, A!Delete

LEMMA WorkerRefines == IInv /\ WorkerStep => [A!Next]_object
  <1> SUFFICES ASSUME IInv, WorkerStep PROVE [A!Next]_object
    OBVIOUS
  <1>1. CASE AddPut
    <2>1. object # Absent /\ object' = A!Stored([object EXCEPT !.fin = TRUE])
      BY <1>1, UpdateChanges DEF AddPut
    <2>2. [object EXCEPT !.fin = TRUE].fin = TRUE
      BY <2>1 DEF IInv, TypeOK, Confs
    <2> QED BY <2>1, <2>2 DEF A!Stored, A!AddFinalizer, A!Next
  <1>2. CASE ~AddPut
    BY <1>2 DEF WorkerStep, HandleNothing, HandleEdit, HandleDelete, AddGet, AddConflict,
         Deploy, Same
  <1> QED BY <1>1, <1>2

LEMMA GoroutineRefines ==
  ASSUME IInv, NEW p \in Procs, Goroutine(p)
  PROVE  [A!Next]_object
  <1>1. CASE StatusPut(p)
    <2>1. InStatus(p) /\ task[p].phase \in Phases
      BY <1>1 DEF StatusPut, InStatus, IInv, PhasesKnown
    <2>2. PICK message \in Messages : UpdateStatus(p, message)
      BY <1>1 DEF StatusPut, Messages
    <2> QED BY <2>1, <2>2, UpdateStatusChanges DEF A!Next
  <1>2. CASE RemovePut(p)
    BY <1>2, UpdateChanges DEF RemovePut, A!RemoveFinalizer, A!Next
  <1>3. CASE ~StatusPut(p) /\ ~RemovePut(p)
    BY <1>3 DEF Goroutine, StatusGone, StatusGet, StatusConflict, WatcherEnds, Drop,
         RemoveGet, RemoveConflict, Same
  <1> QED BY <1>1, <1>2, <1>3

(* Whatever happens between a Get and the request that follows it          *)
(* (appconf.go:255-280, appstack.go:591-600), the object changes as if     *)
(* goroutines changed its finalizer or its status in one step.             *)
THEOREM Refinement == Spec => ImplementsAtomic
  <1>1. IInv /\ [Next]_vars => [A!Next]_object
    BY UsersRefine, WorkerRefines, GoroutineRefines DEF Next, vars
  <1> QED BY <1>1, InitRefines, Invariance, PTL DEF Spec, ImplementsAtomic, A!Spec
-----------------------------------------------------------------------------
(* What a step may do to the phase of the record and of the object.        *)
Kept(q) ==
  (InStatus(q)' <=> InStatus(q)) /\ (InStatus(q) => task'[q].phase = task[q].phase)

Starts(p) ==
  /\ InStatus(p)' /\ record' = task'[p].phase
  /\ alone' => \A q \in Procs \ {p} : ~InStatus(q)'

Keeps ==
  /\ alone' = alone /\ record' \in {record, "None"}
  /\ object' # Absent => object # Absent /\ object'.status = object.status
  /\ \A q \in Procs : Kept(q)

Ends(p) ==
  /\ InStatus(p) /\ UNCHANGED <<alone, record>>
  /\ object' # Absent => object'.status.phase = task[p].phase
  /\ \A q \in Procs : Kept(q) \/ ~InStatus(q)'

PhaseMoves == ~alone' \/ Keeps \/ \E p \in Procs : Starts(p) \/ Ends(p)

(* Goes(p, t) to and from places other than the two of a status. *)
LEMMA GoesKeeps ==
  ASSUME TypeOK, NEW p \in Procs, NEW t, Goes(p, t),
         \/ ~InStatus(p) /\ t.pc \notin {"statusGet", "statusPut"}
         \/ InStatus(p) /\ t.pc \in {"statusGet", "statusPut"} /\ t.phase = task[p].phase
  PROVE  \A q \in Procs : Kept(q)
  BY DEF Goes, TypeOK, Kept, InStatus, pc

LEMMA SetsStarts ==
  ASSUME TypeOK, NEW p \in Procs, NEW phase \in Phases, NEW deletes, Sets(p, phase, deletes)
  PROVE  Starts(p)
  <1> DEFINE t == [Idle EXCEPT !.pc = "statusGet", !.phase = phase, !.deletes = deletes]
  <1>1. t.pc = "statusGet" /\ t.phase = phase
    BY DEF Idle
  <1>2. task' = [task EXCEPT ![p] = t]
    BY DEF Sets, Goes
  <1> HIDE DEF t
  <1>3. task'[p] = t /\ \A q \in Procs \ {p} : task'[q] = task[q]
    BY <1>2 DEF TypeOK
  <1> QED BY <1>1, <1>3 DEF Sets, Starts, InStatus, pc

LEMMA UpdateKeepsStatus ==
  ASSUME IInv, NEW p \in Procs, NEW fin \in BOOLEAN, Update(p, fin)
  PROVE  object # Absent /\ (object' # Absent => object'.status = object.status)
  <1>1. object # Absent /\ object \in Confs /\ object' = A!Stored([object EXCEPT !.fin = fin])
    BY UpdateChanges DEF IInv, TypeOK
  <1>2. [object EXCEPT !.fin = fin].status = object.status
    BY <1>1 DEF Confs
  <1> QED BY <1>1, <1>2 DEF A!Stored

LEMMA FollowsEnds ==
  ASSUME TypeOK, NEW p \in Procs, NEW failed, Follows(p, failed)
  PROVE  \A q \in Procs : Kept(q) \/ ~InStatus(q)'
  <1>1. CASE Goes(p, Idle)
    BY <1>1 DEF Goes, TypeOK, Kept, InStatus, pc, Idle
  <1>2. CASE Goes(p, [Idle EXCEPT !.pc = "drop"])
    <2>1. [Idle EXCEPT !.pc = "drop"].pc = "drop"
      BY DEF Idle
    <2> QED BY <1>2, <2>1 DEF Goes, TypeOK, Kept, InStatus, pc
  <1>3. ASSUME NEW q \in Procs \ {Worker},
               task' = [task EXCEPT ![p] = Idle, ![q] =
                 [Idle EXCEPT !.pc = "watch", !.deletes = task[p].deletes]]
        PROVE  \A r \in Procs : Kept(r) \/ ~InStatus(r)'
    <2> DEFINE t == [Idle EXCEPT !.pc = "watch", !.deletes = task[p].deletes]
    <2>1. t.pc = "watch" /\ Idle.pc = "idle"
      BY DEF Idle
    <2>2. task' = [task EXCEPT ![p] = Idle, ![q] = t]
      BY <1>3
    <2> HIDE DEF t
    <2>3. ASSUME NEW r \in Procs
          PROVE  task'[r] = task[r] \/ task'[r] = Idle \/ task'[r] = t
      BY <2>2 DEF TypeOK
    <2> QED BY <2>1, <2>3 DEF Kept, InStatus, pc
  <1> QED BY <1>1, <1>2, <1>3 DEF Follows

LEMMA UserPhases == IInv /\ Users => PhaseMoves
  <1> SUFFICES ASSUME IInv, Users PROVE PhaseMoves
    OBVIOUS
  <1>1. UNCHANGED <<task, record>> /\ \A q \in Procs : Kept(q)
    BY DEF Users, UserCreates, UserEdits, UserDeletes, UserDoes, Kept, InStatus, pc
  <1>2. CASE UserDeletes
    <2>1. /\ object # Absent /\ object \in Confs /\ UNCHANGED alone
          /\ object' = A!Stored([object EXCEPT !.marked = TRUE])
      BY <1>2 DEF UserDeletes, UserDoes, Stores, IInv, TypeOK
    <2>2. [object EXCEPT !.marked = TRUE].status = object.status
      BY <2>1 DEF Confs
    <2> QED BY <1>1, <2>1, <2>2 DEF A!Stored, PhaseMoves, Keeps
  <1>3. ASSUME NEW s \in Specs, UserCreates(s)
        PROVE  PhaseMoves
    BY <1>3 DEF UserCreates, PhaseMoves
  <1>4. ASSUME NEW s \in Specs, UserEdits(s)
        PROVE  PhaseMoves
    <2>1. /\ object # Absent /\ object \in Confs /\ UNCHANGED alone
          /\ object' = [object EXCEPT !.spec = s]
      BY <1>4 DEF UserEdits, UserDoes, Stores, IInv, TypeOK
    <2> QED BY <1>1, <2>1 DEF Confs, PhaseMoves, Keeps
  <1> QED BY <1>2, <1>3, <1>4 DEF Users

LEMMA WorkerPhases == IInv /\ WorkerStep => PhaseMoves
  <1> SUFFICES ASSUME IInv, WorkerStep PROVE PhaseMoves
    OBVIOUS
  <1> USE DEF IInv
  <1>0. Idle.pc = "idle" /\ task[Worker] \in Tasks
    BY IdleIsTask DEF TypeOK
  <1>1. CASE HandleNothing
    BY <1>1 DEF HandleNothing, Same, Quiet, PhaseMoves, Keeps, Kept, InStatus, pc
  <1>2. CASE HandleEdit
    <2>1. At(Worker, "addGet").pc = "addGet" /\ ~InStatus(Worker)
      BY <1>0, <1>2 DEF HandleEdit, At, Tasks, InStatus
    <2>2. \A q \in Procs : Kept(q)
      BY <1>2, <2>1, GoesKeeps DEF HandleEdit
    <2> QED BY <1>2, <2>2 DEF HandleEdit, Same, PhaseMoves, Keeps
  <1>3. CASE HandleDelete
    <2>1. CASE Goes(Worker, At(Worker, "removeGet")) /\ UNCHANGED <<record, alone>>
      <3>1. At(Worker, "removeGet").pc = "removeGet" /\ ~InStatus(Worker)
        BY <1>0, <1>3 DEF HandleDelete, At, Tasks, InStatus
      <3>2. \A q \in Procs : Kept(q)
        BY <2>1, <3>1, GoesKeeps
      <3> QED BY <1>3, <2>1, <3>2 DEF HandleDelete, Same, PhaseMoves, Keeps
    <2>2. ASSUME NEW phase \in Phases, Sets(Worker, phase, TRUE)
          PROVE  PhaseMoves
      BY <2>2, SetsStarts DEF PhaseMoves
    <2> QED BY <1>3, <2>1, <2>2 DEF HandleDelete, Phases
  <1>4. CASE AddGet
    <2>1. ~InStatus(Worker) /\ UNCHANGED <<object, record, alone>>
      BY <1>4 DEF AddGet, InStatus, Same, Quiet
    <2>2. CASE Goes(Worker, Idle)
      BY <1>0, <2>1, <2>2, GoesKeeps DEF PhaseMoves, Keeps
    <2>3. CASE Get(Worker, "addPut")
      <3> DEFINE t == [task[Worker] EXCEPT !.pc = "addPut", !.conf = object, !.version = version]
      <3>1. t.pc = "addPut" /\ Goes(Worker, t)
        BY <1>0, <2>3 DEF Get, Tasks
      <3> HIDE DEF t
      <3> QED BY <2>1, <3>1, GoesKeeps DEF PhaseMoves, Keeps
    <2> QED BY <1>4, <2>2, <2>3 DEF AddGet
  <1>5. CASE AddPut
    <2>1. [Idle EXCEPT !.pc = "added"].pc = "added"
      BY DEF Idle
    <2>2. \A q \in Procs : Kept(q)
      BY <1>5, <2>1, GoesKeeps DEF AddPut, InStatus
    <2> QED BY <1>5, <2>2, UpdateKeepsStatus DEF AddPut, Quiet, PhaseMoves, Keeps
  <1>6. CASE AddConflict
    <2>1. \A q \in Procs : Kept(q)
      BY <1>0, <1>6, GoesKeeps DEF AddConflict, InStatus
    <2> QED BY <1>6, <2>1 DEF AddConflict, Same, Quiet, PhaseMoves, Keeps
  <1>7. CASE Deploy
    BY <1>7, SetsStarts DEF Deploy, Phases, PhaseMoves
  <1> QED BY <1>1, <1>2, <1>3, <1>4, <1>5, <1>6, <1>7 DEF WorkerStep

LEMMA GoroutinePhases ==
  ASSUME IInv, NEW p \in Procs, Goroutine(p)
  PROVE  PhaseMoves
  <1> USE DEF IInv
  <1>0. Idle.pc = "idle" /\ task[p] \in Tasks
    BY IdleIsTask DEF TypeOK
  <1>1. CASE StatusGone(p)
    BY <1>1, FollowsEnds
       DEF StatusGone, Follows, Same, Quiet, InStatus, PhaseMoves, Ends
  <1>2. CASE StatusGet(p)
    <2> DEFINE t == [task[p] EXCEPT !.pc = "statusPut", !.conf = object, !.version = version]
    <2>1. t.pc = "statusPut" /\ t.phase = task[p].phase /\ Goes(p, t) /\ InStatus(p)
      BY <1>0, <1>2 DEF StatusGet, Get, Tasks, InStatus
    <2> HIDE DEF t
    <2>2. \A q \in Procs : Kept(q)
      BY <2>1, GoesKeeps
    <2> QED BY <1>2, <2>2 DEF StatusGet, Same, Quiet, PhaseMoves, Keeps
  <1>3. CASE StatusPut(p)
    <2>1. InStatus(p)
      BY <1>3 DEF StatusPut, InStatus
    <2>2. PICK message \in Messages : UpdateStatus(p, message)
      BY <1>3 DEF StatusPut, Messages
    <2>3. /\ object # Absent /\ object \in Confs
          /\ object' = [object EXCEPT !.status =
               A!NewStatus(object.status, task[p].phase, message)]
      BY <2>1, <2>2, UpdateStatusChanges DEF A!SetStatus, TypeOK
    <2>4. object'.status.phase = task[p].phase
      BY <2>3 DEF Confs, A!NewStatus
    <2>5. UNCHANGED <<alone, record>> /\ \A q \in Procs : Kept(q) \/ ~InStatus(q)'
      BY <1>3, FollowsEnds DEF StatusPut, Follows
    <2> QED BY <2>1, <2>4, <2>5 DEF PhaseMoves, Ends
  <1>4. CASE StatusConflict(p)
    BY <1>4 DEF StatusConflict, PhaseMoves
  <1>5. CASE WatcherEnds(p)
    <2>1. CASE Goes(p, [Idle EXCEPT !.pc = "drop"]) /\ UNCHANGED <<record, alone>>
      <3>1. [Idle EXCEPT !.pc = "drop"].pc = "drop" /\ ~InStatus(p)
        BY <1>5 DEF Idle, WatcherEnds, InStatus
      <3>2. \A q \in Procs : Kept(q)
        BY <2>1, <3>1, GoesKeeps
      <3> QED BY <1>5, <2>1, <3>2 DEF WatcherEnds, Same, PhaseMoves, Keeps
    <2>2. ASSUME NEW phase \in Phases, NEW deletes, Sets(p, phase, deletes)
          PROVE  PhaseMoves
      BY <2>2, SetsStarts DEF PhaseMoves
    <2> QED BY <1>5, <2>1, <2>2 DEF WatcherEnds, Phases
  <1>6. CASE Drop(p)
    <2>1. At(p, "removeGet").pc = "removeGet" /\ ~InStatus(p)
      BY <1>0, <1>6 DEF Drop, At, Tasks, InStatus
    <2>2. \A q \in Procs : Kept(q)
      BY <1>6, <2>1, GoesKeeps DEF Drop
    <2> QED BY <1>6, <2>2 DEF Drop, Same, Quiet, PhaseMoves, Keeps
  <1>7. CASE RemoveGet(p)
    <2>1. ~InStatus(p) /\ UNCHANGED <<object, record, alone>>
      BY <1>7 DEF RemoveGet, InStatus, Same, Quiet
    <2>2. CASE Goes(p, Idle)
      BY <1>0, <2>1, <2>2, GoesKeeps DEF PhaseMoves, Keeps
    <2>3. CASE Get(p, "removePut")
      <3> DEFINE t == [task[p] EXCEPT !.pc = "removePut", !.conf = object, !.version = version]
      <3>1. t.pc = "removePut" /\ Goes(p, t)
        BY <1>0, <2>3 DEF Get, Tasks
      <3> HIDE DEF t
      <3> QED BY <2>1, <3>1, GoesKeeps DEF PhaseMoves, Keeps
    <2> QED BY <1>7, <2>2, <2>3 DEF RemoveGet
  <1>8. CASE RemovePut(p)
    <2>1. \A q \in Procs : Kept(q)
      BY <1>0, <1>8, GoesKeeps DEF RemovePut, InStatus
    <2> QED BY <1>8, <2>1, UpdateKeepsStatus DEF RemovePut, Quiet, PhaseMoves, Keeps
  <1>9. CASE RemoveConflict(p)
    <2>1. \A q \in Procs : Kept(q)
      BY <1>0, <1>9, GoesKeeps DEF RemoveConflict, InStatus
    <2> QED BY <1>9, <2>1 DEF RemoveConflict, Same, Quiet, PhaseMoves, Keeps
  <1> QED BY <1>1, <1>2, <1>3, <1>4, <1>5, <1>6, <1>7, <1>8, <1>9 DEF Goroutine

LEMMA MovesSettle ==
  PhaseSettles /\ PhasePending /\ PhaseMoves => PhaseSettles' /\ PhasePending'
  <1> SUFFICES ASSUME PhaseSettles, PhasePending, PhaseMoves
               PROVE  PhaseSettles' /\ PhasePending'
    OBVIOUS
  <1>1. CASE ~alone'
    BY <1>1 DEF PhaseSettles, PhasePending
  <1>2. CASE Keeps
    BY <1>2 DEF Keeps, Kept, PhaseSettles, PhasePending
  <1>3. ASSUME NEW p \in Procs, Starts(p) PROVE PhaseSettles' /\ PhasePending'
    BY <1>3 DEF Starts, PhaseSettles, PhasePending
  <1>4. ASSUME NEW p \in Procs, Ends(p) PROVE PhaseSettles' /\ PhasePending'
    BY <1>4 DEF Ends, Kept, PhaseSettles, PhasePending
  <1> QED BY <1>1, <1>2, <1>3, <1>4 DEF PhaseMoves

(* The record is written first and the object later, by whichever          *)
(* goroutine (appstack.go:579-605): once the last SetProgressing, SetReady *)
(* or SetError has run alone and met no conflict, they agree, however many *)
(* goroutines there are and whatever users do in between.                  *)
THEOREM PhasesAgree == Spec => []PhaseSettles
  <1>1. Init => PhaseSettles /\ PhasePending
    BY DEF Init, PhaseSettles, PhasePending
  <1>2. IInv /\ PhaseSettles /\ PhasePending /\ [Next]_vars => PhaseSettles' /\ PhasePending'
    <2> SUFFICES ASSUME IInv, PhaseSettles, PhasePending, [Next]_vars
                 PROVE  PhaseSettles' /\ PhasePending'
      OBVIOUS
    <2>1. CASE Next
      BY <2>1, UserPhases, WorkerPhases, GoroutinePhases, MovesSettle DEF Next
    <2>2. CASE UNCHANGED vars
      BY <2>2 DEF vars, PhaseSettles, PhasePending, InStatus, pc
    <2> QED BY <2>1, <2>2
  <1> QED BY <1>1, <1>2, Invariance, PTL DEF Spec
=============================================================================
