--------------------------- MODULE DeletionProofs ---------------------------
(***************************************************************************)
(* What RosController guarantees of deletions, whatever fails: it asks ROS *)
(* to delete a stack only after a user has deleted its application, and it *)
(* forgets the id of a stack only when ROS is about to delete it.  Both    *)
(* rest on retired applications: their objects are marked for deletion, or *)
(* gone, which nothing undoes, and the worker does not apply them.  The    *)
(* last part is about the list: what it holds is recovered after a crash.  *)
(***************************************************************************)
EXTENDS ControllerProofs

(* Nobody deletes stacks at the console. *)
NobodyElseDeletes == \A m \in Moves : m[2] # "DELETE_IN_PROGRESS"

-----------------------------------------------------------------------------
(* The objects.                                                            *)

(* What is going does not come back, unless its name is used again. *)
LEMMA GoingStays ==
  ASSUME IInv, Next, ~ReuseNames, NEW a \in Apps, Going(a)
  PROVE  Going(a)'
  <1>0. ConfMoves /\ conf \in [Apps -> Confs] /\ conf[a].state \in {"deleting", "gone"}
    BY NextConf DEF Going, IInv, TypeOK, ConfTypeOK
  <1>1. ASSUME NEW b \in Apps, NEW c, Change(b, c),
               b = a => c.state \in {"deleting", "gone"}
        PROVE  Going(a)'
    BY <1>0, <1>1 DEF Change, Going
  <1>2. ASSUME NEW b \in Apps, UserCreates(b)
        PROVE  Going(a)'
    <2>1. b # a
      BY <1>0, <1>2 DEF UserCreates
    <2> QED BY <1>2, <2>1, <1>1 DEF UserCreates, UserDoes
  <1>3. ASSUME NEW b \in Apps, UserEdits(b)
        PROVE  Going(a)'
    <2>1. PICK t \in Specs : UserDoes(b, [conf[b] EXCEPT !.spec = t])
      BY <1>3 DEF UserEdits
    <2>2. b = a => [conf[b] EXCEPT !.spec = t].state \in {"deleting", "gone"}
      BY <1>0 DEF Confs
    <2> QED BY <2>1, <2>2, <1>1 DEF UserDoes
  <1>4. ASSUME NEW b \in Apps, UserDeletes(b)
        PROVE  Going(a)'
    <2>1. b # a
      BY <1>0, <1>4 DEF UserDeletes
    <2> QED BY <1>4, <2>1, <1>1 DEF UserDeletes, UserDoes
  <1>5. ASSUME NEW b \in Apps, AddCleanUpFinalizer(b)
        PROVE  Going(a)'
    <2>1. b = a => [conf[b] EXCEPT !.fin = TRUE].state \in {"deleting", "gone"}
      BY <1>0 DEF Confs
    <2> QED BY <1>5, <2>1, <1>1 DEF AddCleanUpFinalizer
  <1>6. ASSUME NEW b \in Apps, RemoveCleanUpFinalizer(b)
        PROVE  Going(a)'
    <2> DEFINE c == CASE conf[b].state = "live"     -> [conf[b] EXCEPT !.fin = FALSE]
                      [] conf[b].state = "deleting" -> GoneConf
                      [] OTHER                      -> conf[b]
    <2>1. Change(b, c)
      BY <1>6 DEF RemoveCleanUpFinalizer
    <2>2. b = a => c.state \in {"deleting", "gone"}
      BY <1>0 DEF GoneConf, NoConf
    <2> HIDE DEF c
    <2> QED BY <2>1, <2>2, <1>1
  <1>7. ASSUME NEW b \in Apps, NEW phase \in Phases, SetAppCondition(b, phase)
        PROVE  Going(a)'
    <2>1. conf'[a].state = conf[a].state
      BY <1>0, <1>7 DEF SetAppCondition, Confs
    <2> QED BY <1>0, <2>1 DEF Going
  <1>8. CASE UNCHANGED conf
    BY <1>0, <1>8 DEF Going
  <1> QED
    BY <1>0, <1>2, <1>3, <1>4, <1>5, <1>6, <1>7, <1>8 DEF ConfMoves, InformerResyncs

-----------------------------------------------------------------------------
(* The goroutines.                                                         *)

(* What a step makes of a goroutine: nothing, a flow, a watcher, or one    *)
(* that is not at work on an application.                                  *)
Turns(q) ==
  \/ proc'[q] = proc[q]
  \/ Flow(q, proc[q], proc'[q])
  \/ proc'[q].pc \in Unassigned
  \/ /\ q # Worker /\ proc'[q].pc = "wait" /\ proc'[q].app \in Apps /\ rec' = rec
     /\ \/ /\ pc(Worker) \in {"spawn", "spawnRequeue"}
           /\ proc'[q].app = app(Worker) /\ proc'[q].id = proc[Worker].id
        \/ proc'[q].id = rec[proc'[q].app].sid

LEMMA NextTurns ==
  ASSUME IInv, Next, NEW q \in Procs
  PROVE  Turns(q)
  <1>0. /\ proc \in [Procs -> Locals] /\ Worker \in Procs /\ Watchers \subseteq Procs
        /\ Worker \notin Watchers
    BY InvFacts, DomainAssumption DEF ProcsOK
  <1>1. CASE Flows
    <2>1. PICK p \in Procs : /\ proc' = [proc EXCEPT ![p] = proc'[p]]
                             /\ Flow(p, proc[p], proc'[p])
      BY <1>1 DEF Flows
    <2>2. q # p => proc'[q] = proc[q]
      BY <1>0, <2>1
    <2> QED BY <2>1, <2>2 DEF Turns
  <1>2. CASE StartFlow
    <2>1. PICK w \in Watchers, m \in Locals : WatcherStarts(w, m) /\ m = proc'[Worker]
      BY <1>2 DEF StartFlow, WatcherStarts
    <2>2. PICK l \in Locals : /\ proc' = [proc EXCEPT ![w] = l, ![Worker] = m]
                              /\ l.pc = "wait" /\ l.app \in Apps
                              /\ \/ /\ pc(Worker) \in {"spawn", "spawnRequeue"}
                                    /\ l.app = app(Worker) /\ l.id = proc[Worker].id
                                 \/ l.id = rec[l.app].sid
      BY <2>1 DEF WatcherStarts
    <2>3. m.pc \in Unassigned
      BY <2>1 DEF WatcherStarts, Unassigned
    <2>4. proc'[q] = IF q = Worker THEN m ELSE IF q = w THEN l ELSE proc[q]
      BY <1>0, <2>2
    <2> QED BY <1>0, <1>2, <2>2, <2>3, <2>4 DEF Turns, StartFlow
  <1>3. CASE OutsideFlow
    BY <1>3 DEF OutsideFlow, Turns
  <1>4. CASE Ends
    <2>1. proc'[q] = At(IF q = Worker THEN "load" ELSE "idle")
      BY <1>4 DEF Ends, Booted
    <2>2. proc'[q].pc \in {"load", "idle"}
      BY <2>1 DEF At
    <2> QED BY <2>2 DEF Turns, Unassigned
  <1> QED BY <1>1, <1>2, <1>3, <1>4, NextFlows DEF AllFlows

(* The handlers begin with an object that is live, or marked for deletion; *)
(* the recovery and the watchers never enter them.                         *)
LEMMA HandlersBegin ==
  ASSUME IInv, NEW m \in Locals, Flow(Worker, proc[Worker], m)
  PROVE  /\ m.pc \in Applying =>
              \/ proc[Worker].pc \in Applying /\ m.app = proc[Worker].app
              \/ m.app \in Apps /\ conf[m.app].state = "live"
         /\ m.pc \in DeletionPlaces =>
              \/ proc[Worker].pc \in DeletionPlaces /\ m.app = proc[Worker].app
              \/ m.app \in Apps /\ conf[m.app].state = "deleting"
  <1> DEFINE l == proc[Worker]
  <1>1. l.ok \in Returns /\ l.fail \in Returns
    BY InvFacts DEF Knows
  <1> HIDE DEF l
  <1> USE DEF Applying, DeletionPlaces, Reaches, Same, Inside, Goes, Enters, Returns
  <1>2. CASE HandlerFlow(l, m)
    BY <1>2 DEF HandlerFlow, InSuccession, l
  <1>3. CASE FinalizerFlow(l, m)
    BY <1>3 DEF FinalizerFlow, l
  <1>4. CASE FailureFlow(l, m) \/ ConflictFlow(l, m)
    BY <1>1, <1>4 DEF FailureFlow, ConflictFlow, l
  <1>5. CASE ProcedureFlow(l, m)
    BY <1>1, <1>5 DEF ProcedureFlow
  <1>6. CASE RequestFlow(l, m)
    BY <1>6 DEF RequestFlow
  <1>7. CASE WriteFlow(l, m)
    BY <1>1, <1>7 DEF WriteFlow
  <1> QED BY <1>2, <1>3, <1>4, <1>5, <1>6, <1>7 DEF Flow, l

(* A goroutine forgets an application from within Delete, or as a watcher  *)
(* whose stack is being deleted.                                           *)
LEMMA DroppingBegins ==
  ASSUME IInv, NEW p \in Procs, NEW m \in Locals, Flow(p, proc[p], m), Dropping(m)
  PROVE  /\ m.app = proc[p].app /\ proc[p].pc \notin Unassigned
         /\ \/ Dropping(proc[p])
            \/ p = Worker /\ proc[p].pc \in DeletionPlaces
            \/ /\ proc[p].pc = "wait" /\ proc[p].id # None /\ m.id = proc[p].id
               /\ stack[proc[p].id].status \in InDelete
  <1> DEFINE l == proc[p]
  <1>1. l.ok \in Returns /\ l.fail \in Returns
    BY InvFacts DEF Knows
  <1> HIDE DEF l
  <1> USE DEF Dropping, DropPlaces, InProcedure, DeletionPlaces, Unassigned, Reaches, Same,
              Inside, Goes, Enters, Returns
  <1>2. CASE HandlerFlow(l, m) /\ p = Worker
    BY <1>2 DEF HandlerFlow, InSuccession, l
  <1>3. CASE FinalizerFlow(l, m)
    BY <1>3 DEF FinalizerFlow
  <1>4. CASE WatcherFlow(l, m)
    <2>1. CASE /\ l.pc = "wait" /\ l.id # None /\ m.app = l.app /\ m.id = l.id
               /\ m.inDelete = (stack[l.id].status \in InDelete)
               /\ m.pc = CASE stack[l.id].status \in Deployed     -> "saveOutputs"
                           [] stack[l.id].status \in Unsuccessful -> "failed"
                           [] OTHER                               -> "drop"
               /\ stack[l.id].status \in Settled
      <3>1. m.pc \in {"saveOutputs", "failed", "drop"}
        BY <2>1
      <3>2. m.pc = "drop" => stack[l.id].status = "DELETE_COMPLETE"
        BY <2>1 DEF Settled, Succeeded, Deployed
      <3>3. stack[l.id].status \in InDelete
        BY <2>1, <3>1, <3>2 DEF InDelete
      <3> QED BY <2>1, <3>3 DEF l
    <2>2. CASE l.pc = "ready" /\ Enters(l, m, "Ready", "idle", "idle")
      BY <2>2
    <2>3. CASE /\ l.pc = "failed"
               /\ LET next == IF l.inDelete THEN "drop" ELSE "idle" IN
                  Enters(l, m, "Failed", next, next)
      BY <2>3 DEF l
    <2>4. CASE l.pc = "drop" /\ Enters(l, m, "Delete", "wFinalizer", "wFinalizer")
      BY <2>4 DEF l
    <2> QED BY <1>4, <2>1, <2>2, <2>3, <2>4 DEF WatcherFlow
  <1>5. CASE FailureFlow(l, m) \/ ConflictFlow(l, m)
    BY <1>1, <1>5 DEF FailureFlow, ConflictFlow, l
  <1>6. CASE ProcedureFlow(l, m)
    BY <1>1, <1>6 DEF ProcedureFlow, l
  <1>7. CASE RequestFlow(l, m)
    BY <1>7 DEF RequestFlow
  <1>8. CASE WriteFlow(l, m)
    BY <1>1, <1>8 DEF WriteFlow, l
  <1> QED BY <1>2, <1>3, <1>4, <1>5, <1>6, <1>7, <1>8 DEF Flow, l

(* A retired application stays so. *)
LEMMA RetiredStays ==
  ASSUME IInv, Next, ~ReuseNames, NEW a \in Apps, Retired(a)
  PROVE  Retired(a)'
  <1>1. Going(a) /\ Going(a)'
    BY GoingStays DEF Retired
  <1>2. ASSUME proc'[Worker].pc \in Applying, proc'[Worker].app = a
        PROVE  FALSE
    <2>1. ~(proc[Worker].pc \in Applying /\ proc[Worker].app = a)
      BY DEF Retired, pc, app
    <2>2. Worker \in Procs /\ proc'[Worker] \in Locals
      BY NextInv, InvFacts DEF IInv, TypeOK, AppStackTypeOK
    <2>3. Flow(Worker, proc[Worker], proc'[Worker])
      BY <1>2, <2>1, <2>2, NextTurns DEF Turns, Unassigned, Applying
    <2> QED BY <1>1, <1>2, <2>1, <2>2, <2>3, HandlersBegin DEF Going
  <1> QED BY <1>1, <1>2 DEF Retired, pc, app

-----------------------------------------------------------------------------
(* The stacks.                                                             *)

(* A stack enters deletion by the request of Delete, and leaves it by an   *)
(* update only.                                                            *)
LEMMA StackDeletions ==
  ASSUME IInv, Next, NobodyElseDeletes, NEW i \in Ids
  PROVE  /\ stack[i].status # "ABSENT" => stack'[i].app = stack[i].app
         /\ stack'[i].status \in InDelete /\ stack'[i].status # stack[i].status =>
              \/ pc(Worker) = "delCall" /\ proc[Worker].id = i
              \/ stack[i].status \in InDelete /\ stack'[i].status # "DELETE_IN_PROGRESS"
         /\ stack[i].status \in InDelete /\ stack'[i].status \notin InDelete =>
              pc(Worker) = "cuUpdate" /\ proc[Worker].id = i
  <1> DEFINE Goal ==
        /\ stack[i].status # "ABSENT" => stack'[i].app = stack[i].app
        /\ stack'[i].status \in InDelete /\ stack'[i].status # stack[i].status =>
             \/ pc(Worker) = "delCall" /\ proc[Worker].id = i
             \/ stack[i].status \in InDelete /\ stack'[i].status # "DELETE_IN_PROGRESS"
        /\ stack[i].status \in InDelete /\ stack'[i].status \notin InDelete =>
             pc(Worker) = "cuUpdate" /\ proc[Worker].id = i
  <1>0. stack \in [Ids -> Stacks]
    BY InvFacts DEF RosTypeOK
  <1>1. CASE SameRos
    BY <1>1 DEF SameRos, rosVars
  <1>2. ASSUME NEW j \in Ids, NEW v, stack' = [stack EXCEPT ![j] = v],
               j = i => Goal
        PROVE  Goal
    BY <1>0, <1>2
  <1>3. CASE \E m \in Locals : RequestFlow(proc[Worker], m)
    <2> DEFINE l == proc[Worker]
    <2>1. l.pc = pc(Worker) /\ l.id \in Ids \cup {None} /\ Knows(stack, accepted, l)
      BY InvFacts DEF pc, Knows, Locals
    <2>2. PICK j \in Ids :
            \/ l.pc = "cuCreate" /\ StackCreated(l.app, l.want, j)
            \/ l.pc = "cuUpdate" /\ StackUpdated(l.id, l.want) /\ j = l.id
            \/ l.pc = "delCall" /\ StackDeleted(l.id) /\ j = l.id
      BY <1>3, <2>1 DEF RequestFlow, Knows
    <2>3. CASE StackCreated(l.app, l.want, j)
      BY <1>0, <2>3 DEF StackCreated, InDelete
    <2>4. CASE l.pc = "cuUpdate" /\ StackUpdated(l.id, l.want) /\ j = l.id
      BY <1>0, <2>1, <2>4 DEF StackUpdated, Stacks, InDelete
    <2>5. CASE l.pc = "delCall" /\ StackDeleted(l.id) /\ j = l.id
      BY <1>0, <2>1, <2>5 DEF StackDeleted, Stacks, InDelete
    <2> QED BY <2>2, <2>3, <2>4, <2>5
  <1>4. CASE RosStep
    <2>1. PICK j \in Ids, m \in Moves :
            /\ stack[j].status = m[1]
            /\ stack' = [stack EXCEPT ![j] = [@ EXCEPT !.status = m[2],
                 !.tmpl = IF m[2] = "ROLLBACK_COMPLETE" THEN stack[j].prev ELSE stack[j].tmpl]]
      BY <1>4 DEF RosStep, StackMoves
    <2> DEFINE t == IF m[2] = "ROLLBACK_COMPLETE" THEN stack[j].prev ELSE stack[j].tmpl
               v == [stack[j] EXCEPT !.status = m[2], !.tmpl = t]
    <2>2. stack' = [stack EXCEPT ![j] = v]
      BY <2>1
    <2> HIDE DEF t
    <2>3. v.app = stack[j].app /\ v.status = m[2]
      BY <1>0 DEF Stacks
    <2> HIDE DEF v
    <2>4. m[2] # "DELETE_IN_PROGRESS"
      BY DEF NobodyElseDeletes
    <2>5. m[1] \in InDelete <=> m[2] \in InDelete
      BY <2>4, RosAssumption DEF ServiceMoves, ConsoleMoves, InDelete, Deployed, Settled
    <2> QED BY <1>0, <1>2, <2>1, <2>2, <2>3, <2>4, <2>5
  <1> QED BY <1>1, <1>3, <1>4, NextFlows
    DEF AllFlows, Flows, Flow, StartFlow, OutsideFlow, UserStep, Ends

-----------------------------------------------------------------------------
(* DeletionInv is inductive, together with IInv.                           *)

LEMMA NextDeletion ==
  ASSUME IInv, DeletionInv, Next, ~ReuseNames, NobodyElseDeletes
  PROVE  DeletionInv'
  <1>0. /\ Worker \in Procs /\ proc' \in [Procs -> Locals]
        /\ \A q \in Procs : /\ Knows(stack, accepted, proc[q])
                            /\ pc(q) \notin Unassigned => app(q) \in Apps
    BY NextInv, InvFacts DEF IInv, TypeOK, AppStackTypeOK
  <1>1. OnRequest'
    <2> SUFFICES ASSUME proc'[Worker].pc \in DeletionPlaces
                 PROVE  conf'[proc'[Worker].app].state \in {"deleting", "gone"}
      BY DEF OnRequest, pc, app, Going
    <2>1. proc'[Worker].app \in Apps /\ Going(proc'[Worker].app)
      <3>1. CASE proc[Worker].pc \in DeletionPlaces /\ proc'[Worker].app = proc[Worker].app
        BY <1>0, <3>1 DEF DeletionInv, OnRequest, DeletionPlaces, Unassigned, pc, app
      <3>2. CASE proc'[Worker].app \in Apps /\ conf[proc'[Worker].app].state = "deleting"
        BY <3>2 DEF Going
      <3>3. proc'[Worker] = proc[Worker] \/ Flow(Worker, proc[Worker], proc'[Worker])
        BY <1>0, NextTurns DEF Turns, Unassigned, DeletionPlaces
      <3> QED BY <1>0, <3>1, <3>2, <3>3, HandlersBegin
    <2>2. ASSUME NEW a \in Apps, Going(a) PROVE conf'[a].state \in {"deleting", "gone"}
      BY <2>2, GoingStays DEF Going
    <2> QED BY <2>1, <2>2
  <1> DEFINE StillRetired(a) ==
        conf'[a].state \in {"deleting", "gone"}
          /\ ~(proc'[Worker].pc \in Applying /\ proc'[Worker].app = a)
  <1>r. ASSUME NEW a \in Apps, Retired(a) PROVE StillRetired(a)
    BY <1>r, RetiredStays DEF Retired, Going, pc, app
  <1>2. ASSUME NEW i \in Ids, stack'[i].status \in InDelete
        PROVE  stack'[i].app \in Apps /\ StillRetired(stack'[i].app)
    <2>1. stack[i].status # "ABSENT" /\ stack[i].app \in Apps /\ Retired(stack[i].app)
      <3>1. CASE stack[i].status \in InDelete
        BY <3>1 DEF DeletionInv, InDelete
      <3>2. CASE pc(Worker) = "delCall" /\ proc[Worker].id = i
        <4>1. app(Worker) \in Apps /\ Going(app(Worker)) /\ stack[i].app = app(Worker)
          BY <1>0, <3>2, DomainAssumption
             DEF DeletionInv, OnRequest, DeletionPlaces, Unassigned, Knows, pc, app
        <4>2. stack[i].status # "ABSENT"
          BY <4>1, InvFacts, DomainAssumption DEF StacksOwned
        <4> QED BY <3>2, <4>1, <4>2 DEF Retired, Applying
      <3> QED BY <1>2, <3>1, <3>2, StackDeletions
    <2>2. stack'[i].app = stack[i].app
      BY <2>1, StackDeletions
    <2> QED BY <2>1, <2>2, <1>r
  <1>3. ASSUME NEW p \in Procs, Dropping(proc'[p])
        PROVE  proc'[p].app \in Apps /\ StillRetired(proc'[p].app)
    <2>1. proc'[p].app = proc[p].app /\ proc[p].app \in Apps /\ Retired(proc[p].app)
      <3>1. CASE Dropping(proc[p]) /\ proc'[p].app = proc[p].app
        BY <3>1 DEF DeletionInv, app
      <3>2. CASE p = Worker /\ proc[p].pc \in DeletionPlaces /\ proc'[p].app = proc[p].app
        BY <1>0, <3>2
           DEF DeletionInv, OnRequest, Retired, Applying, DeletionPlaces, Unassigned, pc, app
      <3>3. CASE /\ proc[p].pc = "wait" /\ proc[p].id # None /\ proc'[p].app = proc[p].app
                 /\ stack[proc[p].id].status \in InDelete
        <4>1. proc[p].id \in Ids /\ stack[proc[p].id].app = proc[p].app
          BY <1>0, <3>3 DEF Knows, Locals
        <4> QED BY <3>3, <4>1 DEF DeletionInv
      <3>4. proc'[p] = proc[p] \/ Flow(p, proc[p], proc'[p])
        BY <1>3, NextTurns DEF Turns, Unassigned, Dropping, DropPlaces, InProcedure
      <3> QED BY <1>0, <1>3, <3>1, <3>2, <3>3, <3>4, DroppingBegins
    <2> QED BY <2>1, <1>r
  <1> QED BY <1>1, <1>2, <1>3 DEF DeletionInv, Retired, Going, pc, app

LEMMA DeletionInvariance ==
  ASSUME ~ReuseNames, NobodyElseDeletes
  PROVE  Spec => [](IInv /\ DeletionInv)
  <1>1. Init => IInv /\ DeletionInv
    <2> SUFFICES ASSUME Init PROVE DeletionInv
      BY InitInv
    <2>1. /\ \A q \in Procs : /\ proc[q].pc \in {"load", "idle"}
          /\ \A i \in Ids : stack[i].status = "ABSENT"
          /\ Worker \in Procs
      BY DEF Init, Booted, At, RosInit, NoStack, Procs
    <2> QED BY <2>1 DEF DeletionInv, OnRequest, DeletionPlaces, Dropping, DropPlaces,
          InProcedure, InDelete, pc
  <1>2. IInv /\ DeletionInv /\ [Next]_vars => (IInv /\ DeletionInv)'
    <2>1. ASSUME IInv, DeletionInv, UNCHANGED vars
          PROVE  DeletionInv'
      BY <2>1 DEF vars, DeletionInv, OnRequest, Retired, Going, pc, app
    <2> QED BY <2>1, NextDeletion, NextInv, StutterInv
  <1> QED BY <1>1, <1>2, PTL DEF Spec

-----------------------------------------------------------------------------
(* Stacks are deleted on a user's request only (appconf.go:162-220), for   *)
(* any number of applications and goroutines, and with any crashes and     *)
(* lost answers, as long as names are not used again and nobody deletes    *)
(* stacks at the console.                                                  *)
THEOREM DeletedOnRequest ==
  ASSUME ~ReuseNames, NobodyElseDeletes
  PROVE  Spec => DeleteOnlyOnRequest
  <1> DEFINE Deletes(i) ==
        stack'[i].status = "DELETE_IN_PROGRESS" /\ stack[i].status # "DELETE_IN_PROGRESS"
             Asked == \A i \in Ids : Deletes(i) =>
                        conf[stack[i].app].state \in {"deleting", "gone"}
  <1>1. ASSUME IInv, DeletionInv, Next, NEW i \in Ids, Deletes(i)
        PROVE  conf[stack[i].app].state \in {"deleting", "gone"}
    <2>1. pc(Worker) = "delCall" /\ proc[Worker].id = i
      BY <1>1, StackDeletions DEF InDelete
    <2>2. proc[Worker].id # None /\ Knows(stack, accepted, proc[Worker])
      BY <2>1, <1>1, InvFacts, DomainAssumption
    <2>3. stack[i].app = app(Worker)
      BY <2>1, <2>2 DEF Knows, app
    <2> QED BY <1>1, <2>1, <2>3 DEF DeletionInv, OnRequest, DeletionPlaces, Going
  <1>2. IInv /\ DeletionInv /\ [Next]_vars => [Asked]_vars
    <2>1. ASSUME UNCHANGED vars PROVE [Asked]_vars
      BY <2>1
    <2> QED BY <1>1, <2>1
  <1>3. Spec => [](IInv /\ DeletionInv)
    BY DeletionInvariance
  <1>4. Spec => [][Asked]_vars
    BY <1>2, <1>3, PTL DEF Spec
  <1> QED BY <1>4 DEF DeleteOnlyOnRequest

-----------------------------------------------------------------------------
(* The stack ids an application is known by.                               *)

(* A write of the record puts in an id the goroutine has, or drops it. *)
LEMMA SidWritten ==
  ASSUME IInv, NEW p \in Procs, NEW m \in Locals, WriteFlow(proc[p], m), NEW a \in Apps
  PROVE  /\ \/ rec'[a].sid = rec[a].sid
            \/ /\ proc[p].app = a
               /\ \/ proc[p].pc = "dropRecord" /\ rec'[a].sid = None
                  \/ rec'[a].sid # None /\ Carries(proc[p], rec'[a].sid)
         /\ proc[p].app = a /\ proc[p].task = "Record" => rec'[a].sid # None
  <1> DEFINE l == proc[p]
             b == l.app
             new == IF l.task = "Record" THEN [l.snap EXCEPT !.sid = l.id, !.tmpl = l.want]
                                         ELSE [l.snap EXCEPT !.status = l.task]
  <1>0. l \in Locals /\ Knows(stack, accepted, l) /\ rec \in [Apps -> Records]
    BY InvFacts DEF Knows
  <1>1. l.pc \in {"setWrite", "nameOutputs", "dropRecord"}
    BY DEF WriteFlow
  <1>2. b \in Apps /\ rec[b] \in Records /\ l.snap \in Records
    BY <1>0, <1>1 DEF Knows, Unassigned, Locals
  <1>3. CASE l.pc = "setWrite" /\ rec' = [rec EXCEPT ![b] = Merge(@, new)]
    <2>1. new \in Records /\ new.sid = IF l.task = "Record" THEN l.id ELSE l.snap.sid
      <3>1. CASE l.task = "Record"
        BY <1>0, <1>2, <3>1 DEF Knows, Records, Locals
      <3>2. CASE l.task # "Record"
        <4>1. l.task \in RecStatuses
          BY <1>0, <1>3, <3>2 DEF Knows, TaskMatches, RecStatuses
        <4> QED BY <1>2, <3>2, <4>1 DEF Records
      <3> QED BY <3>1, <3>2
    <2>2. PICK r : r = Merge(rec[b], new)
      OBVIOUS
    <2>3. rec' = [rec EXCEPT ![b] = r]
      BY <1>3, <2>2
    <2> HIDE DEF new
    <2>4. r.sid = IF new.sid = None THEN rec[b].sid ELSE new.sid
      BY <1>2, <2>1, <2>2, MergeRecords
    <2>5. rec'[a].sid = IF a = b THEN r.sid ELSE rec[a].sid
      BY <1>0, <2>3
    <2>6. l.task = "Record" => l.id # None
      BY <1>0 DEF Knows
    <2> QED BY <1>3, <2>1, <2>4, <2>5, <2>6 DEF Carries, Unassigned
  <1>4. CASE l.pc = "nameOutputs" /\ rec' \in {rec, [rec EXCEPT ![b].outs = l.snap.outs]}
    <2>1. rec'[a].sid = rec[a].sid
      BY <1>0, <1>2, <1>4 DEF Records
    <2>2. l.task # "Record"
      BY <1>0, <1>4 DEF Knows, TaskMatches
    <2> QED BY <2>1, <2>2
  <1>5. CASE l.pc = "dropRecord" /\ rec' = [rec EXCEPT ![b] = NoRecord]
    <2>1. rec'[a].sid = IF a = b THEN None ELSE rec[a].sid
      BY <1>0, <1>5 DEF NoRecord
    <2>2. l.task # "Record"
      BY <1>0, <1>5 DEF Knows, TaskMatches
    <2> QED BY <1>5, <2>1, <2>2
  <1> QED BY <1>3, <1>4, <1>5 DEF WriteFlow

LEMMA SidChanges ==
  ASSUME IInv, Next, NEW a \in Apps, rec'[a].sid # rec[a].sid
  PROVE  \E p \in Procs :
           /\ proc[p].app = a
           /\ \/ proc[p].pc = "dropRecord" /\ rec'[a].sid = None
              \/ rec'[a].sid # None /\ Carries(proc[p], rec'[a].sid)
  <1>1. rec' # rec
    OBVIOUS
  <1>2. Flows
    BY <1>1, NextFlows DEF AllFlows, StartFlow, OutsideFlow, Ends
  <1>3. PICK p \in Procs, m \in Locals : Flow(p, proc[p], m)
    BY <1>2 DEF Flows
  <1>4. WriteFlow(proc[p], m)
    BY <1>1, <1>3 DEF Flow
  <1> QED BY <1>4, SidWritten

(* A goroutine learns an id from the record, or creates the stack. *)
LEMMA FlowCarries ==
  ASSUME IInv, NEW p \in Procs, NEW m \in Locals, Flow(p, proc[p], m), NEW i \in Ids,
         Carries(m, i)
  PROVE  /\ m.app = proc[p].app
         /\ \/ Carries(proc[p], i)
            \/ rec[m.app].sid = i
            \/ p = Worker /\ proc[p].pc = "cuCreate" /\ m.pc = "cuRecord" /\ m.id = i
  <1> DEFINE l == proc[p]
  <1>1. l.ok \in Returns /\ l.fail \in Returns
    BY InvFacts DEF Knows
  <1>2. None \notin Ids
    BY DomainAssumption
  <1> HIDE DEF l
  <1> USE DEF Carries, Unassigned, Reaches, Same, Inside, Goes, Enters, Returns
  <1>3. CASE HandlerFlow(l, m)
    BY <1>2, <1>3 DEF HandlerFlow, InSuccession, l
  <1>4. CASE FinalizerFlow(l, m)
    BY <1>4 DEF FinalizerFlow, l
  <1>5. CASE WatcherFlow(l, m)
    BY <1>5 DEF WatcherFlow, l
  <1>6. CASE FailureFlow(l, m) \/ ConflictFlow(l, m)
    BY <1>1, <1>6 DEF FailureFlow, ConflictFlow, InProcedure, l
  <1>7. CASE ProcedureFlow(l, m)
    BY <1>1, <1>7 DEF ProcedureFlow, l
  <1>8. CASE RequestFlow(l, m) /\ p = Worker
    BY <1>8 DEF RequestFlow, l
  <1>9. CASE WriteFlow(l, m)
    BY <1>1, <1>9 DEF WriteFlow, l
  <1> QED BY <1>3, <1>4, <1>5, <1>6, <1>7, <1>8, <1>9 DEF Flow, l

(* The ids an application is known by become fewer, but for a new stack. *)
LEMMA KnownStays ==
  ASSUME IInv, Next, NEW a \in Apps, NEW i \in Ids,
         rec'[a].sid = i \/ \E q \in Procs : proc'[q].app = a /\ Carries(proc'[q], i)
  PROVE  \/ i \in Known(a)
         \/ /\ proc[Worker].pc = "cuCreate" /\ proc[Worker].app = a
            /\ proc'[Worker].pc = "cuRecord" /\ proc'[Worker].id = i
  <1>0. Worker \in Procs /\ None \notin Ids
    BY InvFacts, DomainAssumption
  <1>1. CASE rec'[a].sid = i
    <2>1. CASE rec[a].sid = i
      BY <2>1 DEF Known
    <2>2. CASE rec[a].sid # i
      BY <1>0, <1>1, <2>2, SidChanges DEF Known, app
    <2> QED BY <2>1, <2>2
  <1>2. ASSUME NEW q \in Procs, proc'[q].app = a, Carries(proc'[q], i)
        PROVE  \/ i \in Known(a)
               \/ /\ proc[Worker].pc = "cuCreate" /\ proc[Worker].app = a
                  /\ proc'[Worker].pc = "cuRecord" /\ proc'[Worker].id = i
    <2>0. proc'[q] \in Locals
      BY NextInv DEF IInv, TypeOK, AppStackTypeOK
    <2>1. CASE proc'[q] = proc[q]
      BY <1>2, <2>1 DEF Known, app
    <2>2. CASE Flow(q, proc[q], proc'[q])
      BY <1>2, <2>0, <2>2, FlowCarries DEF Known, app
    <2>3. CASE proc'[q].pc = "wait" /\ proc'[q].id = rec[proc'[q].app].sid
      BY <1>2, <2>3 DEF Known, Carries
    <2>4. CASE /\ proc'[q].pc = "wait" /\ pc(Worker) \in {"spawn", "spawnRequeue"}
               /\ proc'[q].app = app(Worker) /\ proc'[q].id = proc[Worker].id
      BY <1>0, <1>2, <2>4 DEF Known, Carries, Unassigned, app, pc
    <2> QED BY <1>2, <2>1, <2>2, <2>3, <2>4, NextTurns DEF Turns, Carries
  <1> QED BY <1>1, <1>2

-----------------------------------------------------------------------------
(* What the goroutines come to next, as far as RecordInv is concerned.     *)

(* The worker's new id ends up in the record, or is forgotten. *)
LEMMA HoldingEnds ==
  ASSUME IInv, RecordInv, NEW m \in Locals, Flow(Worker, proc[Worker], m),
         Holding(proc[Worker])
  PROVE  m.pc \in Unassigned \/ Holding(m) \/ rec'[proc[Worker].app].sid # None
  <1> DEFINE l == proc[Worker]
  <1>1. /\ l.task = "Record" => l.pc = "setWrite"
        /\ l.pc = "setWrite" /\ l.task = "Record" => l.fail = "requeue"
        /\ Worker \in Procs
    BY InvFacts DEF Knows, TaskMatches, RecordInv, pc
  <1>2. l.pc = "cuRecord" \/ (l.pc = "setWrite" /\ l.task = "Record")
    BY <1>1 DEF Holding
  <1>3. CASE HandlerFlow(l, m)
    BY <1>2, <1>3 DEF HandlerFlow, InSuccession, Reaches, Enters, Holding
  <1>4. CASE FailureFlow(l, m) \/ ConflictFlow(l, m)
    BY <1>1, <1>2, <1>4 DEF FailureFlow, ConflictFlow, InProcedure, Goes, Unassigned
  <1>5. CASE WriteFlow(l, m)
    <2>1. l.pc = "setWrite" /\ l.task = "Record"
      BY <1>2, <1>5 DEF WriteFlow
    <2>2. l.app \in Apps
      BY <1>1, <2>1, InvFacts DEF Knows, Unassigned
    <2> QED BY <1>1, <1>5, <2>1, <2>2, SidWritten
  <1>6. ~FinalizerFlow(l, m) /\ ~WatcherFlow(l, m) /\ ~ProcedureFlow(l, m) /\ ~RequestFlow(l, m)
    BY <1>2 DEF FinalizerFlow, WatcherFlow, ProcedureFlow, RequestFlow
  <1> QED BY <1>3, <1>4, <1>5, <1>6 DEF Flow

(* SetIdAndTemplate begins with an error that ends the handler. *)
LEMMA RecordBegins ==
  ASSUME IInv, NEW p \in Procs, NEW m \in Locals, Flow(p, proc[p], m),
         m.pc = "setWrite", m.task = "Record"
  PROVE  m.fail = "requeue"
  <1> DEFINE l == proc[p]
  <1>1. l.ok \in Returns /\ l.fail \in Returns
    BY InvFacts DEF Knows
  <1> HIDE DEF l
  <1> USE DEF Reaches, Inside, Goes, Enters, Returns
  <1>2. CASE HandlerFlow(l, m)
    BY <1>2 DEF HandlerFlow, InSuccession
  <1>3. CASE FinalizerFlow(l, m)
    BY <1>3 DEF FinalizerFlow
  <1>4. CASE WatcherFlow(l, m)
    BY <1>4 DEF WatcherFlow
  <1>5. CASE FailureFlow(l, m) \/ ConflictFlow(l, m)
    BY <1>1, <1>5 DEF FailureFlow, ConflictFlow
  <1>6. CASE ProcedureFlow(l, m)
    BY <1>1, <1>6 DEF ProcedureFlow
  <1>7. CASE RequestFlow(l, m)
    BY <1>7 DEF RequestFlow
  <1>8. CASE WriteFlow(l, m)
    BY <1>1, <1>8 DEF WriteFlow
  <1> QED BY <1>2, <1>3, <1>4, <1>5, <1>6, <1>7, <1>8 DEF Flow, l

(* The worker comes to create a stack when the record has none, or when    *)
(* the one it was to update is no more.                                    *)
LEMMA CreateBegins ==
  ASSUME IInv, NEW m \in Locals, Flow(Worker, proc[Worker], m),
         m.pc \in {"cuFinalizer", "cuCreate"}
  PROVE  /\ m.app = proc[Worker].app
         /\ \/ /\ proc[Worker].pc = "cuStack" /\ m.pc = "cuFinalizer"
               /\ m.id = rec[m.app].sid
            \/ proc[Worker].pc = "cuFinalizer" /\ m.id = None /\ proc[Worker].id = None
            \/ proc[Worker].pc = "cuUpdate" /\ m.id = proc[Worker].id /\ ~Exists(m.id)
  <1> DEFINE l == proc[Worker]
  <1>1. l.ok \in Returns /\ l.fail \in Returns
    BY InvFacts DEF Knows
  <1> HIDE DEF l
  <1> USE DEF Reaches, Same, Inside, Goes, Enters, Returns
  <1>2. CASE HandlerFlow(l, m)
    BY <1>2 DEF HandlerFlow, InSuccession, l
  <1>3. CASE FinalizerFlow(l, m)
    BY <1>3 DEF FinalizerFlow, l
  <1>4. CASE FailureFlow(l, m) \/ ConflictFlow(l, m)
    BY <1>1, <1>4 DEF FailureFlow, ConflictFlow
  <1>5. CASE ProcedureFlow(l, m)
    BY <1>1, <1>5 DEF ProcedureFlow
  <1>6. CASE RequestFlow(l, m)
    BY <1>6 DEF RequestFlow
  <1>7. CASE WriteFlow(l, m)
    BY <1>1, <1>7 DEF WriteFlow
  <1> QED BY <1>2, <1>3, <1>4, <1>5, <1>6, <1>7 DEF Flow, l

(* A goroutine comes to drop a record as DroppingBegins says, or in Delete *)
(* when the stack is no more.                                              *)
LEMMA ErasingBegins ==
  ASSUME IInv, NEW p \in Procs, NEW m \in Locals, Flow(p, proc[p], m), Erasing(m)
  PROVE  /\ m.id = proc[p].id
         /\ \/ Erasing(proc[p])
            \/ proc[p].pc = "wait" /\ m.id # None /\ stack[m.id].status \in InDelete
            \/ proc[p].pc = "delCall" /\ ~Exists(m.id)
  <1> DEFINE l == proc[p]
  <1>1. l.ok \in Returns /\ l.fail \in Returns
    BY InvFacts DEF Knows
  <1> HIDE DEF l
  <1> USE DEF Erasing, InProcedure, Reaches, Same, Inside, Goes, Enters, Returns
  <1>2. CASE HandlerFlow(l, m)
    BY <1>2 DEF HandlerFlow, InSuccession, l
  <1>3. CASE FinalizerFlow(l, m)
    BY <1>3 DEF FinalizerFlow
  <1>4. CASE WatcherFlow(l, m)
    <2>1. CASE l.pc = "wait"
      <3>1. stack[l.id].status \in InDelete
        BY <1>4, <2>1 DEF WatcherFlow, Settled, Succeeded, Deployed, InDelete
      <3> QED BY <1>4, <2>1, <3>1 DEF WatcherFlow, l
    <2>2. CASE l.pc # "wait"
      BY <1>4, <2>2 DEF WatcherFlow, l
    <2> QED BY <2>1, <2>2
  <1>5. CASE FailureFlow(l, m) \/ ConflictFlow(l, m)
    BY <1>1, <1>5 DEF FailureFlow, ConflictFlow, l
  <1>6. CASE ProcedureFlow(l, m)
    BY <1>1, <1>6 DEF ProcedureFlow, l
  <1>7. CASE RequestFlow(l, m)
    BY <1>7 DEF RequestFlow
  <1>8. CASE WriteFlow(l, m)
    BY <1>1, <1>8 DEF WriteFlow, l
  <1> QED BY <1>2, <1>3, <1>4, <1>5, <1>6, <1>7, <1>8 DEF Flow, l

(* A stack that has been deleted stays so, as nobody updates it. *)
LEMMA InDeleteStays ==
  ASSUME IInv, DeletionInv, Next, NobodyElseDeletes, NEW i \in Ids,
         stack[i].status \in InDelete
  PROVE  stack'[i].status \in InDelete
  <1>1. Retired(stack[i].app)
    BY DEF DeletionInv
  <1>2. pc(Worker) = "cuUpdate" /\ proc[Worker].id = i => stack[i].app = app(Worker)
    BY InvFacts, DomainAssumption DEF Knows, app
  <1> QED BY <1>1, <1>2, StackDeletions DEF Retired, Applying

(* The stack of an application is no more only when it has been deleted. *)
LEMMA StackNoMore ==
  ASSUME IInv, NEW p \in Procs, proc[p].id # None, ~Exists(proc[p].id)
  PROVE  stack[proc[p].id].status = "DELETE_COMPLETE" /\ stack[proc[p].id].app = proc[p].app
  <1>1. /\ proc[p].id \in Ids /\ proc[p].app \in Apps
        /\ stack[proc[p].id].app = proc[p].app
    BY InvFacts DEF Knows, Locals
  <1> QED BY <1>1, InvFacts, DomainAssumption DEF StacksOwned, Exists

-----------------------------------------------------------------------------
(* RecordInv is inductive, together with IInv and DeletionInv.             *)

LEMMA NextRecord ==
  ASSUME IInv, DeletionInv, RecordInv, Next, ~ReuseNames, NobodyElseDeletes
  PROVE  RecordInv'
  <1>0. /\ Worker \in Procs /\ None \notin Ids /\ None \notin Apps
        /\ rec' \in [Apps -> Records] /\ proc' \in [Procs -> Locals]
        /\ \A q \in Procs : /\ Knows(stack, accepted, proc[q]) /\ TaskMatches(proc[q])
                            /\ proc[q].pc \notin Unassigned => proc[q].app \in Apps
                            /\ proc'[q].pc \notin Unassigned => proc'[q].app \in Apps
                            /\ proc'[q].id # None => proc'[q].id \in Ids
    BY NextInv, InvFacts, DomainAssumption DEF IInv, TypeOK, AppStackTypeOK, Knows, Locals
  <1> DEFINE StillRetired(a) ==
               conf'[a].state \in {"deleting", "gone"}
                 /\ ~(proc'[Worker].pc \in Applying /\ proc'[Worker].app = a)
             NewlyKnown(a, i) == \/ rec'[a].sid = i
                                 \/ \E q \in Procs : proc'[q].app = a /\ Carries(proc'[q], i)
             Creates(a, i) == /\ proc[Worker].pc = "cuCreate" /\ proc[Worker].app = a
                              /\ proc'[Worker].pc = "cuRecord" /\ proc'[Worker].id = i
  <1>r. ASSUME NEW a \in Apps, Retired(a) PROVE StillRetired(a)
    BY <1>r, RetiredStays DEF Retired, Going, pc, app
  <1>k. ASSUME NEW a \in Apps, NEW i \in Ids, NewlyKnown(a, i)
        PROVE  i \in Known(a) \/ Creates(a, i)
    BY <1>k, KnownStays
  <1>c. ASSUME NEW a \in Apps, NEW i \in Ids, Creates(a, i) PROVE Known(a) = {}
    BY <1>c DEF RecordInv, pc, app
  <1> HIDE DEF StillRetired, NewlyKnown, Creates
  <1>1. ASSUME NEW a \in Apps, NEW i \in Ids, NEW j \in Ids,
               NewlyKnown(a, i), NewlyKnown(a, j)
        PROVE  i = j
    <2>1. CASE i \in Known(a) /\ j \in Known(a)
      BY <2>1 DEF RecordInv
    <2>2. CASE Creates(a, i) \/ Creates(a, j)
      <3>1. Creates(a, i) /\ Creates(a, j)
        BY <1>1, <1>k, <1>c, <2>2
      <3> QED BY <3>1 DEF Creates
    <2> QED BY <1>1, <1>k, <2>1, <2>2
  <1>2. ASSUME NEW q \in Procs, NEW i \in Ids, NEW b \in Apps, proc'[q].app = b,
               Carries(proc'[q], i), rec'[b].sid = None
        PROVE  StillRetired(b) \/ (q = Worker /\ Holding(proc'[Worker]))
    <2>1. CASE rec[b].sid # None
      <3>1. PICK p \in Procs : proc[p].app = b /\ proc[p].pc = "dropRecord"
        BY <1>2, <2>1, SidChanges
      <3>2. Retired(b)
        BY <3>1 DEF DeletionInv, Dropping, DropPlaces, app
      <3> QED BY <3>2, <1>r
    <2>2. CASE rec[b].sid = None
      <3>1. ASSUME NEW p \in Procs, proc[p].app = b, Carries(proc[p], i)
            PROVE  Retired(b) \/ (p = Worker /\ Holding(proc[Worker]))
        BY <2>2, <3>1 DEF RecordInv, app
      <3>2. CASE proc'[q] = proc[q]
        BY <1>2, <3>1, <3>2, <1>r
      <3>3. CASE Flow(q, proc[q], proc'[q])
        <4>1. proc[q].app = b /\ proc'[q] \in Locals
          BY <1>0, <1>2, <3>3, FlowCarries
        <4>2. CASE Carries(proc[q], i)
          <5>1. CASE q = Worker /\ Holding(proc[Worker])
            <6>1. proc'[q].pc \notin Unassigned
              BY <1>2 DEF Carries
            <6> QED BY <1>2, <3>3, <4>1, <5>1, <6>1, HoldingEnds
          <5> QED BY <1>r, <3>1, <4>1, <4>2, <5>1
        <4>3. CASE q = Worker /\ proc'[q].pc = "cuRecord"
          BY <4>3 DEF Holding
        <4> QED BY <1>0, <1>2, <2>2, <3>3, <4>1, <4>2, <4>3, FlowCarries
      <3>4. CASE /\ proc'[q].pc = "wait" /\ pc(Worker) \in {"spawn", "spawnRequeue"}
                 /\ proc'[q].app = app(Worker) /\ proc'[q].id = proc[Worker].id
        <4>1. proc[Worker].app = b /\ Carries(proc[Worker], i)
          BY <1>2, <3>4 DEF Carries, Unassigned, pc, app
        <4>2. ~Holding(proc[Worker])
          BY <1>0, <3>4 DEF Holding, TaskMatches, pc
        <4> QED BY <1>0, <1>r, <3>1, <4>1, <4>2
      <3>5. ~(proc'[q].pc = "wait" /\ proc'[q].id = rec[proc'[q].app].sid)
        BY <1>0, <1>2, <2>2 DEF Carries
      <3> QED BY <1>2, <3>2, <3>3, <3>4, <3>5, NextTurns DEF Turns, Carries
    <2> QED BY <2>1, <2>2
  <1>3. proc'[Worker].pc \in {"cuFinalizer", "cuCreate"} =>
          /\ proc'[Worker].pc = "cuCreate" => proc'[Worker].id = None
          /\ proc'[Worker].id = None => Known(proc'[Worker].app) = {}
    <2> SUFFICES ASSUME proc'[Worker].pc \in {"cuFinalizer", "cuCreate"}
                 PROVE  /\ proc'[Worker].pc = "cuCreate" => proc'[Worker].id = None
                        /\ proc'[Worker].id = None => Known(proc'[Worker].app) = {}
      OBVIOUS
    <2>1. CASE proc'[Worker] = proc[Worker]
      BY <2>1 DEF RecordInv, pc, app
    <2>2. CASE Flow(Worker, proc[Worker], proc'[Worker])
      <3> DEFINE l == proc[Worker]
                 m == proc'[Worker]
      <3>0. m \in Locals
        BY <1>0
      <3>1. m.app = l.app
        BY <2>2, <3>0, CreateBegins
      <3>2. CASE l.pc = "cuStack" /\ m.pc = "cuFinalizer" /\ m.id = rec[m.app].sid
        <4>1. l.app \in Apps /\ ~Retired(l.app) /\ ~Holding(l)
          BY <1>0, <3>2 DEF Unassigned, Retired, Applying, Holding, TaskMatches, pc, app
        <4>2. rec[l.app].sid = None => Known(l.app) = {}
          BY <1>0, <4>1 DEF RecordInv, Known, app
        <4> QED BY <3>1, <3>2, <4>2
      <3>3. CASE l.pc = "cuFinalizer" /\ m.id = None /\ l.id = None
        BY <3>1, <3>3 DEF RecordInv, pc, app
      <3>4. CASE l.pc = "cuUpdate" /\ m.id = l.id /\ ~Exists(m.id)
        <4>1. l.id # None
          BY <1>0, <3>4 DEF Knows
        <4>2. stack[l.id].status = "DELETE_COMPLETE" /\ stack[l.id].app = l.app
          BY <1>0, <3>4, <4>1, StackNoMore
        <4>3. l.id \in Ids
          BY <1>0, <4>1 DEF Knows, Locals
        <4>4. Retired(l.app)
          BY <4>2, <4>3 DEF DeletionInv, InDelete
        <4> QED BY <3>4, <4>4 DEF Retired, Applying, pc, app
      <3> QED BY <2>2, <3>0, <3>2, <3>3, <3>4, CreateBegins
    <2> QED BY <1>0, <2>1, <2>2, NextTurns DEF Turns, Unassigned
  <1>4. ASSUME proc'[Worker].pc \in {"cuFinalizer", "cuCreate"}, proc'[Worker].id = None,
               NEW i \in Ids, NewlyKnown(proc'[Worker].app, i)
        PROVE  FALSE
    <2>1. proc'[Worker].app \in Apps
      BY <1>0, <1>4 DEF Unassigned
    <2>2. i \in Known(proc'[Worker].app)
      BY <1>4, <1>k, <2>1 DEF Creates
    <2> QED BY <1>3, <1>4, <2>2
  <1>5. ASSUME NEW q \in Procs, proc'[q].pc = "setWrite", proc'[q].task = "Record"
        PROVE  proc'[q].fail = "requeue"
    <2>1. CASE proc'[q] = proc[q]
      BY <1>5, <2>1 DEF RecordInv, pc
    <2>2. CASE Flow(q, proc[q], proc'[q])
      BY <1>0, <1>5, <2>2, RecordBegins
    <2> QED BY <1>5, <2>1, <2>2, NextTurns DEF Turns, Unassigned
  <1>6. ASSUME NEW q \in Procs, Erasing(proc'[q])
        PROVE  proc'[q].id # None /\ stack'[proc'[q].id].status \in InDelete
    <2>1. proc'[q].id # None /\ stack[proc'[q].id].status \in InDelete
      <3>1. CASE proc'[q] = proc[q]
        BY <1>6, <3>1 DEF RecordInv
      <3>2. CASE Flow(q, proc[q], proc'[q])
        <4>1. CASE Erasing(proc[q]) /\ proc'[q].id = proc[q].id
          BY <4>1 DEF RecordInv
        <4>2. CASE /\ proc[q].pc = "delCall" /\ ~Exists(proc[q].id)
                   /\ proc'[q].id = proc[q].id
          <5>1. proc[q].id # None
            BY <1>0, <4>2 DEF Knows
          <5> QED BY <4>2, <5>1, StackNoMore DEF InDelete
        <4> QED BY <1>0, <1>6, <3>2, <4>1, <4>2, ErasingBegins
      <3> QED BY <1>6, <3>1, <3>2, NextTurns DEF Turns, Unassigned, Erasing, InProcedure
    <2> QED BY <1>0, <2>1, InDeleteStays
  <1>7. /\ \A a \in Apps : \A i, j \in Ids : NewlyKnown(a, i) /\ NewlyKnown(a, j) => i = j
        /\ \A q \in Procs, i \in Ids :
             Carries(proc'[q], i) /\ rec'[proc'[q].app].sid = None =>
               StillRetired(proc'[q].app) \/ (q = Worker /\ Holding(proc'[q]))
    <2>1. ASSUME NEW q \in Procs, NEW i \in Ids, Carries(proc'[q], i),
                 rec'[proc'[q].app].sid = None
          PROVE  StillRetired(proc'[q].app) \/ (q = Worker /\ Holding(proc'[q]))
      <3>1. proc'[q].app \in Apps
        BY <1>0, <2>1 DEF Carries
      <3> QED BY <1>2, <2>1, <3>1
    <2> QED BY <1>1, <2>1
  <1> QED
    BY <1>3, <1>4, <1>5, <1>6, <1>7
       DEF RecordInv, Known, Retired, Going, StillRetired, NewlyKnown, pc, app

LEMMA RecordInvariance ==
  ASSUME ~ReuseNames, NobodyElseDeletes
  PROVE  Spec => [](IInv /\ DeletionInv /\ RecordInv)
  <1>1. Init => RecordInv
    <2> SUFFICES ASSUME Init PROVE RecordInv
      OBVIOUS
    <2>1. /\ \A q \in Procs : proc[q].pc \in {"load", "idle"} /\ proc[q].task = "none"
          /\ \A a \in Apps : rec[a].sid = None
          /\ Worker \in Procs /\ None \notin Ids
      BY DomainAssumption DEF Init, Booted, At, NoRecord, Procs
    <2> QED BY <2>1 DEF RecordInv, Known, Carries, Unassigned, Erasing, InProcedure, pc
  <1>2. IInv /\ DeletionInv /\ RecordInv /\ [Next]_vars => RecordInv'
    <2>1. ASSUME RecordInv, UNCHANGED vars PROVE RecordInv'
      BY <2>1 DEF vars, RecordInv, Known, Retired, Going, pc, app
    <2> QED BY <2>1, NextRecord
  <1>3. Spec => [](IInv /\ DeletionInv)
    BY DeletionInvariance
  <1> QED BY <1>1, <1>2, <1>3, PTL DEF Spec

-----------------------------------------------------------------------------
(* A record that names a stack is dropped only when ROS is deleting, has   *)
(* deleted or has failed to delete that very stack (appconf.go:210, 314),  *)
(* whichever goroutine drops it and whatever it read before.               *)
THEOREM RecordsOutliveStacks ==
  ASSUME ~ReuseNames, NobodyElseDeletes
  PROVE  Spec => RecordOutlivesStack
  <1> DEFINE Drops(a) == rec[a].sid # None /\ rec'[a].sid = None
             Outlives == \A a \in Apps : Drops(a) => stack[rec[a].sid].status \in InDelete
  <1>1. ASSUME IInv, RecordInv, Next, NEW a \in Apps, Drops(a)
        PROVE  stack[rec[a].sid].status \in InDelete
    <2>1. PICK p \in Procs : proc[p].app = a /\ proc[p].pc = "dropRecord"
      BY <1>1, SidChanges
    <2>2. proc[p].id # None /\ stack[proc[p].id].status \in InDelete
      BY <1>1, <2>1 DEF RecordInv, Erasing
    <2>3. proc[p].id \in Ids /\ rec[a].sid \in Ids
      BY <1>1, <2>2, InvFacts DEF Knows, Locals, Records
    <2>4. proc[p].id \in Known(a) /\ rec[a].sid \in Known(a)
      BY <2>1, <2>3 DEF Known, Carries, Unassigned, app
    <2>5. proc[p].id = rec[a].sid
      BY <1>1, <2>4 DEF RecordInv
    <2> QED BY <2>2, <2>5
  <1>2. IInv /\ RecordInv /\ [Next]_vars => [Outlives]_vars
    <2>1. ASSUME UNCHANGED vars PROVE [Outlives]_vars
      BY <2>1
    <2> QED BY <1>1, <2>1
  <1>3. Spec => [](IInv /\ DeletionInv /\ RecordInv)
    BY RecordInvariance
  <1>4. Spec => [][Outlives]_vars
    BY <1>2, <1>3, PTL DEF Spec
  <1> QED BY <1>4 DEF RecordOutlivesStack

-----------------------------------------------------------------------------
(* The list of the applications in Progressing.                            *)

(* A goroutine that has not yet recorded the end of its stack. *)
OnWatch(l) ==
  \/ l.pc \in {"spawn", "spawnRequeue", "wait", "saveOutputs", "nameOutputs", "ready",
               "failed", "drop", "dropOutputs", "dropRecord"}
  \/ l.pc = "setWrite" /\ l.task \in {"Ready", "Failed"}
  \/ l.pc \in {"listAdd", "condition"} /\ l.task = "Progressing"

(* Only its own procedures write the list, and calls fail one by one. *)
LEMMA ListWritten ==
  ASSUME Next
  PROVE  /\ \/ infos' = infos
            \/ \E p \in Procs :
                 \/ proc[p].pc = "listAdd" /\ infos' = infos \cup {proc[p].app}
                 \/ proc[p].pc = "listWrite" /\ infos' = proc[p].list \ {proc[p].app}
         /\ Faulted
  <1>1. ASSUME NEW p \in Procs, ProcedureStep(p)
        PROVE  /\ \/ infos' = infos
                  \/ proc[p].pc = "listAdd" /\ infos' = infos \cup {proc[p].app}
                  \/ proc[p].pc = "listWrite" /\ infos' = proc[p].list \ {proc[p].app}
               /\ Faulted
    <2> USE DEF Faulted, Fails, FaultTo, Written, pc, app
    <2>1. CASE SetWrite(p) \/ ListRead(p) \/ DropOutputs(p) \/ DropRecord(p)
               \/ ProcedureFails(p)
      BY <2>1 DEF SetWrite, ListRead, DropOutputs, DropRecord, ProcedureFails
    <2>2. CASE ListAdd(p) \/ ListWrite(p)
      BY <2>2 DEF ListAdd, ListWrite
    <2>3. CASE SaveOutputs(p) \/ NameOutputs(p)
      BY <2>3 DEF SaveOutputs, NameOutputs
    <2> QED BY <1>1, <2>1, <2>2, <2>3 DEF ProcedureStep
  <1> QED BY <1>1, Elsewhere

(* A call that has failed is remembered. *)
LEMMA NoneFails ==
  ASSUME IInv, Next, faults' = 0
  PROVE  faults = 0 /\ ~Fails
  <1>1. faults \in Nat
    BY FaultAssumption DEF IInv, TypeOK, AppStackTypeOK
  <1> QED BY <1>1, ListWritten DEF Faulted, Fails

(* A goroutine keeps its application, but for events about objects. *)
LEMMA WorkGoesOn ==
  ASSUME IInv, NEW p \in Procs, NEW m \in Locals, Flow(p, proc[p], m), m.pc \notin Unassigned
  PROVE  \/ proc[p].pc \notin Unassigned /\ m.app = proc[p].app
         \/ m.app \in Apps /\ conf[m.app].state \in {"live", "deleting"}
  <1> DEFINE l == proc[p]
  <1>1. l.ok \in Returns /\ l.fail \in Returns
    BY InvFacts DEF Knows
  <1> HIDE DEF l
  <1> USE DEF Unassigned, Reaches, Same, Inside, Goes, Enters
  <1>2. CASE HandlerFlow(l, m)
    BY <1>2 DEF HandlerFlow, InSuccession, l
  <1>3. CASE FinalizerFlow(l, m)
    BY <1>3 DEF FinalizerFlow, l
  <1>4. CASE WatcherFlow(l, m)
    BY <1>4 DEF WatcherFlow, l
  <1>5. CASE FailureFlow(l, m) \/ ConflictFlow(l, m)
    BY <1>1, <1>5 DEF FailureFlow, ConflictFlow, InProcedure, l
  <1>6. CASE ProcedureFlow(l, m)
    BY <1>1, <1>6 DEF ProcedureFlow, l
  <1>7. CASE RequestFlow(l, m)
    BY <1>7 DEF RequestFlow, l
  <1>8. CASE WriteFlow(l, m)
    BY <1>1, <1>8 DEF WriteFlow, l
  <1> QED BY <1>2, <1>3, <1>4, <1>5, <1>6, <1>7, <1>8 DEF Flow, l

(* Nobody comes to load, and who comes to hold a list has just read it. *)
LEMMA ListTaken ==
  ASSUME IInv, NEW p \in Procs, NEW m \in Locals, Flow(p, proc[p], m), ~Fails
  PROVE  /\ m.pc # "load"
         /\ m.pc = "listWrite" => proc[p].pc = "listRead" /\ m.list = infos
         /\ m.pc = "recover" => p = Worker /\ proc[p].pc = "load" /\ m.list = infos
         /\ proc[p].pc = "recover" => FALSE
         /\ proc[p].pc = "idle" => p = Worker
         /\ proc[p].pc = "load" /\ m.pc # "recover" =>
              m.pc = "idle" /\ (infos = {} \/ \E a \in infos : ~Present(a))
  <1> DEFINE l == proc[p]
  <1>1. l.ok \in Returns /\ l.fail \in Returns
    BY InvFacts DEF Knows
  <1> HIDE DEF l
  <1> USE DEF Reaches, Same, Inside, Goes, Enters, Returns
  <1>2. CASE HandlerFlow(l, m) /\ p = Worker
    BY <1>2 DEF HandlerFlow, InSuccession, l
  <1>3. CASE FinalizerFlow(l, m)
    BY <1>3 DEF FinalizerFlow, l
  <1>4. CASE WatcherFlow(l, m)
    BY <1>4 DEF WatcherFlow, l
  <1>5. CASE FailureFlow(l, m) \/ ConflictFlow(l, m)
    BY <1>1, <1>5 DEF FailureFlow, ConflictFlow, l
  <1>6. CASE ProcedureFlow(l, m)
    BY <1>1, <1>6 DEF ProcedureFlow, l
  <1>7. CASE RequestFlow(l, m)
    BY <1>7 DEF RequestFlow, l
  <1>8. CASE WriteFlow(l, m)
    BY <1>1, <1>8 DEF WriteFlow, l
  <1> QED BY <1>2, <1>3, <1>4, <1>5, <1>6, <1>7, <1>8 DEF Flow, l

-----------------------------------------------------------------------------
(* Who is on course stays so, as long as no call fails.                    *)

LEMMA OnCourseGoesOn ==
  ASSUME IInv, NEW p \in Procs, NEW m \in Locals, Flow(p, proc[p], m), ~Fails,
         OnCourse(rec, p, proc[p])
  PROVE  /\ OnCourse(rec, p, m)
         /\ p = Worker /\ m.pc \in Claimed => m.app = proc[p].app
  <1> DEFINE l == proc[p]
  <1>1. /\ l.ok \in Returns /\ l.fail \in Returns /\ Knows(stack, accepted, l)
        /\ Worker \in Procs
    BY InvFacts DEF Knows
  <1>2. /\ OnCourse(rec, p, l) /\ TaskMatches(l)
        /\ l.pc = "delCall" => l.id # None
        /\ l.pc = "cuRecord" \/ l.task = "Record" => l.id # None
    BY <1>1 DEF Knows
  <1> HIDE DEF l
  <1> USE DEF OnCourse, Handing, Claimed, Templated, InProcedure, TaskMatches,
              Reaches, Same, Inside, Goes, Enters, Returns
  <1>3. CASE HandlerFlow(l, m) /\ p = Worker
    BY <1>1, <1>2, <1>3, DomainAssumption DEF HandlerFlow, InSuccession, l
  <1>4. CASE FinalizerFlow(l, m)
    BY <1>1, <1>2, <1>4 DEF FinalizerFlow, l
  <1>5. CASE WatcherFlow(l, m) /\ p # Worker
    BY <1>1, <1>2, <1>5 DEF WatcherFlow, l
  <1>6. CASE FailureFlow(l, m) \/ ConflictFlow(l, m)
    BY <1>1, <1>2, <1>6 DEF FailureFlow, ConflictFlow, l
  <1>7. CASE ProcedureFlow(l, m)
    BY <1>1, <1>2, <1>7 DEF ProcedureFlow, l
  <1>8. CASE RequestFlow(l, m) /\ p = Worker
    BY <1>1, <1>2, <1>8 DEF RequestFlow, l
  <1>9. CASE WriteFlow(l, m)
    BY <1>1, <1>2, <1>9 DEF WriteFlow, l
  <1> QED BY <1>3, <1>4, <1>5, <1>6, <1>7, <1>8, <1>9 DEF Flow, l

(* An application is in Progressing because it was, and then its stack is  *)
(* the same, or because the worker has just written so.                    *)
LEMMA ProgressWritten ==
  ASSUME IInv, NEW p \in Procs, NEW m \in Locals, WriteFlow(proc[p], m), ~Fails,
         OnCourse(rec, p, proc[p]), NEW a \in Apps, rec'[a].status = "Progressing"
  PROVE  \/ /\ rec[a].status = "Progressing" /\ rec'[a].sid = rec[a].sid
            /\ proc[p].app = a => proc[p].pc = "nameOutputs"
            /\ proc[p].app # a => rec'[a] = rec[a]
         \/ /\ p = Worker /\ proc[p].app = a /\ proc[p].pc = "setWrite"
            /\ proc[p].task = "Progressing" /\ Inside(proc[p], m, "listAdd")
  <1> DEFINE l == proc[p]
             b == l.app
             new == IF l.task = "Record" THEN [l.snap EXCEPT !.sid = l.id, !.tmpl = l.want]
                                         ELSE [l.snap EXCEPT !.status = l.task]
  <1>0. /\ l \in Locals /\ Knows(stack, accepted, l) /\ rec \in [Apps -> Records]
        /\ TaskMatches(l)
    BY InvFacts DEF Knows
  <1>1. l.pc \in {"setWrite", "nameOutputs", "dropRecord"}
    BY DEF WriteFlow
  <1>2. b \in Apps /\ rec[b] \in Records /\ l.snap \in Records
    BY <1>0, <1>1 DEF Knows, Unassigned, Locals
  <1>3. CASE /\ l.pc = "setWrite" /\ rec' = [rec EXCEPT ![b] = Merge(@, new)]
             /\ \/ l.task # "Progressing"
                \/ Inside(l, m, "listAdd")
    <2>1. /\ new \in Records
          /\ new.status = IF l.task = "Record" THEN l.snap.status ELSE l.task
      <3>1. CASE l.task = "Record"
        BY <1>0, <1>2, <3>1 DEF Knows, Records, Locals
      <3>2. CASE l.task # "Record"
        <4>1. l.task \in RecStatuses
          BY <1>0, <1>3, <3>2 DEF TaskMatches, RecStatuses
        <4> QED BY <1>2, <3>2, <4>1 DEF Records
      <3> QED BY <3>1, <3>2
    <2>2. PICK r : r = Merge(rec[b], new)
      OBVIOUS
    <2>3. rec' = [rec EXCEPT ![b] = r]
      BY <1>3, <2>2
    <2> HIDE DEF new
    <2>4. r.status = IF new.status = None THEN rec[b].status ELSE new.status
      BY <1>2, <2>1, <2>2, MergeRecords
    <2>5. rec'[a] = IF a = b THEN r ELSE rec[a]
      BY <1>0, <2>3
    <2>6. CASE a # b
      BY <2>5, <2>6
    <2>7. CASE a = b
      <3>1. r.status = "Progressing"
        BY <2>5, <2>7
      <3>2. l.task \in {"Record", "Progressing", "Ready", "Failed"}
        BY <1>0, <1>3 DEF TaskMatches
      <3>3. "Ready" # None /\ "Failed" # None
        BY RecordAssumption DEF RecStatuses
      <3>4. l.task \notin {"Ready", "Failed"}
        BY <2>1, <2>4, <3>1, <3>3
      <3>5. p = Worker
        BY <1>3, <3>4 DEF OnCourse
      <3>6. l.task # "Record"
        BY <1>3, <2>1, <2>4, <3>1, <3>5 DEF OnCourse, Claimed
      <3> QED BY <1>3, <2>7, <3>2, <3>4, <3>5, <3>6
    <2> QED BY <2>6, <2>7
  <1>4. CASE l.pc = "nameOutputs" /\ rec' \in {rec, [rec EXCEPT ![b].outs = l.snap.outs]}
    <2>1. rec'[a].sid = rec[a].sid /\ rec'[a].status = rec[a].status
      BY <1>0, <1>2, <1>4 DEF Records
    <2>2. a # b => rec'[a] = rec[a]
      BY <1>0, <1>4
    <2> QED BY <1>4, <2>1, <2>2
  <1>5. CASE l.pc = "dropRecord" /\ rec' = [rec EXCEPT ![b] = NoRecord]
    <2>1. None # "Progressing"
      BY RecordAssumption DEF RecStatuses
    <2>2. a # b
      BY <1>0, <1>2, <1>5, <2>1 DEF NoRecord
    <2>3. rec'[a] = rec[a]
      BY <1>0, <1>5, <2>2
    <2> QED BY <2>2, <2>3
  <1> QED BY <1>3, <1>4, <1>5 DEF WriteFlow

(* A watcher, or who is about to start one, goes on until the outcome is   *)
(* written, unless a conflict ends the handler behind the write of         *)
(* "Progressing".                                                          *)
GivesUp(p, m) ==
  /\ p = Worker /\ p \in overtaken
  /\ proc[p].pc \in {"listAdd", "condition"} /\ proc[p].task = "Progressing"
  /\ m.pc = "idle"

LEMMA WatchGoesOn ==
  ASSUME IInv, NEW p \in Procs, NEW m \in Locals, Flow(p, proc[p], m), ~Fails,
         OnCourse(rec, p, proc[p]), OnWatch(proc[p]), NEW a \in Apps, proc[p].app = a,
         rec'[a].status = "Progressing", ~(proc[p].pc = "setWrite" /\ p \in overtaken)
  PROVE  GivesUp(p, m) \/ (OnWatch(m) /\ m.app = a /\ m.id = proc[p].id)
  <1> DEFINE l == proc[p]
  <1>1. /\ OnCourse(rec, p, l) /\ TaskMatches(l) /\ OnWatch(l)
    BY InvFacts DEF Knows
  <1> HIDE DEF l
  <1> USE DEF OnWatch, OnCourse, InProcedure, TaskMatches, Reaches, Same, Inside, Goes, Enters
  <1>2. l.pc = "wFinalizer" \/ ~(HandlerFlow(l, m) \/ FinalizerFlow(l, m))
    BY <1>1 DEF HandlerFlow, FinalizerFlow, InSuccession
  <1>3. CASE WatcherFlow(l, m)
    BY <1>1, <1>3 DEF WatcherFlow, l
  <1>4. CASE FailureFlow(l, m) \/ (ConflictFlow(l, m) /\ p \in overtaken)
    BY <1>1, <1>4 DEF FailureFlow, ConflictFlow, GivesUp, l
  <1>5. CASE ProcedureFlow(l, m)
    BY <1>1, <1>5 DEF ProcedureFlow, l
  <1>6. ~RequestFlow(l, m)
    BY <1>1 DEF RequestFlow
  <1>7. CASE WriteFlow(l, m)
    <2>1. \/ l.pc = "nameOutputs"
          \/ l.task = "Progressing" /\ Inside(l, m, "listAdd")
      BY <1>1, <1>7, ProgressWritten DEF l
    <2>2. l.pc = "nameOutputs" => Reaches(l, m, "ready")
      BY <1>7 DEF WriteFlow
    <2> QED BY <2>1, <2>2 DEF l
  <1>8. l.pc # "wFinalizer"
    BY <1>1
  <1> QED BY <1>2, <1>3, <1>4, <1>5, <1>6, <1>7, <1>8 DEF Flow, l

-----------------------------------------------------------------------------
(* RecoveryInv is inductive, together with the others.                     *)

(* An object that is gone stays so, and it is known that it has been.      *)
LEMMA ObjectsAge ==
  ASSUME IInv, Next, ~ReuseNames, NEW a \in Apps
  PROVE  /\ conf[a].state = "gone" => conf'[a].state = "gone"
         /\ Seen(a) => conf'[a].state # "absent"
  <1> DEFINE Aged(c) == /\ conf[a].state = "gone" => c.state = "gone"
                        /\ conf[a].state # "absent" => c.state # "absent"
  <1>0. ConfMoves /\ conf \in [Apps -> Confs] /\ conf[a] \in Confs
    BY NextConf DEF IInv, TypeOK, ConfTypeOK
  <1>1. ASSUME NEW b \in Apps, NEW c, Change(b, c), b = a => Aged(c)
        PROVE  Aged(conf'[a])
    BY <1>0, <1>1 DEF Change
  <1>2. ASSUME NEW b \in Apps, UserCreates(b)
        PROVE  Aged(conf'[a])
    <2>1. b = a => conf[a].state = "absent"
      BY <1>2 DEF UserCreates
    <2> QED BY <1>2, <2>1, <1>1 DEF UserCreates, UserDoes
  <1>3. ASSUME NEW b \in Apps, UserEdits(b)
        PROVE  Aged(conf'[a])
    <2>1. PICK t \in Specs : UserDoes(b, [conf[b] EXCEPT !.spec = t])
      BY <1>3 DEF UserEdits
    <2>2. b = a => [conf[b] EXCEPT !.spec = t].state = conf[a].state
      BY <1>0 DEF Confs
    <2> QED BY <2>1, <2>2, <1>1 DEF UserDoes
  <1>4. ASSUME NEW b \in Apps, UserDeletes(b)
        PROVE  Aged(conf'[a])
    <2> DEFINE c == IF conf[b].fin THEN [conf[b] EXCEPT !.state = "deleting"] ELSE GoneConf
    <2>1. Change(b, c) /\ conf[b].state = "live"
      BY <1>4 DEF UserDeletes, UserDoes
    <2>2. b = a => c.state \in {"deleting", "gone"}
      BY <1>0 DEF Confs, GoneConf, NoConf
    <2> HIDE DEF c
    <2> QED BY <2>1, <2>2, <1>1
  <1>5. ASSUME NEW b \in Apps, AddCleanUpFinalizer(b)
        PROVE  Aged(conf'[a])
    <2>1. b = a => [conf[b] EXCEPT !.fin = TRUE].state = conf[a].state
      BY <1>0 DEF Confs
    <2> QED BY <1>5, <2>1, <1>1 DEF AddCleanUpFinalizer
  <1>6. ASSUME NEW b \in Apps, RemoveCleanUpFinalizer(b)
        PROVE  Aged(conf'[a])
    <2> DEFINE c == CASE conf[b].state = "live"     -> [conf[b] EXCEPT !.fin = FALSE]
                      [] conf[b].state = "deleting" -> GoneConf
                      [] OTHER                      -> conf[b]
    <2>1. Change(b, c)
      BY <1>6 DEF RemoveCleanUpFinalizer
    <2>2. b = a => Aged(c)
      BY <1>0 DEF GoneConf, NoConf, Confs
    <2> HIDE DEF c
    <2> QED BY <2>1, <2>2, <1>1
  <1>7. ASSUME NEW b \in Apps, NEW phase \in Phases, SetAppCondition(b, phase)
        PROVE  Aged(conf'[a])
    BY <1>0, <1>7 DEF SetAppCondition, Confs
  <1>8. ASSUME UNCHANGED conf PROVE Aged(conf'[a])
    BY <1>8
  <1>9. Aged(conf'[a])
    BY <1>0, <1>2, <1>3, <1>4, <1>5, <1>6, <1>7, <1>8 DEF ConfMoves, InformerResyncs
  <1> QED BY <1>9 DEF Seen

(* One goroutine takes a step, ... *)
GoesOn(p) ==
  /\ proc'[p] \in Locals /\ Flow(p, proc[p], proc'[p])
  /\ \A q \in Procs : q # p => proc'[q] = proc[q]

(* ... or the worker starts one more, with what it was at work on or with  *)
(* an application of the list, ...                                         *)
HandedOver(w) ==
  /\ proc[Worker].pc \in {"spawn", "spawnRequeue"} /\ proc'[Worker].pc = "idle"
  /\ proc'[w].app = proc[Worker].app /\ proc'[w].id = proc[Worker].id

Recovered(w) ==
  LET a == proc'[w].app IN
  /\ proc[Worker].pc = "recover" /\ a \in proc[Worker].list /\ proc'[w].id = rec[a].sid
  /\ \/ proc'[Worker].pc = "recover" /\ proc'[Worker].list = proc[Worker].list \ {a}
     \/ proc'[Worker].pc = "idle" /\ proc[Worker].list = {a}

Launches(w) ==
  /\ rec' = rec /\ proc[w].pc = "idle" /\ proc'[w].pc = "wait" /\ proc'[w].app \in Apps
  /\ HandedOver(w) \/ Recovered(w)
  /\ \A q \in Procs : q \notin {w, Worker} => proc'[q] = proc[q]

(* ... or all of them are new. *)
Reboots ==
  rec' = rec /\ \A q \in Procs : proc'[q].pc = IF q = Worker THEN "load" ELSE "idle"

LEMMA NextMoves ==
  ASSUME IInv, Next
  PROVE  \/ \E p \in Procs : GoesOn(p)
         \/ \E w \in Watchers : Launches(w)
         \/ proc' = proc /\ rec' = rec
         \/ Reboots
  <1>0. proc \in [Procs -> Locals] /\ Worker \in Procs
        /\ Watchers \subseteq Procs /\ Worker \notin Watchers
    BY InvFacts, DomainAssumption DEF ProcsOK
  <1>1. CASE Flows
    <2>1. PICK p \in Procs : /\ proc'[p] \in Locals /\ Flow(p, proc[p], proc'[p])
                             /\ proc' = [proc EXCEPT ![p] = proc'[p]]
      BY <1>1 DEF Flows
    <2>2. \A q \in Procs : q # p => proc'[q] = proc[q]
      BY <1>0, <2>1
    <2> QED BY <2>1, <2>2 DEF GoesOn
  <1>2. CASE StartFlow
    <2>1. PICK w \in Watchers, m \in Locals : WatcherStarts(w, m) /\ m = proc'[Worker]
      BY <1>2 DEF StartFlow, WatcherStarts
    <2>2. PICK l \in Locals : l = proc'[w] /\ proc' = [proc EXCEPT ![w] = l, ![Worker] = m]
      BY <2>1 DEF WatcherStarts
    <2>3. \A q \in Procs : q \notin {w, Worker} => proc'[q] = proc[q]
      BY <1>0, <2>2
    <2>4. HandedOver(w) \/ Recovered(w)
      BY <2>1 DEF WatcherStarts, HandedOver, Recovered, pc, app
    <2>5. proc[w].pc = "idle" /\ proc'[w].pc = "wait" /\ proc'[w].app \in Apps
      BY <2>1 DEF WatcherStarts, pc
    <2> QED BY <1>2, <2>3, <2>4, <2>5 DEF StartFlow, Launches
  <1>3. CASE OutsideFlow
    BY <1>3 DEF OutsideFlow
  <1>4. CASE Ends
    <2>1. \A q \in Procs : proc'[q].pc = IF q = Worker THEN "load" ELSE "idle"
      BY <1>4 DEF Ends, Booted, At
    <2> QED BY <1>4, <2>1 DEF Ends, Reboots
  <1> QED BY <1>1, <1>2, <1>3, <1>4, NextFlows DEF AllFlows

(* As long as the process runs, the histories go on. *)
LEMMA RunsOrReboots == ASSUME Next, ~Reboots PROVE Alive
  <1>1. ASSUME Restart PROVE Reboots
    <2>1. \A q \in Procs : proc'[q].pc = IF q = Worker THEN "load" ELSE "idle"
      BY <1>1 DEF Restart, Booted, At
    <2> QED BY <1>1, <2>1 DEF Restart, Reboots, appStackVars
  <1> QED BY <1>1 DEF Next, Crash, Panic

LEMMA NextOnCourse ==
  ASSUME IInv, Next, ~Fails, \A p \in Procs : OnCourse(rec, p, proc[p])
  PROVE  \A p \in Procs : OnCourse(rec', p, proc'[p])
  <1>0. /\ Worker \in Procs /\ Watchers \subseteq Procs /\ Worker \notin Watchers
        /\ \A q \in Procs : proc'[q].pc \notin Unassigned => proc'[q].app \in Apps
    BY NextInv, InvFacts, DomainAssumption DEF IInv, Knows
  <1>1. ASSUME NEW p \in Procs, GoesOn(p), NEW q \in Procs
        PROVE  OnCourse(rec', q, proc'[q])
    <2>1. /\ OnCourse(rec, q, proc'[q])
          /\ q = Worker /\ proc'[q].pc \in Claimed => proc'[q].app = proc[q].app
      BY <1>1, OnCourseGoesOn DEF GoesOn
    <2>2. CASE rec' = rec
      BY <2>1, <2>2
    <2>3. CASE WriteFlow(proc[p], proc'[p])
      <3>1. ASSUME q = Worker, proc'[q].pc \in Claimed
            PROVE  rec'[proc'[q].app].status # "Progressing"
        <4>1. proc'[q].app \in Apps
          BY <1>0, <3>1 DEF Claimed, Templated, Unassigned
        <4>2. rec[proc'[q].app].status # "Progressing"
          BY <2>1, <3>1 DEF OnCourse
        <4>3. p = Worker => proc'[p].pc # "listAdd"
          BY <3>1 DEF Claimed, Templated
        <4> QED BY <1>1, <2>3, <4>1, <4>2, <4>3, ProgressWritten DEF GoesOn, Inside, Reaches
      <3> QED BY <2>1, <3>1 DEF OnCourse
    <2> QED BY <1>1, <2>2, <2>3 DEF GoesOn, Flow
  <1>2. ASSUME NEW w \in Watchers, Launches(w), NEW q \in Procs
        PROVE  OnCourse(rec', q, proc'[q])
    <2>1. rec' = rec /\ (proc'[q] = proc[q] \/ proc'[q].pc \in {"wait", "idle", "recover"})
          /\ (q = Worker => proc'[q].pc # "wait")
      BY <1>0, <1>2 DEF Launches, HandedOver, Recovered
    <2> QED BY <2>1 DEF OnCourse, Handing, InProcedure, Claimed, Templated
  <1>3. ASSUME Reboots, NEW q \in Procs
        PROVE  OnCourse(rec', q, proc'[q])
    <2>1. proc'[q].pc \in {"load", "idle"}
      BY <1>3 DEF Reboots
    <2> QED BY <2>1 DEF OnCourse, Handing, InProcedure, Claimed, Templated
  <1> QED BY <1>1, <1>2, <1>3, NextMoves

LEMMA NextSeen ==
  ASSUME IInv, Next, ~ReuseNames, ~Fails, SeenInv
  PROVE  SeenInv'
  <1> DEFINE StillSeen(a) == conf'[a].state # "absent"
  <1>0. /\ Worker \in Procs /\ Watchers \subseteq Procs /\ infos \subseteq Apps
        /\ \A q \in Procs : /\ proc[q].pc \notin Unassigned => proc[q].app \in Apps
                            /\ proc[q].list \subseteq Apps
    BY InvFacts DEF Knows, Locals
  <1>s. ASSUME NEW a \in Apps, Seen(a) PROVE StillSeen(a)
    BY <1>s, ObjectsAge
  <1>a. /\ \A a \in infos : StillSeen(a)
        /\ \A q \in Procs :
             /\ proc[q].pc \notin Unassigned => StillSeen(proc[q].app)
             /\ proc[q].pc \in {"listWrite", "recover"} => \A a \in proc[q].list : StillSeen(a)
    BY <1>0, <1>s DEF SeenInv, pc, app
  <1>b. ASSUME NEW a \in Apps, conf[a].state \in {"live", "deleting"} PROVE StillSeen(a)
    BY <1>b, <1>s DEF Seen
  <1> HIDE DEF StillSeen
  <1>1. \A a \in infos' : StillSeen(a)
    <2>1. CASE infos' = infos
      BY <1>a, <2>1
    <2>2. ASSUME NEW p \in Procs,
                 \/ proc[p].pc = "listAdd" /\ infos' = infos \cup {proc[p].app}
                 \/ proc[p].pc = "listWrite" /\ infos' = proc[p].list \ {proc[p].app}
          PROVE  \A a \in infos' : StillSeen(a)
      BY <1>a, <2>2 DEF Unassigned
    <2> QED BY <2>1, <2>2, ListWritten
  <1> DEFINE Goal(q) ==
        /\ proc'[q].pc \notin Unassigned => StillSeen(proc'[q].app)
        /\ proc'[q].pc \in {"listWrite", "recover"} => \A a \in proc'[q].list : StillSeen(a)
  <1>2. ASSUME NEW q \in Procs, proc'[q] = proc[q] PROVE Goal(q)
    BY <1>a, <1>2
  <1>3. ASSUME NEW p \in Procs, GoesOn(p), NEW q \in Procs PROVE Goal(q)
    <2>1. CASE q = p
      <3>1. proc'[q].pc \notin Unassigned => StillSeen(proc'[q].app)
        BY <1>3, <1>a, <1>b, <2>1, WorkGoesOn DEF GoesOn
      <3>2. proc'[q].pc \in {"listWrite", "recover"} => proc'[q].list = infos
        BY <1>3, <2>1, ListTaken DEF GoesOn
      <3> QED BY <3>1, <3>2, <1>a
    <2> QED BY <1>2, <1>3, <2>1 DEF GoesOn
  <1>4. ASSUME NEW w \in Watchers, Launches(w), NEW q \in Procs PROVE Goal(q)
    <2>1. CASE q = Worker
      BY <1>0, <1>4, <1>a, <2>1 DEF Launches, HandedOver, Recovered, Unassigned
    <2>2. CASE q = w
      BY <1>0, <1>4, <1>a, <2>2 DEF Launches, HandedOver, Recovered, Unassigned
    <2> QED BY <1>2, <1>4, <2>1, <2>2 DEF Launches
  <1>5. ASSUME Reboots, NEW q \in Procs PROVE Goal(q)
    <2>1. proc'[q].pc \in {"load", "idle"}
      BY <1>5 DEF Reboots
    <2> QED BY <2>1 DEF Unassigned
  <1>6. \A q \in Procs : Goal(q)
    BY <1>2, <1>3, <1>4, <1>5, NextMoves
  <1> QED BY <1>1, <1>6 DEF SeenInv, Seen, StillSeen, pc, app

LEMMA NextLoads ==
  ASSUME IInv, Next, ~Fails, LoadsFirst
  PROVE  LoadsFirst'
  <1>0. Worker \in Procs /\ Watchers \subseteq Procs /\ Worker \notin Watchers
    BY InvFacts, DomainAssumption
  <1> SUFFICES ASSUME proc'[Worker].pc = "load", NEW w \in Watchers
               PROVE  proc'[w].pc = "idle"
    BY DEF LoadsFirst, pc
  <1>1. ASSUME NEW p \in Procs, GoesOn(p) PROVE proc'[w].pc = "idle"
    <2>1. p # Worker
      BY <1>1, ListTaken DEF GoesOn
    <2>2. proc[w].pc = "idle"
      BY <1>0, <1>1, <2>1 DEF GoesOn, LoadsFirst, pc
    <2>3. p # w
      BY <1>0, <1>1, <2>1, <2>2, ListTaken DEF GoesOn
    <2> QED BY <1>0, <1>1, <2>2, <2>3 DEF GoesOn
  <1>2. ASSUME NEW v \in Watchers, Launches(v) PROVE FALSE
    BY <1>2 DEF Launches, HandedOver, Recovered
  <1>3. CASE proc' = proc
    BY <1>3 DEF LoadsFirst, pc
  <1>4. CASE Reboots
    BY <1>0, <1>4 DEF Reboots
  <1> QED BY <1>1, <1>2, <1>3, <1>4, NextMoves

(* A failed recovery is not taken up again, unless by a new process. *)
LEMMA NextNoneRecovered ==
  ASSUME IInv, Next, ~ReuseNames, ~Fails, NoneRecovered, ~Reboots
  PROVE  NoneRecovered'
  <1>0. Worker \in Procs /\ Watchers \subseteq Procs /\ infos \subseteq Apps
    BY InvFacts
  <1>1. proc[Worker].pc \notin {"load", "recover"}
    BY DEF NoneRecovered, pc
  <1>2. PICK b \in infos :
          /\ conf[b].state = "gone"
          /\ \A q \in Procs : /\ proc[q].pc \notin Unassigned => proc[q].app # b
                              /\ proc[q].pc = "listWrite" => b \in proc[q].list
    BY DEF NoneRecovered, pc, app
  <1>3. conf'[b].state = "gone"
    BY <1>0, <1>2, ObjectsAge
  <1>4. b \in infos'
    BY <1>2, ListWritten DEF Unassigned
  <1> DEFINE Goal(q) == /\ proc'[q].pc \notin Unassigned => proc'[q].app # b
                        /\ proc'[q].pc = "listWrite" => b \in proc'[q].list
                        /\ q = Worker => proc'[q].pc \notin {"load", "recover"}
  <1>5. ASSUME NEW q \in Procs, proc'[q] = proc[q] PROVE Goal(q)
    BY <1>1, <1>2, <1>5
  <1>6. ASSUME NEW p \in Procs, GoesOn(p), NEW q \in Procs PROVE Goal(q)
    <2>1. CASE q = p
      <3>1. proc'[q].pc \notin Unassigned => proc'[q].app # b
        BY <1>2, <1>6, <2>1, WorkGoesOn DEF GoesOn
      <3>2. /\ proc'[q].pc = "listWrite" => proc'[q].list = infos
            /\ q = Worker => proc'[q].pc \notin {"load", "recover"}
        BY <1>1, <1>6, <2>1, ListTaken DEF GoesOn
      <3> QED BY <1>2, <3>1, <3>2
    <2> QED BY <1>5, <1>6, <2>1 DEF GoesOn
  <1>7. ASSUME NEW w \in Watchers, Launches(w), NEW q \in Procs PROVE Goal(q)
    <2>1. HandedOver(w)
      BY <1>1, <1>7 DEF Launches, Recovered
    <2>2. CASE q = Worker
      BY <2>1, <2>2 DEF HandedOver, Unassigned
    <2>3. CASE q = w /\ q # Worker
      BY <1>0, <1>2, <1>7, <2>1, <2>3 DEF Launches, HandedOver, Unassigned
    <2> QED BY <1>5, <1>7, <2>2, <2>3 DEF Launches
  <1>8. \A q \in Procs : Goal(q)
    BY <1>5, <1>6, <1>7, NextMoves
  <1> QED BY <1>0, <1>3, <1>4, <1>8 DEF NoneRecovered, pc, app

(* Who watches a stack does so until the outcome is recorded, and the      *)
(* worker that writes "Progressing" watches the very stack of the record.  *)
LEMMA UnwatchedBefore ==
  ASSUME IInv, RecordInv', Next, ~Fails, ~Reboots, \A p \in Procs : OnCourse(rec, p, proc[p]),
         NEW a \in Apps, Unwatched(a)'
  PROVE  Unwatched(a)
  <1>0. /\ Worker \in Procs /\ Watchers \subseteq Procs /\ Worker \notin Watchers
        /\ None \notin Ids /\ rec'[a].sid \in Ids
        /\ \A q \in Procs : proc'[q].id # None => proc'[q].id \in Ids
    BY NextInv, InvFacts, DomainAssumption
       DEF IInv, TypeOK, AppStackTypeOK, Unwatched, Records, Knows, Locals
  <1>1. /\ rec'[a].status = "Progressing" /\ rec'[a].sid # None /\ a \notin abandoned'
        /\ \A q \in Procs : ~(/\ proc'[q].app = a /\ proc'[q].id = rec'[a].sid
                              /\ OnWatch(proc'[q])
                              /\ ~(proc'[q].pc = "setWrite" /\ q \in overtaken'))
    BY DEF Unwatched, Watches, OnWatch, pc, app
  <1>h. Alive
    BY RunsOrReboots
  <1>a. a \notin abandoned
    BY <1>1, <1>h DEF Alive
  <1>2. ASSUME NEW q \in Procs, proc'[q].app = a, proc'[q].id # None, OnWatch(proc'[q]),
               ~(proc'[q].pc = "setWrite" /\ q \in overtaken')
        PROVE  FALSE
    <2>1. proc'[q].pc \notin Unassigned
      BY <1>2 DEF OnWatch, Unassigned
    <2>2. proc'[q].id = rec'[a].sid
      BY <1>0, <1>2, <2>1 DEF RecordInv, Known, Carries, pc, app
    <2> QED BY <1>1, <1>2, <2>2
  <1>3. rec[a].status = "Progressing" /\ rec'[a] = rec[a]
    <2>1. CASE rec' = rec
      BY <1>1, <2>1
    <2>2. ASSUME NEW p \in Procs, GoesOn(p), WriteFlow(proc[p], proc'[p])
          PROVE  rec[a].status = "Progressing" /\ rec'[a] = rec[a]
      <3>1. ~(/\ proc[p].app = a /\ proc[p].pc = "setWrite"
              /\ proc[p].task = "Progressing" /\ Inside(proc[p], proc'[p], "listAdd"))
        <4>1. Handing(proc[p]) /\ proc[p].pc = "setWrite" /\ proc[p].task = "Progressing"
                => proc[p].id # None
          BY DEF OnCourse
        <4> QED BY <1>2, <4>1 DEF Handing, Inside, Reaches, Same, OnWatch
      <3>2. ASSUME proc[p].app = a, proc[p].pc = "nameOutputs"
            PROVE  FALSE
        <4>1. Reaches(proc[p], proc'[p], "ready")
          BY <2>2, <3>2 DEF WriteFlow
        <4>2. proc[p].id # None
          BY <3>2 DEF OnCourse
        <4> QED BY <1>2, <3>2, <4>1, <4>2 DEF Reaches, Same, OnWatch
      <3> QED BY <1>1, <2>2, <3>1, <3>2, ProgressWritten DEF GoesOn
    <2> QED BY <2>1, <2>2, NextMoves DEF GoesOn, Flow, Launches
  <1>4. ASSUME NEW q \in Procs, proc[q].app = a, proc[q].id = rec[a].sid, OnWatch(proc[q]),
               ~(proc[q].pc = "setWrite" /\ q \in overtaken)
        PROVE  FALSE
    <2>1. CASE proc'[q] = proc[q]
      <3>1. ~(proc'[q].pc = "setWrite" /\ q \in overtaken')
        BY <1>3, <1>4, <1>h, <2>1 DEF Alive, Overtakes, pc, app
      <3> QED BY <1>1, <1>3, <1>4, <2>1, <3>1
    <2>2. CASE GoesOn(q) /\ proc'[q] # proc[q]
      <3>1. q \notin overtaken'
        BY <1>h, <2>2 DEF Alive
      <3>2. ~GivesUp(q, proc'[q])
        <4>1. SUFFICES ASSUME GivesUp(q, proc'[q]) PROVE Abandons(a)
          BY <1>1, <1>h DEF Alive
        <4> QED BY <1>4, <4>1 DEF GivesUp, Abandons, W, pc, app
      <3> QED BY <1>1, <1>3, <1>4, <2>2, <3>1, <3>2, WatchGoesOn DEF GoesOn
    <2>3. ASSUME NEW w \in Watchers, Launches(w), q \in {w, Worker}
          PROVE  FALSE
      <3>1. q = Worker /\ HandedOver(w)
        BY <1>4, <2>3 DEF Launches, Recovered, OnWatch
      <3> QED BY <1>0, <1>1, <1>3, <1>4, <2>3, <3>1 DEF Launches, HandedOver, OnWatch
    <2> QED BY <2>1, <2>2, <2>3, NextMoves DEF GoesOn, Launches
  <1> QED BY <1>1, <1>a, <1>3, <1>4 DEF Unwatched, Watches, OnWatch, pc, app

(* What nobody watches is not put into the list. *)
LEMMA ListingBefore ==
  ASSUME IInv, RecordInv, Next, ~Fails, \A p \in Procs : OnCourse(rec, p, proc[p]),
         NEW a \in Apps, Unwatched(a), Listing(a)'
  PROVE  Listing(a)
  <1>0. /\ rec[a].sid \in Ids /\ None \notin Ids
        /\ \A q \in Procs : /\ proc[q].id # None => proc[q].id \in Ids
                            /\ TaskMatches(proc[q])
    BY InvFacts, DomainAssumption DEF Unwatched, Records, Knows, Locals
  <1>1. CASE a \in infos'
    <2>1. ASSUME NEW p \in Procs, proc[p].pc = "listAdd", a = proc[p].app
          PROVE  FALSE
      <3>1. proc[p].task = "Progressing" /\ proc[p].id # None
        BY <1>0, <2>1 DEF OnCourse, Handing, TaskMatches
      <3>2. proc[p].id = rec[a].sid
        BY <1>0, <2>1, <3>1 DEF RecordInv, Known, Carries, Unassigned, pc, app
      <3> QED BY <2>1, <3>1, <3>2 DEF Unwatched, Watches, pc, app
    <2> QED BY <1>1, <2>1, ListWritten DEF Listing, pc
  <1>2. ASSUME NEW q \in Procs, proc'[q].pc = "listWrite", a \in proc'[q].list
        PROVE  Listing(a)
    <2>1. CASE proc'[q] = proc[q]
      BY <1>2, <2>1 DEF Listing, pc
    <2>2. CASE GoesOn(q)
      BY <1>2, <2>2, ListTaken DEF GoesOn, Listing
    <2>3. ASSUME NEW w \in Watchers, Launches(w), q \in {w, Worker}
          PROVE  FALSE
      BY <1>2, <2>3 DEF Launches, HandedOver, Recovered
    <2>4. ~Reboots
      BY <1>2 DEF Reboots
    <2> QED BY <2>1, <2>2, <2>3, <2>4, NextMoves DEF GoesOn, Launches
  <1> QED BY <1>1, <1>2 DEF Listing, pc

LEMMA NextAllRecovered ==
  ASSUME IInv, RecordInv, RecordInv', Next, ~ReuseNames, ~Fails, SeenInv, LoadsFirst,
         \A p \in Procs : OnCourse(rec, p, proc[p]), AllRecovered
  PROVE  AllRecovered' \/ NoneRecovered'
  <1>0. /\ Worker \in Procs /\ Watchers \subseteq Procs /\ Worker \notin Watchers
        /\ Procs = Watchers \cup {Worker} /\ infos \subseteq Apps
    BY InvFacts, DomainAssumption DEF Procs
  <1> DEFINE AtLoad == proc[Worker].pc = "load"
             PendingNow(a) == \/ proc'[Worker].pc = "load"
                              \/ proc'[Worker].pc = "recover" /\ a \in proc'[Worker].list
  <1>1. CASE Reboots
    BY <1>0, <1>1 DEF Reboots, AllRecovered, Pending, pc
  <1>2. CASE AtLoad /\ GoesOn(Worker)
    <2>1. \A w \in Watchers : proc[w].pc = "idle" /\ proc'[w].pc = "idle"
      BY <1>0, <1>2 DEF LoadsFirst, GoesOn, pc
    <2>2. infos' = infos
      BY <1>0, <1>2, <2>1, ListWritten
    <2>3. \/ proc'[Worker].pc = "recover" /\ proc'[Worker].list = infos
          \/ proc'[Worker].pc = "idle" /\ (infos = {} \/ \E b \in infos : ~Present(b))
      BY <1>0, <1>2, ListTaken DEF GoesOn
    <2>4. ASSUME NEW a \in Apps, Listing(a)'
          PROVE  a \in infos
      BY <1>0, <2>1, <2>2, <2>3, <2>4 DEF Listing, pc
    <2>5. CASE proc'[Worker].pc = "recover" /\ proc'[Worker].list = infos
      BY <2>4, <2>5 DEF AllRecovered, Pending, pc
    <2>6. CASE infos = {}
      BY <2>4, <2>6 DEF AllRecovered
    <2>7. ASSUME NEW b \in infos, ~Present(b), proc'[Worker].pc = "idle"
          PROVE  NoneRecovered'
      <3>1. conf[b].state = "gone"
        <4>1. conf[b].state \in {"absent", "live", "deleting", "gone"}
          BY <1>0, InvFacts DEF ConfTypeOK, Confs
        <4> QED BY <2>7, <4>1 DEF SeenInv, Seen, Present
      <3>2. conf'[b].state = "gone"
        BY <1>0, <3>1, ObjectsAge
      <3>3. \A q \in Procs : proc'[q].pc = "idle"
        BY <1>0, <2>1, <2>7
      <3> QED BY <1>0, <2>2, <2>7, <3>2, <3>3 DEF NoneRecovered, Unassigned, pc, app
    <2> QED BY <2>3, <2>5, <2>6, <2>7
  <1>3. ASSUME ~Reboots, ~(AtLoad /\ GoesOn(Worker)), NEW a \in Apps,
               Unwatched(a)', ~PendingNow(a)
        PROVE  ~Pending(a)
    <2>1. /\ \A q \in Procs : ~(/\ proc'[q].app = a /\ proc'[q].id = rec'[a].sid
                                /\ proc'[q].pc = "wait")
      BY <1>3 DEF Unwatched, Watches, pc, app
    <2>2. CASE proc'[Worker] = proc[Worker]
      BY <1>3, <2>2 DEF Pending, pc
    <2>3. CASE GoesOn(Worker)
      BY <1>0, <1>3, <2>3, ListTaken DEF GoesOn, Pending, pc
    <2>4. ASSUME NEW w \in Watchers, Launches(w)
          PROVE  ~Pending(a)
      BY <1>0, <1>3, <2>1, <2>4 DEF Launches, HandedOver, Recovered, Pending, pc
    <2> QED BY <1>0, <1>3, <2>2, <2>3, <2>4, NextMoves DEF GoesOn
  <1>4. ASSUME ~Reboots, ~(AtLoad /\ GoesOn(Worker))
        PROVE  AllRecovered'
    <2> SUFFICES ASSUME NEW a \in Apps, Unwatched(a)', ~PendingNow(a), Listing(a)'
                 PROVE  FALSE
      BY DEF AllRecovered, Pending, pc
    <2>1. Unwatched(a)
      BY <1>4, UnwatchedBefore
    <2>2. Listing(a)
      BY <2>1, ListingBefore
    <2> QED BY <1>3, <1>4, <2>1, <2>2 DEF AllRecovered
  <1> QED BY <1>1, <1>2, <1>4

LEMMA NextRecovery ==
  ASSUME IInv, DeletionInv, RecordInv, RecoveryInv, Next, ~ReuseNames, NobodyElseDeletes
  PROVE  RecoveryInv'
  <1> SUFFICES ASSUME faults' = 0
               PROVE  /\ \A p \in Procs : OnCourse(rec', p, proc'[p])
                      /\ SeenInv' /\ LoadsFirst'
                      /\ AllRecovered' \/ NoneRecovered'
    BY DEF RecoveryInv
  <1>1. faults = 0 /\ ~Fails
    BY NoneFails
  <1>2. /\ \A p \in Procs : OnCourse(rec, p, proc[p])
        /\ SeenInv /\ LoadsFirst
        /\ AllRecovered \/ NoneRecovered
    BY <1>1 DEF RecoveryInv
  <1>3. RecordInv'
    BY NextRecord
  <1>4. CASE NoneRecovered
    <2>1. CASE Reboots
      <3>1. Worker \in Procs
        BY InvFacts
      <3> QED BY <1>1, <1>2, <2>1, <3>1, NextOnCourse, NextSeen, NextLoads
              DEF Reboots, AllRecovered, Pending, pc
    <2> QED BY <1>1, <1>2, <1>4, <2>1, NextOnCourse, NextSeen, NextLoads, NextNoneRecovered
  <1>5. CASE AllRecovered
    BY <1>1, <1>2, <1>3, <1>5, NextOnCourse, NextSeen, NextLoads, NextAllRecovered
  <1> QED BY <1>2, <1>4, <1>5

LEMMA RecoveryInvariance ==
  ASSUME ~ReuseNames, NobodyElseDeletes
  PROVE  Spec => [](IInv /\ RecoveryInv)
  <1>1. Init => RecoveryInv
    <2> SUFFICES ASSUME Init PROVE RecoveryInv
      OBVIOUS
    <2>1. /\ \A q \in Procs : proc[q].pc = IF q = Worker THEN "load" ELSE "idle"
          /\ Worker \in Procs /\ Watchers \subseteq Procs /\ Worker \notin Watchers
          /\ infos = {}
      BY DomainAssumption DEF Init, Booted, At, Procs
    <2>2. \A q \in Procs : OnCourse(rec, q, proc[q])
      <3>1. \A q \in Procs : proc[q].pc \in {"load", "idle"}
        BY <2>1
      <3> QED BY <3>1 DEF OnCourse, Handing, InProcedure, Claimed, Templated
    <2>3. SeenInv /\ LoadsFirst /\ AllRecovered
      BY <2>1 DEF SeenInv, LoadsFirst, AllRecovered, Pending, Unassigned, pc
    <2> QED BY <2>2, <2>3 DEF RecoveryInv
  <1>2. IInv /\ DeletionInv /\ RecordInv /\ RecoveryInv /\ [Next]_vars => RecoveryInv'
    <2>1. ASSUME RecoveryInv, UNCHANGED vars PROVE RecoveryInv'
      BY <2>1 DEF vars, RecoveryInv, OnCourse, SeenInv, Seen, LoadsFirst, AllRecovered,
         NoneRecovered, Unwatched, Watches, Listing, Pending, pc, app
    <2> QED BY <2>1, NextRecovery
  <1>3. Spec => [](IInv /\ DeletionInv /\ RecordInv)
    BY RecordInvariance
  <1> QED BY <1>1, <1>2, <1>3, PTL DEF Spec

-----------------------------------------------------------------------------
(* As long as no call fails and no listed object is gone, what the list    *)
(* holds is recovered (appconf.go:233-251): an application in Progressing  *)
(* with a stack is watched, by the process that put it in the list or, any *)
(* number of crashes later, by one that has recovered it, for any number   *)
(* of applications and watchers and at whatever step the crashes fall.     *)
THEOREM ListedAreRecovered ==
  ASSUME ~ReuseNames, NobodyElseDeletes
  PROVE  Spec => []ListedRecovered
  <1>1. IInv /\ RecoveryInv => ListedRecovered
    <2> SUFFICES ASSUME IInv, RecoveryInv, \A b \in infos : Present(b), NEW a \in infos,
                        rec[a].status = "Progressing", rec[a].sid # None, faults = 0,
                        a \notin abandoned, ~Pending(a), \A p \in Procs : ~Watches(p, a, rec[a].sid)
                 PROVE  FALSE
      BY DEF ListedRecovered, Pending
    <2>1. a \in Apps /\ Unwatched(a) /\ Listing(a)
      BY InvFacts DEF Unwatched, Listing
    <2>2. ~NoneRecovered
      BY DEF NoneRecovered, Present
    <2> QED BY <2>1, <2>2 DEF RecoveryInv, AllRecovered
  <1> QED BY <1>1, RecoveryInvariance, PTL

-----------------------------------------------------------------------------
(* The watchers without a stack.                                           *)

(* Nobody comes to wait; who comes to hold a list has read it, or had it;  *)
(* and who comes to hand over an application has a stack id and did so     *)
(* before, has just recorded the id, or has just asked for a deletion.     *)
LEMMA StraightGoesOn ==
  ASSUME IInv, NEW p \in Procs, NEW m \in Locals, Flow(p, proc[p], m), Straight(proc[p]),
         Handing(proc[p]) => proc[p].id # None
  PROVE  /\ Straight(m) /\ m.pc # "wait"
         /\ m.pc = "listWrite" => m.list = infos
         /\ m.pc = "recover" =>
              m.list = infos \/ (proc[p].pc = "recover" /\ m.list \subseteq proc[p].list)
         /\ Handing(m) =>
              /\ m.id # None /\ m.app = proc[p].app
              /\ \/ Handing(proc[p])
                 \/ WriteFlow(proc[p], m) /\ proc[p].task = "Record"
                 \/ p = Worker /\ proc[p].pc = "delCall"
  <1> DEFINE l == proc[p]
  <1>1. /\ l.ok \in Returns /\ l.fail \in Returns /\ TaskMatches(l) /\ Straight(l)
        /\ Handing(l) => l.id # None
        /\ l.pc = "delCall" => l.id # None
        /\ l.pc = "cuRecord" \/ l.task = "Record" => l.id # None
    BY InvFacts DEF Knows
  <1> HIDE DEF l
  <1> USE DEF Straight, Handing, TaskMatches, InProcedure, Returns, Reaches, Same, Inside,
              Goes, Enters
  <1>2. CASE HandlerFlow(l, m)
    BY <1>1, <1>2 DEF HandlerFlow, InSuccession, l
  <1>3. CASE FinalizerFlow(l, m)
    BY <1>3 DEF FinalizerFlow, l
  <1>4. CASE WatcherFlow(l, m)
    BY <1>4 DEF WatcherFlow, l
  <1>5. CASE FailureFlow(l, m) \/ ConflictFlow(l, m)
    BY <1>1, <1>5 DEF FailureFlow, ConflictFlow, l
  <1>6. CASE ProcedureFlow(l, m)
    BY <1>1, <1>6 DEF ProcedureFlow, l
  <1>7. CASE RequestFlow(l, m) /\ p = Worker
    BY <1>1, <1>7 DEF RequestFlow, l
  <1>8. CASE WriteFlow(l, m)
    BY <1>1, <1>8 DEF WriteFlow, l
  <1> QED BY <1>2, <1>3, <1>4, <1>5, <1>6, <1>7, <1>8 DEF Flow, l

(* A record loses its stack only when its application is retired. *)
LEMMA BackedStays ==
  ASSUME IInv, DeletionInv, Next, ~ReuseNames, NEW a \in Apps, Backed(a)
  PROVE  Backed(a)'
  <1>1. CASE rec'[a].sid = None /\ rec[a].sid # None
    <2>1. PICK p \in Procs : proc[p].app = a /\ proc[p].pc = "dropRecord"
      BY <1>1, SidChanges
    <2>2. Going(a)
      BY <2>1 DEF DeletionInv, Dropping, DropPlaces, Retired, app
    <2> QED BY <2>2, GoingStays DEF Backed
  <1> QED BY <1>1, GoingStays DEF Backed

LEMMA NextBacked ==
  ASSUME IInv, DeletionInv, Next, ~ReuseNames, BackedInv
  PROVE  BackedInv'
  <1> DEFINE Still(a) == rec'[a].sid # None \/ conf'[a].state \in {"deleting", "gone"}
             Goal(q) ==
               LET l == proc'[q] IN
               /\ l.pc \in {"listWrite", "recover"} => \A a \in l.list : Still(a)
               /\ Handing(l) => l.id # None /\ Still(l.app)
               /\ Straight(l)
               /\ q # Worker /\ l.pc = "wait" /\ l.id = None =>
                    conf'[l.app].state \in {"deleting", "gone"}
  <1>0. /\ Worker \in Procs /\ Watchers \subseteq Procs /\ infos \subseteq Apps
        /\ Worker \notin Watchers /\ Procs = Watchers \cup {Worker}
        /\ \A q \in Procs : /\ proc[q].pc \notin Unassigned => proc[q].app \in Apps
                            /\ proc[q].list \subseteq Apps /\ TaskMatches(proc[q])
    BY InvFacts, DomainAssumption DEF Knows, Locals, Procs
  <1>s. ASSUME NEW a \in Apps, Backed(a) PROVE Still(a)
    BY <1>s, BackedStays DEF Backed, Going
  <1>g. ASSUME NEW a \in Apps, Going(a)
        PROVE  Still(a) /\ conf'[a].state \in {"deleting", "gone"}
    BY <1>g, GoingStays DEF Going
  <1>a. /\ \A a \in infos : Still(a)
        /\ \A q \in Procs :
             /\ proc[q].pc \in {"listWrite", "recover"} => \A a \in proc[q].list : Still(a)
             /\ Handing(proc[q]) => proc[q].id # None /\ Still(proc[q].app)
             /\ Straight(proc[q])
    <2>1. ASSUME NEW q \in Procs, Handing(proc[q]) PROVE proc[q].app \in Apps
      BY <1>0, <2>1 DEF Handing, Unassigned
    <2> QED BY <1>0, <1>s, <2>1 DEF BackedInv, pc, app
  <1>b. ASSUME NEW q \in Watchers, proc[q].pc = "wait", proc[q].id = None
        PROVE  conf'[proc[q].app].state \in {"deleting", "gone"}
    <2>1. proc[q].app \in Apps /\ Going(proc[q].app)
      BY <1>0, <1>b DEF BackedInv, PanicsOnlyForDeleted, Going, Unassigned, pc, app
    <2> QED BY <2>1, <1>g
  <1>1. \A a \in infos' : Still(a)
    <2>1. CASE infos' = infos
      BY <1>a, <2>1
    <2>2. ASSUME NEW p \in Procs,
                 \/ proc[p].pc = "listAdd" /\ infos' = infos \cup {proc[p].app}
                 \/ proc[p].pc = "listWrite" /\ infos' = proc[p].list \ {proc[p].app}
          PROVE  \A a \in infos' : Still(a)
      <3> HIDE DEF Still
      <3>1. proc[p].pc = "listAdd" => Handing(proc[p])
        BY <1>0 DEF Handing, TaskMatches
      <3> QED BY <1>a, <2>2, <3>1
    <2> QED BY <2>1, <2>2, ListWritten
  <1>2. ASSUME NEW q \in Procs, proc'[q] = proc[q] PROVE Goal(q)
    <2> HIDE DEF Still
    <2> QED BY <1>0, <1>2, <1>a, <1>b
  <1>3. ASSUME NEW p \in Procs, GoesOn(p) PROVE Goal(p)
    <2> DEFINE m == proc'[p]
    <2>1. m \in Locals /\ Flow(p, proc[p], m)
      BY <1>3 DEF GoesOn
    <2>2. /\ Straight(m) /\ m.pc # "wait"
          /\ m.pc = "listWrite" => m.list = infos
          /\ m.pc = "recover" =>
               m.list = infos \/ (proc[p].pc = "recover" /\ m.list \subseteq proc[p].list)
          /\ Handing(m) =>
               /\ m.id # None /\ m.app = proc[p].app
               /\ \/ Handing(proc[p])
                  \/ WriteFlow(proc[p], m) /\ proc[p].task = "Record"
                  \/ p = Worker /\ proc[p].pc = "delCall"
      BY <2>1, <1>a, StraightGoesOn
    <2>3. m.pc \in {"listWrite", "recover"} => \A a \in m.list : Still(a)
      <3> HIDE DEF Still, m
      <3> QED BY <2>2, <1>a
    <2>4. ASSUME Handing(m) PROVE m.id # None /\ Still(m.app)
      <3>1. CASE Handing(proc[p])
        <4> HIDE DEF Still, m
        <4> QED BY <2>2, <2>4, <3>1, <1>a
      <3>2. CASE WriteFlow(proc[p], m) /\ proc[p].task = "Record"
        <4>1. proc[p].pc = "setWrite" /\ proc[p].app \in Apps
          BY <1>0, <3>2 DEF TaskMatches, Unassigned
        <4>2. rec'[proc[p].app].sid # None
          BY <2>1, <3>2, <4>1, SidWritten
        <4> QED BY <2>2, <2>4, <4>2
      <3>3. CASE p = Worker /\ proc[p].pc = "delCall"
        <4>1. proc[p].app \in Apps /\ Going(proc[p].app)
          BY <1>0, <3>3 DEF DeletionInv, OnRequest, DeletionPlaces, Unassigned, pc, app
        <4>2. Still(proc[p].app)
          BY <4>1, <1>g
        <4> HIDE DEF Still, m
        <4> QED BY <2>2, <2>4, <4>2
      <3> HIDE DEF Still, m
      <3> QED BY <2>2, <2>4, <3>1, <3>2, <3>3
    <2> HIDE DEF Still
    <2> QED BY <2>2, <2>3, <2>4
  <1>4. ASSUME NEW w \in Watchers, Launches(w), NEW q \in {w, Worker} PROVE Goal(q)
    <2>1. /\ rec' = rec /\ proc'[w].pc = "wait" /\ proc'[w].app \in Apps
          /\ HandedOver(w) \/ Recovered(w)
      BY <1>4 DEF Launches
    <2>2. CASE q = Worker
      <3>1. /\ proc'[q].pc \in {"idle", "recover"}
            /\ proc'[q].pc = "recover" =>
                 proc[q].pc = "recover" /\ proc'[q].list \subseteq proc[q].list
        BY <2>1, <2>2 DEF HandedOver, Recovered
      <3> HIDE DEF Still
      <3> QED BY <1>0, <1>a, <2>2, <3>1 DEF Handing, Straight, InProcedure
    <2>3. CASE q = w
      <3>1. ASSUME proc'[w].id = None
            PROVE  conf'[proc'[w].app].state \in {"deleting", "gone"}
        <4>1. ~HandedOver(w)
          BY <1>0, <1>a, <3>1 DEF HandedOver, Handing
        <4>2. Backed(proc'[w].app) /\ rec[proc'[w].app].sid = None
          BY <1>0, <2>1, <3>1, <4>1 DEF Recovered, BackedInv, pc
        <4> QED BY <2>1, <4>2, <1>g DEF Backed
      <3> HIDE DEF Still
      <3> QED BY <2>1, <2>3, <3>1 DEF Handing, Straight, InProcedure
    <2> QED BY <2>2, <2>3
  <1>5. ASSUME Reboots, NEW q \in Procs PROVE Goal(q)
    <2>1. proc'[q].pc \in {"load", "idle"}
      BY <1>5 DEF Reboots
    <2> HIDE DEF Still
    <2> QED BY <2>1 DEF Handing, Straight, InProcedure
  <1>6. \A q \in Procs : Goal(q)
    <2> HIDE DEF Goal, Still
    <2> QED BY <1>0, <1>2, <1>3, <1>4, <1>5, NextMoves DEF GoesOn, Launches
  <1> QED BY <1>0, <1>1, <1>6 DEF BackedInv, PanicsOnlyForDeleted, Backed, Going, pc, app

(* A recovery that gives a watcher no stack, which panics in Refresh       *)
(* (appconf.go:249), is about an application that a user deleted: for any  *)
(* number of applications and watchers and whatever crashes, conflicts and *)
(* lost answers left behind, as long as names are not used again and       *)
(* nobody deletes stacks at the console.                                   *)
THEOREM PanicsAreForDeleted ==
  ASSUME ~ReuseNames, NobodyElseDeletes
  PROVE  Spec => []PanicsOnlyForDeleted
  <1>1. Init => BackedInv
    <2> SUFFICES ASSUME Init PROVE BackedInv
      OBVIOUS
    <2>1. infos = {} /\ \A q \in Procs : proc[q].pc \in {"load", "idle"}
      BY DEF Init, Booted, At
    <2> QED BY <2>1 DEF BackedInv, PanicsOnlyForDeleted, Handing, Straight, InProcedure,
                        Procs, pc
  <1>2. IInv /\ DeletionInv /\ BackedInv /\ [Next]_vars => BackedInv'
    <2>1. ASSUME BackedInv, UNCHANGED vars PROVE BackedInv'
      BY <2>1 DEF vars, BackedInv, PanicsOnlyForDeleted, Backed, Going, pc, app
    <2> QED BY <2>1, NextBacked
  <1>3. BackedInv => PanicsOnlyForDeleted
    BY DEF BackedInv
  <1> QED BY <1>1, <1>2, <1>3, DeletionInvariance, PTL DEF Spec
=============================================================================
