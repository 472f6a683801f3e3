-------------------------- MODULE ControllerProofs --------------------------
(***************************************************************************)
(* RosController keeps IInv, whatever its constants: any applications,     *)
(* templates and stacks, any moves and refusals of the ROS service, and    *)
(* any number of crashes and failed calls.  Every step is looked at four   *)
(* times, for what it does to the service, to the objects, to what the     *)
(* goroutines know and to the Secrets; and a last time, at the end, for    *)
(* where it takes the goroutines.                                          *)
(***************************************************************************)
EXTENDS ControllerInvariant, TLAPS

-----------------------------------------------------------------------------
(* The ROS service.                                                        *)

(* A stack that belongs to an application keeps it, and every template     *)
(* that has been accepted for it.                                          *)
Evolves == \A i \in Ids : stack[i].app \in Apps =>
             stack'[i].app = stack[i].app /\ accepted[i] \subseteq accepted'[i]

RosMoves ==
  \/ \E a \in Apps, t \in Tmpls, i \in Ids : StackCreated(a, t, i)
  \/ \E i \in Ids, t \in Tmpls : StackUpdated(i, t)
  \/ \E i \in Ids : StackDeleted(i) \/ StackMoves(i)
  \/ UNCHANGED rosVars

LEMMA RosMovesOK ==
  ASSUME RosTypeOK, StacksOwned, RosMoves
  PROVE  RosTypeOK' /\ StacksOwned' /\ Evolves
  <1> USE DomainAssumption
  <1> DEFINE Goal == RosTypeOK' /\ StacksOwned' /\ Evolves
  <1>0. {"CREATE_IN_PROGRESS", "UPDATE_IN_PROGRESS", "DELETE_IN_PROGRESS"}
          \subseteq Statuses \ {"ABSENT"}
    BY DEF Statuses, InProgress, Settled, Succeeded, Unsuccessful
  <1>1. ASSUME NEW a \in Apps, NEW t \in Tmpls, NEW i \in Ids, StackCreated(a, t, i)
        PROVE  Goal
    BY <1>0, <1>1 DEF StackCreated, Stacks, Evolves, StacksOwned, RosTypeOK
  <1>2. ASSUME NEW i \in Ids, NEW t \in Tmpls, StackUpdated(i, t)
        PROVE  Goal
    BY <1>0, <1>2 DEF StackUpdated, Stacks, Evolves, StacksOwned, RosTypeOK
  <1>3. ASSUME NEW i \in Ids, StackDeleted(i)
        PROVE  Goal
    BY <1>0, <1>3 DEF StackDeleted, Stacks, Evolves, StacksOwned, RosTypeOK
  <1>4. ASSUME NEW i \in Ids, StackMoves(i)
        PROVE  Goal
    <2>1. PICK m \in Moves :
            stack' = [stack EXCEPT ![i] = [@ EXCEPT !.status = m[2],
              !.tmpl = IF m[2] = "ROLLBACK_COMPLETE" THEN stack[i].prev ELSE stack[i].tmpl]]
      BY <1>4 DEF StackMoves
    <2>2. m[2] \in Statuses \ {"ABSENT"}
      BY RosAssumption DEF ServiceMoves, ConsoleMoves, Statuses, InProgress,
         Settled, Succeeded, Unsuccessful, Deployed
    <2>3. UNCHANGED accepted
      BY <1>4 DEF StackMoves
    <2> DEFINE t == IF m[2] = "ROLLBACK_COMPLETE" THEN stack[i].prev ELSE stack[i].tmpl
               v == [stack[i] EXCEPT !.status = m[2], !.tmpl = t]
    <2>5. stack' = [stack EXCEPT ![i] = v]
      BY <2>1
    <2>6. stack[i] \in Stacks /\ t \in Tmpls \cup {None}
      BY DEF Stacks, RosTypeOK
    <2> HIDE DEF t
    <2>4. v \in Stacks /\ v.app = stack[i].app /\ v.status = m[2]
      BY <2>2, <2>6 DEF Stacks
    <2> HIDE DEF v
    <2> QED BY <2>2, <2>3, <2>4, <2>5 DEF Evolves, StacksOwned, RosTypeOK
  <1>5. CASE UNCHANGED rosVars
    BY <1>5 DEF rosVars, Stacks, Evolves, StacksOwned, RosTypeOK
  <1> QED BY <1>1, <1>2, <1>3, <1>4, <1>5 DEF RosMoves

-----------------------------------------------------------------------------
(* The objects of the applications.                                        *)

ConfMoves ==
  \/ \E a \in Apps : \/ UserCreates(a) \/ UserEdits(a) \/ UserDeletes(a)
                     \/ AddCleanUpFinalizer(a) \/ RemoveCleanUpFinalizer(a)
                     \/ \E phase \in Phases : SetAppCondition(a, phase)
  \/ InformerResyncs
  \/ UNCHANGED <<conf, edits>> /\ due' \subseteq Apps

(* An object changes into another one with a specification, or goes. *)
LEMMA ChangeOK ==
  ASSUME ConfTypeOK, LiveHaveSpecs, NEW a \in Apps, NEW c \in Confs, Change(a, c),
         c.state \in {"live", "deleting"} => c.spec \in Specs,
         edits' \in 0..MaxEdits
  PROVE  ConfTypeOK' /\ LiveHaveSpecs'
  <1>1. conf' = [conf EXCEPT ![a] = c] /\ due' \subseteq Apps
    BY DEF Change, ConfTypeOK
  <1> QED BY <1>1 DEF ConfTypeOK, LiveHaveSpecs, Present

LEMMA ConfMovesOK ==
  ASSUME ConfTypeOK, LiveHaveSpecs, ConfMoves
  PROVE  ConfTypeOK' /\ LiveHaveSpecs'
  <1> DEFINE Goal == ConfTypeOK' /\ LiveHaveSpecs'
  <1>0. /\ NoConf \in Confs /\ NoConf.state = "absent"
        /\ GoneConf \in Confs /\ GoneConf.state = "gone"
        /\ \A a \in Apps : conf[a] \in Confs
    BY DEF NoConf, GoneConf, Confs, Phases, ConfTypeOK
  <1>1. ASSUME NEW a \in Apps, NEW c \in Confs, UserDoes(a, c),
               c.state \in {"live", "deleting"} => c.spec \in Specs
        PROVE  Goal
    BY <1>1, ChangeOK, AppConfAssumption DEF UserDoes, ConfTypeOK
  <1>2. ASSUME NEW a \in Apps, UserCreates(a)
        PROVE  Goal
    <2>1. PICK t \in Specs : UserDoes(a, [NoConf EXCEPT !.state = "live", !.spec = t])
      BY <1>2 DEF UserCreates
    <2>2. [NoConf EXCEPT !.state = "live", !.spec = t] \in Confs
      BY DEF NoConf, Confs, Phases
    <2> QED BY <1>1, <2>1, <2>2 DEF NoConf
  <1>3. ASSUME NEW a \in Apps, UserEdits(a)
        PROVE  Goal
    <2>1. PICK t \in Specs : UserDoes(a, [conf[a] EXCEPT !.spec = t])
      BY <1>3 DEF UserEdits
    <2>2. /\ [conf[a] EXCEPT !.spec = t] \in Confs
          /\ [conf[a] EXCEPT !.spec = t].spec = t
      BY <1>0 DEF Confs
    <2> QED BY <1>1, <2>1, <2>2
  <1>4. ASSUME NEW a \in Apps, UserDeletes(a)
        PROVE  Goal
    <2>1. conf[a].spec \in Specs
      BY <1>4 DEF UserDeletes, LiveHaveSpecs, Present
    <2>2. /\ [conf[a] EXCEPT !.state = "deleting"] \in Confs
          /\ [conf[a] EXCEPT !.state = "deleting"].spec = conf[a].spec
      BY <1>0 DEF Confs
    <2> QED BY <1>0, <1>1, <1>4, <2>1, <2>2 DEF UserDeletes
  <1>5. ASSUME NEW a \in Apps, AddCleanUpFinalizer(a) \/ RemoveCleanUpFinalizer(a)
        PROVE  Goal
    <2>1. \A b \in BOOLEAN : /\ [conf[a] EXCEPT !.fin = b] \in Confs
                             /\ [conf[a] EXCEPT !.fin = b].spec = conf[a].spec
                             /\ [conf[a] EXCEPT !.fin = b].state = conf[a].state
      BY <1>0 DEF Confs
    <2>2. conf[a].state \in {"live", "deleting"} => conf[a].spec \in Specs
      BY DEF LiveHaveSpecs, Present
    <2>3. edits' \in 0..MaxEdits
      BY <1>5 DEF AddCleanUpFinalizer, RemoveCleanUpFinalizer, ConfTypeOK
    <2>4. CASE AddCleanUpFinalizer(a)
      BY <2>1, <2>2, <2>3, <2>4, ChangeOK DEF AddCleanUpFinalizer
    <2>5. CASE RemoveCleanUpFinalizer(a)
      <3>1. CASE conf[a].state = "live"
        BY <2>1, <2>2, <2>3, <2>5, <3>1, ChangeOK DEF RemoveCleanUpFinalizer
      <3>2. CASE conf[a].state = "deleting"
        BY <1>0, <2>3, <2>5, <3>2, ChangeOK DEF RemoveCleanUpFinalizer
      <3>3. CASE conf[a].state \notin {"live", "deleting"}
        <4>1. Change(a, conf[a])
          BY <2>5, <3>3 DEF RemoveCleanUpFinalizer
        <4> QED BY <1>0, <2>3, <3>3, <4>1, ChangeOK
      <3> QED BY <3>1, <3>2, <3>3
    <2> QED BY <1>5, <2>4, <2>5
  <1>6. ASSUME NEW a \in Apps, NEW phase \in Phases, SetAppCondition(a, phase)
        PROVE  Goal
    BY <1>6 DEF SetAppCondition, Confs, ConfTypeOK, LiveHaveSpecs, Present
  <1>7. CASE InformerResyncs
    BY <1>7 DEF InformerResyncs, ConfTypeOK, LiveHaveSpecs, Present
  <1>8. CASE UNCHANGED <<conf, edits>> /\ due' \subseteq Apps
    BY <1>8 DEF ConfTypeOK, LiveHaveSpecs, Present
  <1> QED BY <1>2, <1>3, <1>4, <1>5, <1>6, <1>7, <1>8 DEF ConfMoves

-----------------------------------------------------------------------------
(* The goroutines.                                                         *)

(* What is known of a stack stays true.                                    *)
LEMMA KnowsStable ==
  ASSUME NEW st, NEW ac, NEW st2, NEW ac2, NEW l, Knows(st, ac, l),
         \A i \in Ids : st[i].app \in Apps =>
           st2[i].app = st[i].app /\ ac[i] \subseteq ac2[i]
  PROVE  Knows(st2, ac2, l)
  BY DEF Knows, Paired, Locals, Records

(* A goroutine at rest, and one that has just been given an application,   *)
(* know nothing that could be wrong.                                       *)
LEMMA FreshKnows ==
  ASSUME NEW st, NEW ac, NEW l \in Locals,
         l.pc \in {"idle", "load", "recover", "delStatus", "cuStatus", "wait"},
         l.pc \in {"delStatus", "cuStatus", "wait"} => l.app \in Apps,
         l.pc = "cuStatus" => l.want \in Specs,
         l.id # None => l.app \in Apps /\ st[l.id].app = l.app,
         l.snap = NoRecord, l.task = "none", l.ok = "idle", l.fail = "idle"
  PROVE  Knows(st, ac, l)
  <1>1. TaskMatches(l) /\ l.pc \notin Templated /\ "idle" \in Returns
    BY DEF TaskMatches, Templated, Returns
  <1>2. Paired(st, ac, l.app, l.snap.sid, l.snap.tmpl)
    BY DEF Paired, NoRecord
  <1> QED BY <1>1, <1>2 DEF Knows, Unassigned

LEMMA AtLocals ==
  ASSUME NEW l \in PCs
  PROVE  /\ At(l) \in Locals /\ At(l).pc = l /\ At(l).id = None
         /\ At(l).snap = NoRecord /\ At(l).task = "none"
         /\ At(l).ok = "idle" /\ At(l).fail = "idle"
  BY DEF At, Locals, Records, NoRecord, Tasks, PCs

LEMMA AtRestKnows ==
  ASSUME NEW st, NEW ac
  PROVE  Knows(st, ac, At("idle")) /\ Knows(st, ac, At("load"))
  <1>1. "idle" \in PCs /\ "load" \in PCs
    BY DEF PCs
  <1> QED BY <1>1, AtLocals, FreshKnows

(* The places that ask nothing of a goroutine but an application. *)
Plain == {"cuError", "cuProgressing", "spawn", "spawnRequeue", "delStatus",
          "delWait", "delStack", "delError", "delProgressing",
          "delRecord", "delFinalizer", "ready", "failed", "drop", "wFinalizer"}

LEMMA UnwoundKnows ==
  ASSUME NEW st, NEW ac, NEW p, NEW l, Knows(st, ac, proc[p]),
         \/ l \in {"idle", "requeue"}
         \/ /\ proc[p].app \in Apps
            /\ \/ l \in Plain
               \/ l \in Templated /\ proc[p].want \in Tmpls /\ l # "cuRecord"
                    /\ (l = "cuUpdate" => proc[p].id # None)
               \/ l = "cuRecord" /\ proc[p].want \in Tmpls
                    /\ proc[p].id # None /\ proc[p].want \in ac[proc[p].id]
  PROVE  Knows(st, ac, Unwound(p, l))
  <1>1. CASE l \in {"idle", "requeue"}
    BY <1>1, AtRestKnows DEF Unwound
  <1>2. CASE l \notin {"idle", "requeue"}
    <2>1. l \in Plain \cup Templated
      BY <1>2 DEF Templated
    <2>2. l \in PCs /\ l \notin Unassigned
      BY <2>1 DEF Plain, Templated, PCs, Unassigned
    <2> DEFINE u == Unwound(p, l)
    <2>4. u = [proc[p] EXCEPT !.pc = l, !.snap = NoRecord, !.list = {},
                 !.task = "none", !.ok = "idle", !.fail = "idle"]
      BY <1>2 DEF Unwound
    <2>8. proc[p] \in Locals /\ NoRecord \in Records /\ "none" \in Tasks /\ "idle" \in PCs
      BY DEF Knows, NoRecord, Records, Tasks, PCs
    <2>7. /\ u \in Locals /\ u.pc = l /\ u.app = proc[p].app /\ u.id = proc[p].id
           /\ u.want = proc[p].want /\ u.snap = NoRecord /\ u.task = "none"
           /\ u.ok = "idle" /\ u.fail = "idle"
      BY <2>2, <2>4, <2>8 DEF Locals
    <2>5. Paired(st, ac, u.app, u.snap.sid, u.snap.tmpl)
      BY <2>7 DEF Paired, NoRecord
    <2> HIDE DEF u
    <2>3. TaskMatches(u)
      BY <2>1, <2>7 DEF TaskMatches, Plain, Templated
    <2>6. Knows(st, ac, u)
      BY <1>2, <2>1, <2>2, <2>3, <2>5, <2>7 DEF Knows, Plain, Templated, Returns
    <2> QED BY <2>6 DEF u
  <1> QED BY <1>1, <1>2

(* The goroutines' part of IInv, and the steps of the local control. *)
ProcsOK ==
  /\ proc \in [Procs -> Locals]
  /\ \A p \in Procs : Knows(stack, accepted, proc[p])

LEMMA BecomesOK ==
  ASSUME ProcsOK, Evolves, NEW p \in Procs, NEW l, Becomes(p, l),
         Knows(stack', accepted', l)
  PROVE  ProcsOK'
  <1>1. \A q \in Procs : Knows(stack', accepted', proc[q])
    BY KnowsStable DEF ProcsOK, Evolves
  <1>2. l \in Locals /\ proc' = [proc EXCEPT ![p] = l]
    BY DEF Knows, Becomes
  <1>3. proc' \in [Procs -> Locals] /\ \A q \in Procs : Knows(stack', accepted', proc'[q])
    BY <1>1, <1>2 DEF ProcsOK
  <1> QED BY <1>3 DEF ProcsOK

LEMMA UnwindsOK ==
  ASSUME ProcsOK, Evolves, NEW p \in Procs, NEW l, Becomes(p, Unwound(p, l)),
         \/ l \in {"idle", "requeue"}
         \/ /\ pc(p) \notin Unassigned
            /\ \/ l \in Plain
               \/ l \in Templated /\ proc[p].want \in Tmpls /\ l # "cuRecord"
                    /\ (l = "cuUpdate" => proc[p].id # None)
               \/ l = "cuRecord" /\ proc[p].want \in Tmpls
                    /\ proc[p].id # None /\ proc[p].want \in accepted'[proc[p].id]
  PROVE  ProcsOK'
  <1>1. Knows(stack, accepted, proc[p])
    BY DEF ProcsOK
  <1>2. Knows(stack', accepted', proc[p])
    BY <1>1, KnowsStable DEF Evolves
  <1>3. pc(p) \notin Unassigned => proc[p].app \in Apps
    BY <1>1 DEF Knows, pc
  <1>4. Knows(stack', accepted', Unwound(p, l))
    BY <1>2, <1>3, UnwoundKnows
  <1> QED BY <1>4, BecomesOK

(* GetData of a procedure: what has been read is a pair of the application. *)
LEMMA BeginOK ==
  ASSUME ProcsOK, Evolves, NEW p \in Procs, pc(p) \notin Unassigned,
         rec \in [Apps -> Records],
         \A a \in Apps : Paired(stack', accepted', a, rec[a].sid, rec[a].tmpl),
         NEW task \in Tasks \ {"none"}, NEW ok \in Returns, NEW fail \in Returns,
         task = "Record" => /\ proc[p].id # None /\ proc[p].want \in Tmpls
                            /\ proc[p].want \in accepted'[proc[p].id],
         Begin(p, task, ok, fail)
  PROVE  ProcsOK'
  <1>1. Knows(stack', accepted', proc[p])
    BY KnowsStable DEF ProcsOK, Evolves
  <1>2. app(p) \in Apps /\ proc[p].app = app(p)
    BY <1>1 DEF Knows, pc, app
  <1> DEFINE next == IF task # "Delete" THEN "setWrite"
                     ELSE IF rec[app(p)].outs = "named" THEN "dropOutputs"
                     ELSE "dropRecord"
             l == [proc[p] EXCEPT !.pc = next, !.task = task, !.ok = ok,
                                  !.fail = fail, !.snap = rec[app(p)]]
  <1>3. Becomes(p, l)
    BY DEF Begin
  <1>4. /\ next \in {"setWrite", "dropOutputs", "dropRecord"}
        /\ next = "setWrite" <=> task # "Delete"
    OBVIOUS
  <1>5. ok \in PCs /\ fail \in PCs /\ next \in PCs
    BY <1>4 DEF Returns, PCs
  <1> HIDE DEF next
  <1>6. /\ l \in Locals /\ l.pc = next /\ l.task = task /\ l.ok = ok /\ l.fail = fail
        /\ l.app = proc[p].app /\ l.id = proc[p].id /\ l.want = proc[p].want
        /\ l.snap = rec[app(p)]
    BY <1>1, <1>2, <1>5 DEF Knows, Locals
  <1>7. TaskMatches(l)
    BY <1>4, <1>6 DEF TaskMatches, Tasks
  <1>8. Paired(stack', accepted', l.app, l.snap.sid, l.snap.tmpl)
    BY <1>2, <1>6
  <1> HIDE DEF l
  <1>9. Knows(stack', accepted', l)
    BY <1>1, <1>2, <1>4, <1>6, <1>7, <1>8 DEF Knows, Templated
  <1> QED BY <1>3, <1>9, BecomesOK

(* On to the next call of a procedure. *)
LEMMA GotoOK ==
  ASSUME ProcsOK, Evolves, NEW p \in Procs, pc(p) \notin Unassigned, NEW l,
         \/ l = "listAdd" /\ proc[p].task = "Progressing"
         \/ l = "listRead" /\ proc[p].task \in {"Ready", "Failed", "Delete"}
         \/ l = "condition" /\ proc[p].task \in {"Progressing", "Ready", "Failed"}
         \/ l = "dropRecord" /\ proc[p].task = "Delete",
         Goto(p, l)
  PROVE  ProcsOK'
  <1>1. Knows(stack', accepted', proc[p])
    BY KnowsStable DEF ProcsOK, Evolves
  <1> DEFINE m == [proc[p] EXCEPT !.pc = l]
  <1>2. Becomes(p, m)
    BY DEF Goto
  <1>3. l \in PCs
    BY DEF PCs
  <1>4. /\ m \in Locals /\ m.pc = l /\ m.task = proc[p].task /\ m.ok = proc[p].ok
        /\ m.fail = proc[p].fail /\ m.app = proc[p].app /\ m.id = proc[p].id
        /\ m.want = proc[p].want /\ m.snap = proc[p].snap
    BY <1>1, <1>3 DEF Knows, Locals
  <1>5. TaskMatches(m)
    BY <1>4 DEF TaskMatches
  <1> HIDE DEF m
  <1>6. Knows(stack', accepted', m)
    BY <1>1, <1>4, <1>5 DEF Knows, Templated, pc
  <1> QED BY <1>2, <1>6, BecomesOK

-----------------------------------------------------------------------------
(* What the four parts of the invariant say of a goroutine at work.        *)
LEMMA InvFacts ==
  ASSUME IInv
  PROVE  /\ RosTypeOK /\ StacksOwned /\ ConfTypeOK /\ LiveHaveSpecs /\ ProcsOK
         /\ rec \in [Apps -> Records] /\ infos \subseteq Apps /\ outsec \subseteq Apps
         /\ due \subseteq Apps /\ Worker \in Procs /\ Watchers \subseteq Procs
         /\ \A p \in Procs :
              /\ Knows(stack, accepted, proc[p])
              /\ pc(p) \notin Unassigned => app(p) \in Apps
  BY DEF IInv, TypeOK, AppStackTypeOK, ProcsOK, ConfTypeOK, Procs, Knows, pc, app

(* The service changes by three requests of the worker and by itself. *)
LEMMA WhoMovesRos ==
  ASSUME Next PROVE CuCreate \/ CuUpdate \/ DelCall \/ RosStep \/ SameRos
  <1>1. CASE WorkerStep
    BY <1>1 DEF WorkerStep, CuStatus, CuFailed, CuSame, CuStack, CuFinalizer,
       CuFinalizerNotFound, CuCreateRefused, CuUpdateRefused, CuError, CuRecord,
       CuProgressing, Spawn, DelStatus, DelWait, DelStack, DelCallRefused,
       DelError, DelProgressing, DelRecord, DelFinalizer, Load, Recover, RecoverFails
  <1>2. CASE UserStep \/ (\E a \in Apps : Dispatch(a))
    BY <1>2 DEF UserStep, Dispatch
  <1>3. ASSUME NEW w \in Watchers, WatcherStep(w) \/ Panic(w)
        PROVE  SameRos
    BY <1>3 DEF WatcherStep, Poll, WReady, WFailed, WDrop, WFinalizer, Panic, Restart
  <1>4. ASSUME NEW p \in Procs, AppStackStep(p) \/ CallFails(p) \/ Conflict(p)
        PROVE  SameRos
    BY <1>4 DEF AppStackStep, CallFails, Conflict
  <1>5. CASE Crash
    BY <1>5 DEF Crash, Restart
  <1> QED BY <1>1, <1>2, <1>3, <1>4, <1>5 DEF Next

(* Each step moves the service as RosMoves says. *)
LEMMA NextRos == ASSUME IInv, Next PROVE RosMoves
  <1> USE InvFacts DEF W
  <1>1. CASE CuCreate
    <2>1. PICK i \in Ids : StackCreated(app(Worker), proc[Worker].want, i)
      BY <1>1 DEF CuCreate
    <2>2. app(Worker) \in Apps /\ proc[Worker].want \in Tmpls
      BY <1>1 DEF CuCreate, Knows, Templated, Unassigned, pc
    <2> QED BY <2>1, <2>2 DEF RosMoves
  <1>2. CASE CuUpdate
    <2>1. proc[Worker].id \in Ids /\ proc[Worker].want \in Tmpls
      BY <1>2 DEF CuUpdate, Knows, Templated, Locals, pc
    <2> QED BY <1>2, <2>1 DEF CuUpdate, RosMoves
  <1>3. CASE DelCall
    <2>1. proc[Worker].id \in Ids
      BY <1>3 DEF DelCall, Knows, Locals, pc
    <2> QED BY <1>3, <2>1 DEF DelCall, RosMoves
  <1>4. CASE RosStep
    BY <1>4 DEF RosStep, RosMoves
  <1>5. CASE SameRos
    BY <1>5 DEF SameRos, RosMoves
  <1> QED BY <1>1, <1>2, <1>3, <1>4, <1>5, WhoMovesRos

(* A handler that returns an error puts its own application on the queue. *)
LEMMA ReturnsDue ==
  ASSUME IInv, NEW p \in Procs, NEW l, ReturnTo(p, l) \/ FaultTo(p, l) \/ Goto(p, l),
         pc(p) \notin Unassigned \/ l # "requeue"
  PROVE  due' \subseteq Apps
  BY InvFacts DEF ReturnTo, FaultTo, Goto

(* Each step of an AppStack procedure, as the queue sees it. *)
LEMMA ProcedureDue ==
  ASSUME IInv, NEW p \in Procs, ProcedureStep(p)
  PROVE  due' \subseteq Apps
  <1>1. pc(p) \notin Unassigned
    BY DEF ProcedureStep, SetWrite, ListAdd, ListRead, ListWrite, SaveOutputs,
       NameOutputs, DropOutputs, DropRecord, ProcedureFails, Unassigned
  <1>2. ASSUME NEW l, ReturnTo(p, l) \/ FaultTo(p, l) \/ Goto(p, l)
        PROVE  due' \subseteq Apps
    BY <1>1, <1>2, ReturnsDue
  <1>3. CASE SetWrite(p)
    BY <1>2, <1>3 DEF SetWrite, Written
  <1>4. CASE ListAdd(p) \/ ListWrite(p)
    BY <1>2, <1>4 DEF ListAdd, ListWrite, Written, Listed
  <1>5. CASE ListRead(p) \/ SaveOutputs(p)
    BY <1>5, InvFacts DEF ListRead, SaveOutputs
  <1>6. CASE NameOutputs(p) \/ ProcedureFails(p)
    BY <1>2, <1>6 DEF NameOutputs, ProcedureFails
  <1>7. CASE DropOutputs(p) \/ DropRecord(p)
    BY <1>2, <1>7 DEF DropOutputs, DropRecord, Written
  <1> QED BY <1>3, <1>4, <1>5, <1>6, <1>7 DEF ProcedureStep

(* A conflict has a goroutine return, or a watcher go on. *)
LEMMA ConflictReturns ==
  ASSUME IInv, NEW p \in Procs, Conflict(p)
  PROVE  \E l \in Returns \cup {"ready"} : ReturnTo(p, l) /\ pc(p) \notin Unassigned
  <1>1. proc[p].fail \in Returns
    BY InvFacts DEF Knows
  <1>2. \E l \in Returns \cup {"ready"} : ReturnTo(p, l)
    BY <1>1 DEF Conflict, Returns
  <1> QED BY <1>2 DEF Conflict, Unassigned

(* Each step moves the objects as ConfMoves says. *)
LEMMA NextConf == ASSUME IInv, Next PROVE ConfMoves
  <1> USE InvFacts DEF W
  <1>0. ASSUME NEW p \in Procs, NEW l, ReturnTo(p, l) \/ FaultTo(p, l) \/ Goto(p, l),
               pc(p) \notin Unassigned \/ l # "requeue"
        PROVE  due' \subseteq Apps
    BY <1>0, ReturnsDue
  <1>1. CASE UserStep
    BY <1>1 DEF UserStep, ConfMoves
  <1>2. CASE RosStep \/ \E a \in Apps : Dispatch(a)
    BY <1>2 DEF RosStep, Dispatch, SameConf, ConfMoves
  <1>3. CASE CuFinalizer
    <2>1. app(Worker) \in Apps /\ AddCleanUpFinalizer(app(Worker))
      BY <1>3 DEF CuFinalizer, Unassigned
    <2> QED BY <2>1 DEF ConfMoves
  <1>4. CASE DelFinalizer
    <2>1. app(Worker) \in Apps /\ RemoveCleanUpFinalizer(app(Worker))
      BY <1>4 DEF DelFinalizer, Unassigned
    <2> QED BY <2>1 DEF ConfMoves
  <1>5. CASE CuStatus \/ CuFailed \/ CuSame \/ CuFinalizerNotFound \/ CuCreateRefused
             \/ CuUpdateRefused \/ DelStatus \/ DelWait \/ DelCallRefused
    <2>1. due' \subseteq Apps
      BY <1>0, <1>5 DEF CuStatus, CuFailed, CuSame, CuFinalizerNotFound, CuCreateRefused,
         CuUpdateRefused, DelStatus, DelWait, DelCallRefused, Unassigned
    <2>2. SameConf
      BY <1>5 DEF CuStatus, CuFailed, CuSame, CuFinalizerNotFound, CuCreateRefused,
         CuUpdateRefused, DelStatus, DelWait, DelCallRefused
    <2> QED BY <2>1, <2>2 DEF SameConf, ConfMoves
  <1>6. CASE CuCreate \/ CuUpdate \/ DelCall
    <2>1. CASE CuCreate
      BY <1>0, <2>1 DEF CuCreate, SameConf, ConfMoves
    <2>2. CASE CuUpdate
      BY <1>0, <2>2 DEF CuUpdate, SameConf, ConfMoves
    <2>3. CASE DelCall
      BY <1>0, <2>3 DEF DelCall, SameConf, ConfMoves
    <2> QED BY <1>6, <2>1, <2>2, <2>3
  <1>7. CASE CuStack \/ DelStack \/ CuError \/ CuRecord \/ CuProgressing
             \/ DelError \/ DelProgressing \/ DelRecord \/ Load
             \/ \E a \in Apps : Recover(a) \/ RecoverFails(a)
    BY <1>7 DEF CuStack, DelStack, CuError, CuRecord, CuProgressing, DelError,
       DelProgressing, DelRecord, Load, Recover, RecoverFails, Begin, SameConf, ConfMoves
  <1>8. CASE Spawn
    <2>1. app(Worker) \in Apps
      BY <1>8 DEF Spawn, Unassigned
    <2> QED BY <1>8, <2>1 DEF Spawn, SameConf, ConfMoves
  <1>9. ASSUME NEW w \in Watchers, WatcherStep(w)
        PROVE  ConfMoves
    <2>1. CASE WFinalizer(w)
      <3>1. app(w) \in Apps /\ RemoveCleanUpFinalizer(app(w))
        BY <2>1 DEF WFinalizer, Unassigned
      <3> QED BY <3>1 DEF ConfMoves
    <2>2. CASE Poll(w) \/ WReady(w) \/ WFailed(w) \/ WDrop(w)
      BY <2>2 DEF Poll, WReady, WFailed, WDrop, Begin, SameConf, ConfMoves
    <2> QED BY <1>9, <2>1, <2>2 DEF WatcherStep
  <1>10. ASSUME NEW p \in Procs, AppStackStep(p)
         PROVE  ConfMoves
    <2>1. CASE ProcedureStep(p) /\ SameConf
      BY <2>1, ProcedureDue DEF SameConf, ConfMoves
    <2>2. CASE Condition(p)
      <3>1. app(p) \in Apps /\ proc[p].task \in Phases /\ SetAppCondition(app(p), proc[p].task)
        BY <2>2 DEF Condition, Unassigned, Knows, TaskMatches, Phases, pc
      <3> QED BY <3>1 DEF ConfMoves
    <2> QED BY <1>10, <2>1, <2>2 DEF AppStackStep
  <1>11. ASSUME NEW p \in Procs, CallFails(p)
         PROVE  ConfMoves
    <2>1. PICK l \in {"requeue", "cuError", "spawnRequeue", "delError", "delStack",
                      "drop", "idle", "wFinalizer"} : FaultTo(p, l)
      BY <1>11 DEF CallFails
    <2>2. CASE l = "requeue"
      <3>1. pc(p) \notin Unassigned \/ \E m \in {"idle", "drop"} : FaultTo(p, m)
        BY <1>11 DEF CallFails, Unassigned
      <3> QED BY <1>0, <2>1, <3>1, <1>11 DEF CallFails, SameConf, ConfMoves
    <2>3. CASE l # "requeue"
      BY <1>0, <2>1, <2>3, <1>11 DEF CallFails, SameConf, ConfMoves
    <2> QED BY <2>2, <2>3
  <1>12. ASSUME NEW p \in Procs, Conflict(p)
         PROVE  ConfMoves
    <2>1. PICK l \in Returns \cup {"ready"} : ReturnTo(p, l) /\ pc(p) \notin Unassigned
      BY <1>12, ConflictReturns
    <2>2. due' \subseteq Apps
      BY <1>0, <2>1
    <2> QED BY <1>12, <2>2 DEF Conflict, SameConf, ConfMoves
  <1>13. ASSUME NEW w \in Watchers, Panic(w)
         PROVE  ConfMoves
    BY <1>13 DEF Panic, Restart, SameConf, ConfMoves
  <1>14. CASE Crash
    BY <1>14 DEF Crash, Restart, SameConf, ConfMoves
  <1> QED BY <1>1, <1>2, <1>3, <1>4, <1>5, <1>6, <1>7, <1>8, <1>9, <1>10, <1>11,
             <1>12, <1>13, <1>14 DEF Next, WorkerStep

(* The records stay paired while only the service moves. *)
LEMMA RecordsStable ==
  ASSUME IInv, Evolves
  PROVE  \A a \in Apps : Paired(stack', accepted', a, rec[a].sid, rec[a].tmpl)
  BY DEF IInv, Evolves, Paired, TypeOK, AppStackTypeOK, Records

(* What the goroutine at work knows after a step that leads to a place     *)
(* which asks for nothing but its application.                             *)
LEMMA ToPlain ==
  ASSUME IInv, Evolves, NEW p \in Procs, NEW l, ReturnTo(p, l) \/ FaultTo(p, l),
         l \in {"idle", "requeue"} \/ (l \in Plain /\ pc(p) \notin Unassigned)
  PROVE  ProcsOK'
  BY InvFacts, UnwindsOK DEF ReturnTo, FaultTo

LEMMA ToTemplated ==
  ASSUME IInv, Evolves, NEW p \in Procs, NEW l, ReturnTo(p, l),
         l \in Templated \ {"cuUpdate", "cuRecord"},
         pc(p) \notin Unassigned, proc[p].want \in Tmpls
  PROVE  ProcsOK'
  BY InvFacts, UnwindsOK DEF ReturnTo

(* A watcher starts with an application and a stack of it, or none. *)
LEMMA WatcherKnows ==
  ASSUME NEW st, NEW ac, NEW a \in Apps, NEW i \in Ids \cup {None},
         i # None => st[i].app = a
  PROVE  Knows(st, ac, [At("wait") EXCEPT !.app = a, !.id = i])
  <1> DEFINE l == [At("wait") EXCEPT !.app = a, !.id = i]
  <1>1. At("wait") \in Locals /\ At("wait").pc = "wait" /\ At("wait").snap = NoRecord
        /\ At("wait").task = "none" /\ At("wait").ok = "idle" /\ At("wait").fail = "idle"
    BY AtLocals DEF PCs
  <1>2. /\ l \in Locals /\ l.pc = "wait" /\ l.snap = NoRecord /\ l.task = "none"
        /\ l.ok = "idle" /\ l.fail = "idle" /\ l.app = a /\ l.id = i
    BY <1>1 DEF Locals
  <1> QED BY <1>2, FreshKnows

(* GetStack reads an id that belongs to the application. *)
LEMMA GetStackOK ==
  ASSUME IInv, Evolves, pc(Worker) \in {"cuStack", "delStack"}, NEW next,
         GetStack(next),
         \/ next = "cuFinalizer" /\ pc(Worker) = "cuStack"
         \/ next = "delFinalizer"
         \/ next = "delCall" /\ rec[app(Worker)].sid # None
  PROVE  ProcsOK'
  <1> USE InvFacts
  <1>0. /\ Knows(stack', accepted', proc[Worker])
        /\ pc(Worker) = proc[Worker].pc /\ app(Worker) = proc[Worker].app
    BY KnowsStable DEF Evolves, pc, app
  <1> DEFINE l == [proc[Worker] EXCEPT !.id = rec[app(Worker)].sid, !.pc = next]
  <1>1. Becomes(Worker, l)
    BY DEF GetStack, W
  <1>2. app(Worker) \in Apps /\ (pc(Worker) = "cuStack" => proc[Worker].want \in Tmpls)
    BY <1>0 DEF Knows, Unassigned, Templated
  <1>3. /\ rec[app(Worker)].sid \in Ids \cup {None}
        /\ rec[app(Worker)].sid # None =>
             stack'[rec[app(Worker)].sid].app = app(Worker)
    BY <1>2, RecordsStable DEF Paired, Records
  <1>8. next \in PCs
    BY DEF PCs
  <1>4. /\ l \in Locals /\ l.pc = next /\ l.id = rec[app(Worker)].sid
        /\ l.app = app(Worker) /\ l.want = proc[Worker].want
        /\ l.task = proc[Worker].task /\ l.ok = proc[Worker].ok
        /\ l.fail = proc[Worker].fail /\ l.snap = proc[Worker].snap
    BY <1>0, <1>3, <1>8 DEF Knows, Locals
  <1> HIDE DEF l
  <1>5. l.task # "Record"
    BY <1>0, <1>4 DEF Knows, TaskMatches
  <1>6. TaskMatches(l)
    BY <1>4, <1>5 DEF TaskMatches
  <1>7. Knows(stack', accepted', l)
    BY <1>0, <1>2, <1>3, <1>4, <1>5, <1>6 DEF Knows, Templated
  <1> QED BY <1>1, <1>7, BecomesOK

(* The handler of a created or changed object. *)
LEMMA CreateOrUpdateOK ==
  ASSUME IInv, Evolves,
         \/ CuStatus \/ CuFailed \/ CuSame \/ CuStack
         \/ CuFinalizer \/ CuFinalizerNotFound
         \/ CuCreate \/ CuCreateRefused \/ CuUpdate \/ CuUpdateRefused
         \/ CuError \/ CuRecord \/ CuProgressing \/ Spawn
  PROVE  ProcsOK'
  <1> USE InvFacts DEF W
  <1>0. /\ Knows(stack, accepted, proc[Worker])
        /\ Knows(stack', accepted', proc[Worker])
        /\ pc(Worker) = proc[Worker].pc /\ app(Worker) = proc[Worker].app
    BY KnowsStable DEF Evolves, pc, app
  <1>1. CASE CuStatus
    <2>1. pc(Worker) \notin Unassigned /\ proc[Worker].want \in Specs
      BY <1>0, <1>1 DEF CuStatus, Knows, Unassigned
    <2>2. CASE ReturnTo(Worker, "idle") \/ ReturnTo(Worker, "cuError")
      BY <2>1, <2>2, ToPlain DEF Plain
    <2>3. CASE /\ proc[Worker].want # BadSpec
               /\ \E l \in {"cuSame", "cuFailed"} : ReturnTo(Worker, l)
      <3>1. proc[Worker].want \in Tmpls
        BY <2>1, <2>3 DEF Specs
      <3> QED BY <2>1, <2>3, <3>1, ToTemplated DEF Templated
    <2> QED BY <1>1, <2>2, <2>3 DEF CuStatus
  <1>2. CASE CuFailed \/ CuSame
    <2>1. pc(Worker) \notin Unassigned /\ proc[Worker].want \in Tmpls
      BY <1>0, <1>2 DEF CuFailed, CuSame, Knows, Unassigned, Templated
    <2>2. \E l \in {"idle", "cuStack", "cuSame"} : ReturnTo(Worker, l)
      BY <1>2 DEF CuFailed, CuSame
    <2> QED BY <2>1, <2>2, ToTemplated, ToPlain DEF Templated
  <1>3. CASE CuStack
    BY <1>3, GetStackOK DEF CuStack
  <1>4. CASE CuFinalizer
    <2>1. /\ pc(Worker) = "cuFinalizer" /\ pc(Worker) \notin Unassigned
          /\ proc[Worker].want \in Tmpls
      BY <1>0, <1>4 DEF CuFinalizer, Knows, Unassigned, Templated
    <2>2. CASE Becomes(Worker, At("idle"))
      BY <2>2, AtRestKnows, BecomesOK
    <2>3. CASE \E l \in {"cuCreate", "cuUpdate"} :
                 /\ Becomes(Worker, Unwound(Worker, l))
                 /\ l = "cuUpdate" => proc[Worker].id # None
      BY <2>1, <2>3, UnwindsOK DEF Templated
    <2> QED BY <1>4, <2>2, <2>3 DEF CuFinalizer
  <1>5. CASE CuFinalizerNotFound \/ CuCreateRefused
    <2>1. \E l \in {"requeue", "cuError"} : ReturnTo(Worker, l)
      BY <1>5 DEF CuFinalizerNotFound, CuCreateRefused
    <2>2. pc(Worker) \notin Unassigned
      BY <1>5 DEF CuFinalizerNotFound, CuCreateRefused, Unassigned
    <2> QED BY <2>1, <2>2, ToPlain DEF Plain
  <1>6. CASE CuCreate
    <2>1. PICK i \in Ids :
            /\ StackCreated(app(Worker), proc[Worker].want, i)
            /\ \/ Becomes(Worker, [proc[Worker] EXCEPT !.id = i, !.pc = "cuRecord"])
               \/ FaultTo(Worker, "cuError")
      BY <1>6 DEF CuCreate
    <2>2. pc(Worker) = "cuCreate" /\ pc(Worker) \notin Unassigned
      BY <1>6 DEF CuCreate, Unassigned
    <2>3. CASE FaultTo(Worker, "cuError")
      BY <2>2, <2>3, ToPlain DEF Plain
    <2>4. CASE Becomes(Worker, [proc[Worker] EXCEPT !.id = i, !.pc = "cuRecord"])
      <3> DEFINE l == [proc[Worker] EXCEPT !.id = i, !.pc = "cuRecord"]
      <3>1. /\ l \in Locals /\ l.pc = "cuRecord" /\ l.id = i
            /\ l.app = app(Worker) /\ l.want = proc[Worker].want
            /\ l.task = proc[Worker].task /\ l.ok = proc[Worker].ok
            /\ l.fail = proc[Worker].fail /\ l.snap = proc[Worker].snap
        BY <1>0 DEF Knows, Locals, PCs
      <3>2. app(Worker) \in Apps /\ proc[Worker].want \in Tmpls
        BY <1>0, <2>2 DEF Knows, Templated
      <3>3. stack'[i].app = app(Worker) /\ proc[Worker].want \in accepted'[i]
        BY <2>1, <3>2 DEF StackCreated, RosTypeOK, Stacks
      <3>4. Becomes(Worker, l)
        BY <2>4
      <3> HIDE DEF l
      <3>5. TaskMatches(l) /\ i # None
        BY <1>0, <2>2, <3>1, DomainAssumption DEF Knows, TaskMatches
      <3>6. Knows(stack', accepted', l)
        BY <1>0, <3>1, <3>2, <3>3, <3>5 DEF Knows
      <3> QED BY <3>4, <3>6, BecomesOK
    <2> QED BY <2>1, <2>3, <2>4
  <1>7. CASE CuUpdate
    <2>1. pc(Worker) = "cuUpdate" /\ pc(Worker) \notin Unassigned
      BY <1>7 DEF CuUpdate, Unassigned
    <2>2. proc[Worker].id \in Ids /\ proc[Worker].id # None /\ proc[Worker].want \in Tmpls
      BY <1>0, <2>1 DEF Knows, Templated, Locals
    <2>3. proc[Worker].want \in accepted'[proc[Worker].id]
      BY <1>7, <2>2 DEF CuUpdate, StackUpdated, RosTypeOK
    <2>4. CASE FaultTo(Worker, "cuError")
      BY <2>1, <2>4, ToPlain DEF Plain
    <2>5. CASE ReturnTo(Worker, "cuRecord")
      BY <2>1, <2>2, <2>3, <2>5, UnwindsOK DEF ReturnTo
    <2> QED BY <1>7, <2>4, <2>5 DEF CuUpdate
  <1>8. CASE CuUpdateRefused
    <2>1. pc(Worker) = "cuUpdate" /\ pc(Worker) \notin Unassigned
      BY <1>8 DEF CuUpdateRefused, Unassigned
    <2>2. proc[Worker].want \in Tmpls
      BY <1>0, <2>1 DEF Knows, Templated
    <2>3. \E l \in {"idle", "cuCreate", "cuError"} : ReturnTo(Worker, l)
      BY <1>8 DEF CuUpdateRefused
    <2> QED BY <2>1, <2>2, <2>3, ToTemplated, ToPlain DEF Plain, Templated
  <1>9. CASE CuError \/ CuRecord \/ CuProgressing
    <2>1. pc(Worker) \notin Unassigned
      BY <1>9 DEF CuError, CuRecord, CuProgressing, Unassigned
    <2>2. pc(Worker) = "cuRecord" =>
            /\ proc[Worker].id # None /\ proc[Worker].want \in Tmpls
            /\ proc[Worker].want \in accepted'[proc[Worker].id]
      BY <1>0 DEF Knows
    <2>3. PICK task \in {"Failed", "Record", "Progressing"},
               ok \in {"idle", "cuProgressing", "spawn"},
               fail \in {"requeue", "spawnRequeue"} :
            /\ Begin(Worker, task, ok, fail)
            /\ task = "Record" => pc(Worker) = "cuRecord"
      BY <1>9 DEF CuError, CuRecord, CuProgressing
    <2>4. task \in Tasks \ {"none"} /\ ok \in Returns /\ fail \in Returns
      BY DEF Tasks, Returns
    <2> QED BY <2>1, <2>2, <2>3, <2>4, RecordsStable, BeginOK
  <1>10. CASE Spawn
    <2>1. PICK w \in Watchers : Starts(w, app(Worker), proc[Worker].id)
      BY <1>10 DEF Spawn
    <2>2. app(Worker) \in Apps
      BY <1>10 DEF Spawn, Unassigned
    <2> DEFINE l == [At("wait") EXCEPT !.app = app(Worker), !.id = proc[Worker].id]
    <2>3. proc' = [proc EXCEPT ![w] = l, ![Worker] = At("idle")]
      BY <2>1 DEF Starts
    <2>4. Knows(stack', accepted', l)
      <3>1. proc[Worker].id \in Ids \cup {None}
        BY <1>0 DEF Knows, Locals
      <3>2. proc[Worker].id # None => stack'[proc[Worker].id].app = app(Worker)
        BY <1>0 DEF Knows
      <3> QED BY <2>2, <3>1, <3>2, WatcherKnows
    <2>5. \A q \in Procs : Knows(stack', accepted', proc[q])
      BY KnowsStable DEF Evolves
    <2> HIDE DEF l
    <2>6. l \in Locals /\ At("idle") \in Locals /\ Knows(stack', accepted', At("idle"))
      BY <2>4, AtRestKnows DEF Knows
    <2> QED BY <2>3, <2>4, <2>5, <2>6 DEF ProcsOK
  <1> QED BY <1>1, <1>2, <1>3, <1>4, <1>5, <1>6, <1>7, <1>8, <1>9, <1>10

(* The handler of a deleted object. *)
LEMMA DeleteOK ==
  ASSUME IInv, Evolves,
         \/ DelStatus \/ DelWait \/ DelStack \/ DelCall \/ DelCallRefused
         \/ DelError \/ DelProgressing \/ DelRecord \/ DelFinalizer
  PROVE  ProcsOK'
  <1> USE InvFacts DEF W
  <1>1. CASE DelStatus \/ DelWait \/ DelCallRefused
    <2>1. pc(Worker) \notin Unassigned
      BY <1>1 DEF DelStatus, DelWait, DelCallRefused, Unassigned
    <2>2. \E l \in {"delWait", "delStack", "delRecord", "delError"} : ReturnTo(Worker, l)
      BY <1>1 DEF DelStatus, DelWait, DelCallRefused
    <2> QED BY <2>1, <2>2, ToPlain DEF Plain
  <1>2. CASE DelStack
    BY <1>2, GetStackOK DEF DelStack
  <1>3. CASE DelCall
    <2>1. pc(Worker) \notin Unassigned
      BY <1>3 DEF DelCall, Unassigned
    <2>2. \E l \in {"delProgressing", "delError"} :
            ReturnTo(Worker, l) \/ FaultTo(Worker, l)
      BY <1>3 DEF DelCall
    <2> QED BY <2>1, <2>2, ToPlain DEF Plain
  <1>4. CASE DelError \/ DelProgressing \/ DelRecord
    <2>1. pc(Worker) \notin Unassigned
      BY <1>4 DEF DelError, DelProgressing, DelRecord, Unassigned
    <2>2. PICK task \in {"Failed", "Progressing", "Delete"},
               ok \in {"idle", "spawn", "delFinalizer"} :
            Begin(Worker, task, ok, "requeue")
      BY <1>4 DEF DelError, DelProgressing, DelRecord
    <2>3. task \in Tasks \ {"none"} /\ ok \in Returns /\ "requeue" \in Returns
      BY DEF Tasks, Returns
    <2> QED BY <2>1, <2>2, <2>3, RecordsStable, BeginOK
  <1>5. CASE DelFinalizer
    BY <1>5, AtRestKnows, BecomesOK DEF DelFinalizer
  <1> QED BY <1>1, <1>2, <1>3, <1>4, <1>5

(* The recovery, and the events. *)
LEMMA RecoveryOK ==
  ASSUME IInv, Evolves,
         Load \/ \E a \in Apps : Recover(a) \/ RecoverFails(a) \/ Dispatch(a)
  PROVE  ProcsOK'
  <1> USE InvFacts DEF W
  <1>0. Knows(stack', accepted', proc[Worker]) /\ pc(Worker) = proc[Worker].pc
    BY KnowsStable DEF Evolves, pc
  <1>1. ASSUME NEW as \in SUBSET Apps
        PROVE  Knows(stack', accepted', [At("recover") EXCEPT !.list = as])
    <2>1. At("recover") \in Locals /\ At("recover").pc = "recover"
          /\ At("recover").snap = NoRecord /\ At("recover").task = "none"
          /\ At("recover").ok = "idle" /\ At("recover").fail = "idle"
          /\ At("recover").id = None
      BY AtLocals DEF PCs
    <2> DEFINE l == [At("recover") EXCEPT !.list = as]
    <2>2. l \in Locals /\ l.pc = "recover" /\ l.snap = NoRecord /\ l.task = "none"
          /\ l.ok = "idle" /\ l.fail = "idle" /\ l.id = None
      BY <2>1 DEF Locals
    <2> QED BY <2>2, FreshKnows
  <1>2. CASE Load
    <2>1. Becomes(Worker, At("idle")) \/ Becomes(Worker, [At("recover") EXCEPT !.list = infos])
      BY <1>2 DEF Load
    <2> QED BY <1>1, <2>1, AtRestKnows, BecomesOK
  <1>3. ASSUME NEW a \in Apps, pc(Worker) = "recover"
        PROVE  LET l == IF proc[Worker].list = {a} THEN At("idle")
                        ELSE [proc[Worker] EXCEPT !.list = @ \ {a}]
               IN  Knows(stack', accepted', l)
    <2> DEFINE l == [proc[Worker] EXCEPT !.list = @ \ {a}]
    <2>1. /\ l \in Locals /\ l.pc = "recover" /\ l.id = proc[Worker].id
          /\ l.app = proc[Worker].app /\ l.want = proc[Worker].want
          /\ l.task = proc[Worker].task /\ l.ok = proc[Worker].ok
          /\ l.fail = proc[Worker].fail /\ l.snap = proc[Worker].snap
      BY <1>0, <1>3 DEF Knows, Locals
    <2> HIDE DEF l
    <2>2. TaskMatches(l)
      BY <1>0, <1>3, <2>1 DEF Knows, TaskMatches
    <2>3. Knows(stack', accepted', l)
      BY <1>0, <1>3, <2>1, <2>2 DEF Knows, Templated, Unassigned
    <2> QED BY <2>3, AtRestKnows DEF l
  <1>4. ASSUME NEW a \in Apps, RecoverFails(a)
        PROVE  ProcsOK'
    BY <1>3, <1>4, BecomesOK DEF RecoverFails
  <1>5. ASSUME NEW a \in Apps, Recover(a)
        PROVE  ProcsOK'
    <2> DEFINE m == IF proc[Worker].list = {a} THEN At("idle")
                    ELSE [proc[Worker] EXCEPT !.list = @ \ {a}]
               l == [At("wait") EXCEPT !.app = a, !.id = rec[a].sid]
    <2>1. PICK w \in Watchers : proc' = [proc EXCEPT ![w] = l, ![Worker] = m]
      BY <1>5 DEF Recover
    <2>2. Knows(stack', accepted', m)
      BY <1>3, <1>5 DEF Recover
    <2>3. Knows(stack', accepted', l)
      <3>1. rec[a].sid \in Ids \cup {None}
        BY DEF Records
      <3>2. rec[a].sid # None => stack'[rec[a].sid].app = a
        BY RecordsStable DEF Paired
      <3> QED BY <3>1, <3>2, WatcherKnows
    <2>4. \A q \in Procs : Knows(stack', accepted', proc[q])
      BY KnowsStable DEF Evolves
    <2> HIDE DEF l, m
    <2>5. l \in Locals /\ m \in Locals
      BY <2>2, <2>3 DEF Knows
    <2> QED BY <2>1, <2>2, <2>3, <2>4, <2>5 DEF ProcsOK
  <1>6. ASSUME NEW a \in Apps, Dispatch(a)
        PROVE  ProcsOK'
    <2>1. CASE conf[a].state = "live"
      <3> DEFINE l == [At("cuStatus") EXCEPT !.app = a, !.want = conf[a].spec]
      <3>1. conf[a].spec \in Specs
        BY <2>1 DEF LiveHaveSpecs, Present
      <3>2. At("cuStatus") \in Locals /\ At("cuStatus").pc = "cuStatus"
            /\ At("cuStatus").snap = NoRecord /\ At("cuStatus").task = "none"
            /\ At("cuStatus").ok = "idle" /\ At("cuStatus").fail = "idle"
            /\ At("cuStatus").id = None
        BY AtLocals DEF PCs
      <3>3. /\ l \in Locals /\ l.pc = "cuStatus" /\ l.snap = NoRecord /\ l.task = "none"
            /\ l.ok = "idle" /\ l.fail = "idle" /\ l.app = a /\ l.want \in Specs
            /\ l.id = None
        BY <3>1, <3>2 DEF Locals
      <3>4. Becomes(Worker, l)
        BY <1>6, <2>1 DEF Dispatch
      <3> HIDE DEF l
      <3>5. Knows(stack', accepted', l)
        BY <3>3, FreshKnows
      <3> QED BY <3>4, <3>5, BecomesOK
    <2>2. CASE conf[a].state = "deleting"
      <3> DEFINE l == [At("delStatus") EXCEPT !.app = a]
      <3>1. At("delStatus") \in Locals /\ At("delStatus").pc = "delStatus"
            /\ At("delStatus").snap = NoRecord /\ At("delStatus").task = "none"
            /\ At("delStatus").ok = "idle" /\ At("delStatus").fail = "idle"
            /\ At("delStatus").id = None
        BY AtLocals DEF PCs
      <3>2. /\ l \in Locals /\ l.pc = "delStatus" /\ l.snap = NoRecord
            /\ l.task = "none" /\ l.ok = "idle" /\ l.fail = "idle" /\ l.app = a
            /\ l.id = None
        BY <3>1 DEF Locals
      <3>3. Becomes(Worker, l)
        BY <1>6, <2>2 DEF Dispatch
      <3> HIDE DEF l
      <3>4. Knows(stack', accepted', l)
        BY <3>2, FreshKnows
      <3> QED BY <3>3, <3>4, BecomesOK
    <2>3. CASE conf[a].state \notin {"live", "deleting"}
      <3>1. Becomes(Worker, At("idle"))
        BY <1>6, <2>3 DEF Dispatch
      <3> QED BY <3>1, AtRestKnows, BecomesOK
    <2> QED BY <2>1, <2>2, <2>3
  <1> QED BY <1>2, <1>4, <1>5, <1>6

(* A watcher.                                                              *)
LEMMA WatcherOK ==
  ASSUME IInv, Evolves, NEW w \in Watchers, WatcherStep(w)
  PROVE  ProcsOK'
  <1> USE InvFacts
  <1>0. Knows(stack', accepted', proc[w]) /\ pc(w) = proc[w].pc
    BY KnowsStable DEF Evolves, pc
  <1>1. CASE Poll(w)
    <2> DEFINE status == stack[proc[w].id].status
    <2>1. PICK d \in BOOLEAN, o \in {"empty", "named", None},
               next \in {"saveOutputs", "failed", "drop"} :
            Becomes(w, [proc[w] EXCEPT !.inDelete = d, !.snap.outs = o, !.pc = next])
      <3> DEFINE d == status \in InDelete
                 o == IF status \notin Deployed THEN None
                      ELSE IF stack[proc[w].id].tmpl \in WithOutputs THEN "named"
                      ELSE "empty"
                 next == CASE status \in Deployed     -> "saveOutputs"
                           [] status \in Unsuccessful -> "failed"
                           [] OTHER                   -> "drop"
      <3>1. Becomes(w, [proc[w] EXCEPT !.inDelete = d, !.snap.outs = o, !.pc = next])
        BY <1>1 DEF Poll
      <3>2. d \in BOOLEAN /\ o \in {"empty", "named", None}
        OBVIOUS
      <3>3. next \in {"saveOutputs", "failed", "drop"}
        BY DEF Deployed, Unsuccessful
      <3> HIDE DEF d, o, next
      <3> QED BY <3>1, <3>2, <3>3
    <2> DEFINE l == [proc[w] EXCEPT !.inDelete = d, !.snap.outs = o, !.pc = next]
    <2>2. next \in PCs /\ pc(w) = "wait"
      BY <1>1 DEF Poll, PCs
    <2>3. /\ l \in Locals /\ l.pc = next /\ l.id = proc[w].id /\ l.app = proc[w].app
          /\ l.want = proc[w].want /\ l.task = proc[w].task /\ l.ok = proc[w].ok
          /\ l.fail = proc[w].fail /\ l.snap.sid = proc[w].snap.sid
          /\ l.snap.tmpl = proc[w].snap.tmpl
      BY <1>0, <2>2 DEF Knows, Locals, Records
    <2>4. Becomes(w, l)
      BY <2>1
    <2> HIDE DEF l
    <2>5. TaskMatches(l) /\ l.task # "Record"
      BY <1>0, <2>2, <2>3 DEF Knows, TaskMatches
    <2>6. Knows(stack', accepted', l)
      BY <1>0, <2>2, <2>3, <2>5 DEF Knows, Templated, Unassigned
    <2> QED BY <2>4, <2>6, BecomesOK
  <1>2. CASE WReady(w) \/ WFailed(w) \/ WDrop(w)
    <2>1. pc(w) \notin Unassigned
      BY <1>2 DEF WReady, WFailed, WDrop, Unassigned
    <2>2. PICK task \in {"Ready", "Failed", "Delete"},
               next \in {"idle", "drop", "wFinalizer"} : Begin(w, task, next, next)
      BY <1>2 DEF WReady, WFailed, WDrop
    <2>3. task \in Tasks \ {"none"} /\ next \in Returns
      BY DEF Tasks, Returns
    <2> QED BY <2>1, <2>2, <2>3, RecordsStable, BeginOK
  <1>3. CASE WFinalizer(w)
    BY <1>3, AtRestKnows, BecomesOK DEF WFinalizer
  <1> QED BY <1>1, <1>2, <1>3 DEF WatcherStep

(* Where a procedure returns to, a goroutine needs only an application. *)
LEMMA ReturnsOK ==
  ASSUME IInv, Evolves, NEW p \in Procs, pc(p) \notin Unassigned,
         NEW l \in {proc[p].ok, proc[p].fail},
         ReturnTo(p, l) \/ FaultTo(p, l) \/ Becomes(p, Unwound(p, l))
  PROVE  ProcsOK'
  <1>1. l \in {"idle", "requeue"} \/ l \in Plain
    BY InvFacts DEF Knows, Returns, Plain
  <1> QED BY <1>1, InvFacts, UnwindsOK DEF ReturnTo, FaultTo

(* The procedures of AppStack. *)
LEMMA AppStackOK ==
  ASSUME IInv, Evolves, NEW p \in Procs, AppStackStep(p)
  PROVE  ProcsOK'
  <1> USE InvFacts
  <1>0. Knows(stack', accepted', proc[p]) /\ pc(p) = proc[p].pc /\ TaskMatches(proc[p])
    <2>1. Knows(stack', accepted', proc[p])
      BY KnowsStable DEF Evolves
    <2> QED BY <2>1 DEF Knows, pc
  <1>1. pc(p) \notin Unassigned
    <2>1. CASE SetWrite(p) \/ ListAdd(p) \/ ListRead(p) \/ ListWrite(p) \/ Condition(p)
      BY <2>1 DEF SetWrite, ListAdd, ListRead, ListWrite, Condition, Unassigned
    <2>2. CASE SaveOutputs(p) \/ NameOutputs(p) \/ DropOutputs(p) \/ DropRecord(p)
      BY <2>2 DEF SaveOutputs, NameOutputs, DropOutputs, DropRecord, Unassigned
    <2>3. CASE ProcedureFails(p)
      BY <2>3 DEF ProcedureFails, Unassigned
    <2> QED BY <2>1, <2>2, <2>3 DEF AppStackStep, ProcedureStep
  <1>2. ASSUME FaultTo(p, proc[p].fail) \/ ReturnTo(p, proc[p].ok)
        PROVE  ProcsOK'
    BY <1>1, <1>2, ReturnsOK
  <1>3. CASE SetWrite(p)
    <2>1. proc[p].task \in {"Record", "Progressing", "Ready", "Failed"}
      BY <1>0, <1>3 DEF SetWrite, TaskMatches
    <2>2. \/ FaultTo(p, proc[p].fail) \/ ReturnTo(p, proc[p].ok)
          \/ proc[p].task = "Progressing" /\ Goto(p, "listAdd")
          \/ proc[p].task \in {"Ready", "Failed"} /\ Goto(p, "listRead")
      BY <1>3, <2>1 DEF SetWrite, Written
    <2> QED BY <1>1, <1>2, <2>2, GotoOK
  <1>4. CASE ListAdd(p) \/ ListWrite(p)
    <2>1. \/ FaultTo(p, proc[p].fail) \/ ReturnTo(p, proc[p].ok)
          \/ proc[p].task # "Delete" /\ Goto(p, "condition")
      BY <1>4 DEF ListAdd, ListWrite, Written, Listed
    <2>2. proc[p].task \in {"Progressing", "Ready", "Failed", "Delete"}
      BY <1>0, <1>4 DEF ListAdd, ListWrite, TaskMatches
    <2> QED BY <1>1, <1>2, <2>1, <2>2, GotoOK
  <1>5. CASE ListRead(p)
    <2> DEFINE l == [proc[p] EXCEPT !.pc = "listWrite", !.list = infos]
    <2>1. "listWrite" \in PCs /\ pc(p) = "listRead" /\ Becomes(p, l)
      BY <1>5 DEF ListRead, PCs
    <2>2. /\ l \in Locals /\ l.pc = "listWrite" /\ l.id = proc[p].id
          /\ l.app = proc[p].app /\ l.want = proc[p].want
          /\ l.task = proc[p].task /\ l.ok = proc[p].ok
          /\ l.fail = proc[p].fail /\ l.snap = proc[p].snap
      BY <1>0, <2>1 DEF Knows, Locals
    <2> HIDE DEF l
    <2>3. TaskMatches(l) /\ l.task # "Record"
      BY <1>0, <2>1, <2>2 DEF TaskMatches
    <2>4. Knows(stack', accepted', l)
      BY <1>0, <2>1, <2>2, <2>3 DEF Knows, Templated, Unassigned
    <2> QED BY <2>1, <2>4, BecomesOK
  <1>6. CASE SaveOutputs(p)
    <2>0. PICK o \in {proc[p].snap.outs, "empty"} :
            Becomes(p, [proc[p] EXCEPT !.pc = "nameOutputs", !.snap.outs = o])
      <3>1. [proc[p] EXCEPT !.pc = "nameOutputs"] =
            [proc[p] EXCEPT !.pc = "nameOutputs", !.snap.outs = proc[p].snap.outs]
        BY <1>0 DEF Knows, Locals, Records
      <3> QED BY <1>6, <3>1 DEF SaveOutputs
    <2> DEFINE l == [proc[p] EXCEPT !.pc = "nameOutputs", !.snap.outs = o]
    <2>1. "nameOutputs" \in PCs /\ pc(p) = "saveOutputs" /\ Becomes(p, l)
      BY <1>6, <2>0 DEF SaveOutputs, PCs
    <2>5. o \in {"empty", "named", None}
      BY <1>0, <2>0 DEF Knows, Locals, Records
    <2>2. /\ l \in Locals /\ l.pc = "nameOutputs" /\ l.id = proc[p].id
          /\ l.app = proc[p].app /\ l.want = proc[p].want
          /\ l.task = proc[p].task /\ l.ok = proc[p].ok /\ l.fail = proc[p].fail
          /\ l.snap.sid = proc[p].snap.sid /\ l.snap.tmpl = proc[p].snap.tmpl
      BY <1>0, <2>1, <2>5 DEF Knows, Locals, Records
    <2> HIDE DEF l
    <2>3. TaskMatches(l) /\ l.task # "Record"
      BY <1>0, <2>1, <2>2 DEF TaskMatches
    <2>4. Knows(stack', accepted', l)
      BY <1>0, <2>1, <2>2, <2>3 DEF Knows, Templated, Unassigned
    <2> QED BY <2>1, <2>4, BecomesOK
  <1>7. CASE NameOutputs(p)
    BY <1>1, <1>7, ToPlain DEF NameOutputs, Plain
  <1>8. CASE DropOutputs(p)
    <2>1. FaultTo(p, proc[p].fail) \/ Goto(p, "dropRecord")
      BY <1>8 DEF DropOutputs, Written
    <2>2. proc[p].task = "Delete"
      BY <1>0, <1>8 DEF DropOutputs, TaskMatches
    <2> QED BY <1>1, <1>2, <2>1, <2>2, GotoOK
  <1>9. CASE DropRecord(p)
    <2>1. FaultTo(p, proc[p].fail) \/ Goto(p, "listRead")
      BY <1>9 DEF DropRecord, Written
    <2>2. proc[p].task = "Delete"
      BY <1>0, <1>9 DEF DropRecord, TaskMatches
    <2> QED BY <1>1, <1>2, <2>1, <2>2, GotoOK
  <1>10. CASE ProcedureFails(p)
    BY <1>2, <1>10 DEF ProcedureFails
  <1>11. CASE Condition(p)
    <2>1. \E l \in {proc[p].ok, proc[p].fail} : Becomes(p, Unwound(p, l))
      BY <1>11 DEF Condition
    <2> QED BY <1>1, <2>1, ReturnsOK
  <1> QED BY <1>3, <1>4, <1>5, <1>6, <1>7, <1>8, <1>9, <1>10, <1>11
          DEF AppStackStep, ProcedureStep

(* A call that fails. *)
LEMMA CallFailsOK ==
  ASSUME IInv, Evolves, NEW p \in Procs, CallFails(p)
  PROVE  ProcsOK'
  <1>1. PICK l \in {"requeue", "cuError", "spawnRequeue", "delError", "delStack",
                    "drop", "idle", "wFinalizer"} :
          FaultTo(p, l) /\ (pc(p) \in Unassigned => l = "idle")
    BY DEF CallFails, Unassigned
  <1> QED BY <1>1, ToPlain DEF Plain

(* A write that meets a conflict. *)
LEMMA ConflictOK ==
  ASSUME IInv, Evolves, NEW p \in Procs, Conflict(p)
  PROVE  ProcsOK'
  <1>1. PICK l \in Returns \cup {"ready"} : pc(p) \notin Unassigned /\ ReturnTo(p, l)
    BY ConflictReturns
  <1>2. l \in {"idle", "requeue"} \/ l \in Plain
    BY DEF Returns, Plain
  <1> QED BY <1>1, <1>2, InvFacts, UnwindsOK DEF ReturnTo

(* Users and the service do not touch the goroutines; a crash ends them. *)
LEMMA OutsideOK ==
  ASSUME IInv, Evolves, UNCHANGED proc \/ Restart
  PROVE  ProcsOK'
  <1>1. CASE UNCHANGED proc
    BY <1>1, InvFacts, KnowsStable DEF ProcsOK, Evolves
  <1>2. CASE Restart
    <2>1. \A p \in Procs : Knows(stack', accepted', Booted[p])
      BY AtRestKnows DEF Booted
    <2>2. proc' = Booted /\ Booted \in [Procs -> Locals]
      BY <1>2, AtLocals DEF Restart, Booted, PCs
    <2> QED BY <2>1, <2>2 DEF ProcsOK
  <1> QED BY <1>1, <1>2

LEMMA NextProcs == ASSUME IInv, Evolves, Next PROVE ProcsOK'
  <1>1. CASE UserStep \/ RosStep
    BY <1>1, OutsideOK DEF UserStep, RosStep
  <1>2. CASE Crash \/ \E w \in Watchers : Panic(w)
    BY <1>2, OutsideOK DEF Crash, Panic
  <1>3. CASE WorkerStep \/ \E a \in Apps : Dispatch(a)
    BY <1>3, CreateOrUpdateOK, DeleteOK, RecoveryOK DEF WorkerStep
  <1>4. CASE \E w \in Watchers : WatcherStep(w)
    BY <1>4, WatcherOK
  <1>5. CASE \E p \in Procs : AppStackStep(p) \/ CallFails(p) \/ Conflict(p)
    BY <1>5, AppStackOK, CallFailsOK, ConflictOK
  <1> QED BY <1>1, <1>2, <1>3, <1>4, <1>5 DEF Next

-----------------------------------------------------------------------------
(* The Secrets and the bounds.                                             *)

(* UpdateData keeps every key of the old data that the new data lack.      *)
LEMMA MergeRecords ==
  ASSUME NEW old \in Records, NEW new \in Records
  PROVE  /\ Merge(old, new) \in Records
         /\ Merge(old, new).sid  = IF new.sid = None THEN old.sid ELSE new.sid
         /\ Merge(old, new).tmpl = IF new.tmpl = None THEN old.tmpl ELSE new.tmpl
         /\ Merge(old, new).status = IF new.status = None THEN old.status ELSE new.status
  <1>1. DOMAIN old = {"sid", "tmpl", "status", "outs"}
    BY DEF Records
  <1>2. Merge(old, new) =
          [sid |-> IF new.sid = None THEN old.sid ELSE new.sid,
           tmpl |-> IF new.tmpl = None THEN old.tmpl ELSE new.tmpl,
           status |-> IF new.status = None THEN old.status ELSE new.status,
           outs |-> IF new.outs = None THEN old.outs ELSE new.outs]
    BY <1>1 DEF Merge
  <1> QED BY <1>2 DEF Records

(* set writes back a pair it has read, or puts a new one in its place. *)
LEMMA SetWritePairs ==
  ASSUME IInv, Evolves, NEW p \in Procs, SetWrite(p)
  PROVE  /\ rec' \in [Apps -> Records]
         /\ \A a \in Apps : Paired(stack', accepted', a, rec'[a].sid, rec'[a].tmpl)
  <1> DEFINE a == app(p)
             r == proc[p].snap
             new == NewData(p)
  <1>1. /\ Knows(stack', accepted', proc[p]) /\ pc(p) = "setWrite" /\ pc(p) = proc[p].pc
        /\ a = proc[p].app
    <2>1. Knows(stack, accepted, proc[p])
      BY InvFacts
    <2>2. Knows(stack', accepted', proc[p])
      BY <2>1, KnowsStable DEF Evolves
    <2> QED BY <2>2 DEF SetWrite, pc, app
  <1>2. a \in Apps /\ r \in Records /\ proc[p].id \in Ids \cup {None}
    BY <1>1 DEF Knows, Unassigned, Locals
  <1>3. /\ proc[p].task \in {"Record", "Progressing", "Ready", "Failed"}
        /\ proc[p].task = "Record" =>
             /\ proc[p].id # None /\ proc[p].want \in Tmpls
             /\ proc[p].want \in accepted'[proc[p].id]
             /\ stack'[proc[p].id].app = a
        /\ Paired(stack', accepted', a, r.sid, r.tmpl)
    BY <1>1 DEF Knows, TaskMatches
  <1>4. /\ new \in Records
        /\ \/ new.sid = r.sid /\ new.tmpl = r.tmpl
           \/ /\ proc[p].task = "Record"
              /\ new.sid = proc[p].id /\ new.tmpl = proc[p].want
    <2>1. CASE proc[p].task = "Record"
      BY <1>2, <1>3, <2>1 DEF NewData, Records
    <2>2. CASE proc[p].task # "Record"
      BY <1>2, <1>3, <2>2 DEF NewData, Records, RecStatuses
    <2> QED BY <2>1, <2>2
  <1>5. Paired(stack', accepted', a, new.sid, new.tmpl)
    BY <1>2, <1>3, <1>4, DomainAssumption DEF Paired
  <1>6. rec[a] \in Records /\ Paired(stack', accepted', a, rec[a].sid, rec[a].tmpl)
    BY <1>2, InvFacts, RecordsStable
  <1> DEFINE m == Merge(rec[a], new)
  <1>7. rec' = [rec EXCEPT ![a] = m]
    BY DEF SetWrite
  <1> HIDE DEF new
  <1>8. m \in Records /\ Paired(stack', accepted', a, m.sid, m.tmpl)
    <2>1. /\ m \in Records
          /\ m.sid  = IF new.sid = None THEN rec[a].sid ELSE new.sid
          /\ m.tmpl = IF new.tmpl = None THEN rec[a].tmpl ELSE new.tmpl
      BY <1>4, <1>6, MergeRecords
    <2> QED BY <1>5, <1>6, <2>1 DEF Paired
  <1> HIDE DEF m
  <1> QED BY <1>2, <1>7, <1>8, InvFacts, RecordsStable

(* The other writes of a record keep its pair, or drop the record. *)
LEMMA OtherWrites ==
  ASSUME IInv, Evolves, NEW p \in Procs, NameOutputs(p) \/ DropRecord(p)
  PROVE  /\ rec' \in [Apps -> Records]
         /\ \A a \in Apps : Paired(stack', accepted', a, rec'[a].sid, rec'[a].tmpl)
  <1> USE InvFacts
  <1>1. CASE NameOutputs(p)
    <2> DEFINE o == proc[p].snap.outs
               v == [rec[app(p)] EXCEPT !.outs = o]
    <2>1. rec' = rec \/ rec' = [rec EXCEPT ![app(p)] = v]
      BY <1>1 DEF NameOutputs
    <2>2. app(p) \in Apps /\ rec[app(p)] \in Records /\ o \in {"empty", "named", None}
      <3>1. pc(p) \notin Unassigned
        BY <1>1 DEF NameOutputs, Unassigned
      <3>2. proc[p].snap \in Records
        BY DEF Knows, Locals
      <3> QED BY <3>1, <3>2 DEF Records
    <2> HIDE DEF o
    <2>3. v \in Records /\ v.sid = rec[app(p)].sid /\ v.tmpl = rec[app(p)].tmpl
      BY <2>2 DEF Records
    <2> HIDE DEF v
    <2> QED BY <2>1, <2>2, <2>3, RecordsStable
  <1>2. CASE DropRecord(p)
    <2>1. rec' = [rec EXCEPT ![app(p)] = NoRecord]
      BY <1>2 DEF DropRecord
    <2>2. NoRecord \in Records /\ NoRecord.sid = None /\ NoRecord.tmpl = None
      BY DEF NoRecord, Records
    <2>3. \A a \in Apps : Paired(stack', accepted', a, None, None)
      BY DEF Paired
    <2> HIDE DEF NoRecord
    <2> QED BY <2>1, <2>2, <2>3, RecordsStable
  <1> QED BY <1>1, <1>2

(* One more call fails, or its answer is lost; ... *)
Fails == faults < MaxFaults /\ faults' = faults + 1
(* ... or none. *)
Faulted == faults' = faults \/ Fails

(* Only the procedures write Secrets. *)
LEMMA Elsewhere ==
  ASSUME Next, ~ \E p \in Procs : ProcedureStep(p)
  PROVE  UNCHANGED <<rec, infos, outsec>> /\ Faulted
  <1> DEFINE Goal == UNCHANGED <<rec, infos, outsec>> /\ Faulted
  <1> USE DEF appStackVars, SameStore
  <1>1. CASE UserStep \/ RosStep \/ \E a \in Apps : Dispatch(a)
    BY <1>1 DEF UserStep, RosStep, Dispatch, Faulted, Fails
  <1>2. CASE CuStatus \/ CuFailed \/ CuSame \/ CuStack \/ CuFinalizerNotFound
             \/ CuCreateRefused \/ CuUpdateRefused \/ Spawn \/ DelStatus \/ DelWait
             \/ DelStack \/ DelCallRefused \/ DelFinalizer \/ Load
             \/ \E a \in Apps : Recover(a)
    <2>1. SameStore
      BY <1>2 DEF CuStatus, CuFailed, CuSame, CuStack, CuFinalizerNotFound, CuCreateRefused,
         CuUpdateRefused, Spawn, DelStatus, DelWait, DelStack, DelCallRefused,
         DelFinalizer, Load, Recover
    <2> QED BY <2>1 DEF Faulted, Fails
  <1>3. CASE CuFinalizer \/ CuCreate \/ CuUpdate \/ DelCall
             \/ \E a \in Apps : RecoverFails(a)
    BY <1>3 DEF CuFinalizer, CuCreate, CuUpdate, DelCall, RecoverFails, FaultTo, Faulted, Fails
  <1>4. CASE CuError \/ CuRecord \/ CuProgressing \/ DelError \/ DelProgressing \/ DelRecord
    BY <1>4 DEF CuError, CuRecord, CuProgressing, DelError, DelProgressing, DelRecord,
       Begin, Faulted, Fails
  <1>5. ASSUME NEW w \in Watchers, WatcherStep(w)
        PROVE  Goal
    BY <1>5 DEF WatcherStep, Poll, WReady, WFailed, WDrop, WFinalizer, Begin, Faulted, Fails
  <1>6. ASSUME NEW p \in Procs, Condition(p)
        PROVE  Goal
    BY <1>6 DEF Condition, Faulted, Fails
  <1>7. ASSUME NEW p \in Procs, CallFails(p)
        PROVE  Goal
    BY <1>7 DEF CallFails, FaultTo, Faulted, Fails
  <1>8. ASSUME NEW p \in Procs, Conflict(p)
        PROVE  Goal
    BY <1>8 DEF Conflict, Faulted, Fails
  <1>9. CASE Crash \/ \E w \in Watchers : Panic(w)
    BY <1>9 DEF Crash, Panic, Restart, Faulted, Fails
  <1> QED BY <1>1, <1>2, <1>3, <1>4, <1>5, <1>6, <1>7, <1>8, <1>9
          DEF Next, WorkerStep, AppStackStep

(* What they write. *)
LEMMA InProcedures ==
  ASSUME IInv, NEW p \in Procs, ProcedureStep(p)
  PROVE  /\ infos' \subseteq Apps /\ outsec' \subseteq Apps /\ Faulted
         /\ UNCHANGED rec \/ SetWrite(p) \/ NameOutputs(p) \/ DropRecord(p)
  <1> USE InvFacts
  <1>1. pc(p) \notin Unassigned => app(p) \in Apps
    OBVIOUS
  <1>2. CASE SetWrite(p) \/ DropRecord(p)
    BY <1>2 DEF SetWrite, DropRecord, Written, FaultTo, Faulted, Fails
  <1>3. CASE ListAdd(p)
    BY <1>1, <1>3 DEF ListAdd, Written, FaultTo, Faulted, Fails, Unassigned
  <1>4. CASE ListWrite(p)
    <2>1. proc[p].list \subseteq Apps
      BY DEF Knows, Locals
    <2> QED BY <1>4, <2>1 DEF ListWrite, Written, FaultTo, Faulted, Fails
  <1>5. CASE ListRead(p) \/ ProcedureFails(p)
    BY <1>5 DEF ListRead, ProcedureFails, FaultTo, Faulted, Fails
  <1>6. CASE SaveOutputs(p)
    BY <1>1, <1>6 DEF SaveOutputs, Faulted, Fails, Unassigned
  <1>7. CASE NameOutputs(p)
    BY <1>7 DEF NameOutputs, Faulted, Fails
  <1>8. CASE DropOutputs(p)
    BY <1>8 DEF DropOutputs, Written, FaultTo, Faulted, Fails
  <1> QED BY <1>2, <1>3, <1>4, <1>5, <1>6, <1>7, <1>8 DEF ProcedureStep

LEMMA NextStore ==
  ASSUME IInv, Evolves, Next
  PROVE  /\ rec' \in [Apps -> Records] /\ infos' \subseteq Apps /\ outsec' \subseteq Apps
         /\ faults' \in 0..MaxFaults /\ crashes' \in 0..MaxCrashes /\ panics' \in 0..1
         /\ overtaken' \subseteq Procs /\ abandoned' \subseteq Apps
         /\ \A a \in Apps : Paired(stack', accepted', a, rec'[a].sid, rec'[a].tmpl)
  <1>1. ASSUME Faulted PROVE faults' \in 0..MaxFaults
    BY <1>1, FaultAssumption DEF IInv, TypeOK, AppStackTypeOK, Faulted, Fails
  <1>2. /\ crashes' \in 0..MaxCrashes /\ panics' \in 0..1
        /\ overtaken' \subseteq Procs /\ abandoned' \subseteq Apps
    BY CrashAssumption DEF IInv, TypeOK, Next, Alive, Crash, Panic, Restart
  <1>3. CASE \E p \in Procs : ProcedureStep(p)
    <2>1. PICK p \in Procs : ProcedureStep(p)
      BY <1>3
    <2>2. /\ infos' \subseteq Apps /\ outsec' \subseteq Apps /\ Faulted
          /\ UNCHANGED rec \/ SetWrite(p) \/ NameOutputs(p) \/ DropRecord(p)
      BY <2>1, InProcedures
    <2>3. rec' \in [Apps -> Records]
          /\ \A a \in Apps : Paired(stack', accepted', a, rec'[a].sid, rec'[a].tmpl)
      BY <2>2, InvFacts, RecordsStable, SetWritePairs, OtherWrites
    <2> QED BY <2>2, <2>3, <1>1, <1>2
  <1>4. CASE ~ \E p \in Procs : ProcedureStep(p)
    BY <1>4, <1>1, <1>2, Elsewhere, InvFacts, RecordsStable
  <1> QED BY <1>3, <1>4

-----------------------------------------------------------------------------
(* IInv is inductive.                                                      *)

LEMMA InitInv == ASSUME Init PROVE IInv
  <1> USE DomainAssumption, AppConfAssumption, FaultAssumption, CrashAssumption
      DEF Init
  <1>1. ConfTypeOK /\ LiveHaveSpecs
    BY DEF ConfInit, ConfTypeOK, LiveHaveSpecs, Present, NoConf, Confs, Phases
  <1>2. RosTypeOK /\ StacksOwned
    BY DEF RosInit, RosTypeOK, StacksOwned, NoStack, Stacks, Statuses
  <1>3. \A a \in Apps : rec[a] \in Records /\ rec[a].sid = None /\ rec[a].tmpl = None
    BY DEF NoRecord, Records
  <1>4. Booted \in [Procs -> Locals]
    BY AtLocals DEF Booted, PCs
  <1>5. \A p \in Procs : Knows(stack, accepted, proc[p])
    BY AtRestKnows DEF Booted
  <1>6. rec \in [Apps -> Records]
    BY <1>3
  <1>7. AppStackTypeOK
    BY <1>4, <1>6 DEF AppStackTypeOK
  <1> QED BY <1>1, <1>2, <1>3, <1>5, <1>7 DEF IInv, TypeOK, Paired

LEMMA StutterInv == ASSUME IInv, UNCHANGED vars PROVE IInv'
  BY DEF vars, IInv, TypeOK, ConfTypeOK, RosTypeOK, AppStackTypeOK, StacksOwned,
     LiveHaveSpecs, Present

LEMMA NextInv == ASSUME IInv, Next PROVE IInv'
  <1>1. RosTypeOK' /\ StacksOwned' /\ Evolves
    BY InvFacts, NextRos, RosMovesOK
  <1>2. ConfTypeOK' /\ LiveHaveSpecs'
    BY InvFacts, NextConf, ConfMovesOK
  <1>3. ProcsOK'
    BY <1>1, NextProcs
  <1>4. /\ rec' \in [Apps -> Records] /\ infos' \subseteq Apps /\ outsec' \subseteq Apps
        /\ faults' \in 0..MaxFaults /\ crashes' \in 0..MaxCrashes /\ panics' \in 0..1
        /\ overtaken' \subseteq Procs /\ abandoned' \subseteq Apps
        /\ \A a \in Apps : Paired(stack', accepted', a, rec'[a].sid, rec'[a].tmpl)
    BY <1>1, NextStore
  <1> QED BY <1>1, <1>2, <1>3, <1>4 DEF IInv, TypeOK, AppStackTypeOK, ProcsOK

LEMMA Invariance == Spec => []IInv
  <1>1. IInv /\ [Next]_vars => IInv'
    BY NextInv, StutterInv
  <1> QED BY <1>1, InitInv, PTL DEF Spec

(* The variables keep their types, and the bounds of the model their       *)
(* ranges, for every choice of the constants.                              *)
THEOREM TypeCorrect == Spec => []TypeOK
  <1>1. IInv => TypeOK
    BY DEF IInv
  <1> QED BY <1>1, Invariance, PTL

(* A record names a stack of its own application, and a template ROS has   *)
(* accepted for that very stack, in spite of AppStack.set writing back     *)
(* stale data (appstack.go:532-544), of crashes and of lost answers.       *)
THEOREM TemplatesAccepted == Spec => []TemplateAccepted
  <1>1. IInv => TemplateAccepted
    BY DEF IInv, Paired, TemplateAccepted
  <1> QED BY <1>1, Invariance, PTL

-----------------------------------------------------------------------------
(* The steps of RosController as the goroutines' control flow: for every   *)
(* step, which goroutine goes from where to where, what it takes along,    *)
(* and what else changes.  The invariants of DeletionProofs, CalmProofs    *)
(* and LifeCycleProofs are shown from these relations, without the         *)
(* actions' local bookkeeping.                                             *)

(* A goroutine with local state l becomes m, in the same matter ... *)
Same(l, m) ==
  m.app = l.app /\ m.id = l.id /\ m.want = l.want /\ m.inDelete = l.inDelete

(* ... at the place next, ... *)
Reaches(l, m, next) == m.pc = next /\ Same(l, m)

(* ... within a procedure, ... *)
Inside(l, m, next) ==
  Reaches(l, m, next) /\ m.task = l.task /\ m.ok = l.ok /\ m.fail = l.fail

(* ... or at a place to return to, which may be the end. *)
Goes(l, m, next) ==
  IF next \in {"idle", "requeue"} THEN m.pc = "idle" ELSE Reaches(l, m, next)

(* It starts a procedure, which is to return to ok or to fail. *)
Enters(l, m, task, ok, fail) ==
  /\ Same(l, m) /\ m.task = task /\ m.ok = ok /\ m.fail = fail
  /\ m.snap = rec[l.app]
  /\ IF task = "Delete" THEN m.pc \in {"dropOutputs", "dropRecord"}
                        ELSE m.pc = "setWrite"

InSuccession == {<<"cuFailed", "cuSame">>, <<"cuFailed", "cuStack">>,
  <<"cuSame", "cuStack">>, <<"cuCreate", "cuError">>, <<"cuUpdate", "cuError">>,
  <<"delStatus", "delWait">>, <<"delCall", "delError">>}

-----------------------------------------------------------------------------
(* The objects keep their states and finalizers. *)
KeepsObjects == \A a \in Apps : conf'[a].state = conf[a].state /\ conf'[a].fin = conf[a].fin

(* The worker goes on in a handler. *)
HandlerFlow(l, m) ==
  \/ /\ m.pc = "idle" /\ l.pc \in {"idle", "cuStatus", "cuSame", "cuFinalizer",
                                   "cuUpdate", "load"}
     /\ l.pc = "load" => infos = {} \/ \E a \in infos : ~Present(a)
  \/ /\ l.pc = "idle" /\ m.app \in Apps /\ m.id = None
     /\ \/ m.pc = "cuStatus" /\ conf[m.app].state = "live"
        \/ m.pc = "delStatus" /\ conf[m.app].state = "deleting"
  \/ /\ l.pc = "cuStatus" /\ rec[l.app].status # "Progressing"
     /\ \E next \in {"cuSame", "cuFailed", "cuError"} : Reaches(l, m, next)
  \/ Reaches(l, m, m.pc) /\ <<l.pc, m.pc>> \in InSuccession
  \/ /\ l.pc = "cuStack" /\ m.pc = "cuFinalizer"
     /\ m.app = l.app /\ m.want = l.want /\ m.id = rec[l.app].sid
  \/ l.pc = "cuUpdate" /\ ~Exists(l.id) /\ Reaches(l, m, "cuCreate")
  \/ /\ l.pc \in {"delStatus", "delWait"} /\ Reaches(l, m, "delStack")
     /\ rec[l.app].status # "Progressing"
  \/ /\ l.pc = "delStack" /\ m.app = l.app /\ m.id = rec[l.app].sid
     /\ m.pc = IF m.id = None THEN "delFinalizer" ELSE "delCall"
  \/ l.pc = "delCall" /\ ~Exists(l.id) /\ Reaches(l, m, "delRecord")
  \/ l.pc \in {"cuError", "delError"} /\ Enters(l, m, "Failed", "idle", "requeue")
  \/ l.pc = "cuRecord" /\ Enters(l, m, "Record", "cuProgressing", "requeue")
  \/ l.pc = "cuProgressing" /\ Enters(l, m, "Progressing", "spawn", "spawnRequeue")
  \/ l.pc = "delProgressing" /\ Enters(l, m, "Progressing", "spawn", "requeue")
  \/ l.pc = "delRecord" /\ Enters(l, m, "Delete", "delFinalizer", "requeue")
  \/ l.pc = "load" /\ m.pc = "recover" /\ m.list = infos /\ infos # {}
  \/ /\ l.pc = "recover" /\ m.pc \in {"recover", "idle"} /\ Fails
     /\ m.list \subseteq l.list

(* The worker changes an object. *)
FinalizerFlow(l, m) ==
  \/ /\ l.pc = "cuFinalizer" /\ AddCleanUpFinalizer(l.app)
     /\ \/ Reaches(l, m, IF l.id = None THEN "cuCreate" ELSE "cuUpdate")
        \/ m.pc = "idle" /\ Fails
  \/ l.pc \in {"delFinalizer", "wFinalizer"} /\ m.pc = "idle" /\ RemoveCleanUpFinalizer(l.app)

(* The worker sends a request to ROS. *)
RequestFlow(l, m) ==
  \/ /\ l.pc = "cuCreate"
     /\ \E i \in Ids :
          /\ StackCreated(l.app, l.want, i)
          /\ \/ /\ m.pc = "cuRecord" /\ m.app = l.app /\ m.want = l.want
                /\ m.id = i
             \/ Fails /\ Reaches(l, m, "cuError")
  \/ /\ l.pc = "cuUpdate" /\ StackUpdated(l.id, l.want)
     /\ \/ Reaches(l, m, "cuRecord")
        \/ Fails /\ Reaches(l, m, "cuError")
  \/ /\ l.pc = "delCall" /\ StackDeleted(l.id)
     /\ \/ Reaches(l, m, "delProgressing")
        \/ Fails /\ Reaches(l, m, "delError")

(* A watcher goes on in waitStackDoneAndSaveOutputs. *)
WatcherFlow(l, m) ==
  \/ /\ l.pc = "wait" /\ l.id # None /\ m.app = l.app /\ m.id = l.id
     /\ m.inDelete = (stack[l.id].status \in InDelete)
     /\ m.pc = CASE stack[l.id].status \in Deployed     -> "saveOutputs"
                 [] stack[l.id].status \in Unsuccessful -> "failed"
                 [] OTHER                               -> "drop"
     /\ stack[l.id].status \in Settled
  \/ l.pc = "ready" /\ Enters(l, m, "Ready", "idle", "idle")
  \/ /\ l.pc = "failed"
     /\ LET next == IF l.inDelete THEN "drop" ELSE "idle" IN
        Enters(l, m, "Failed", next, next)
  \/ l.pc = "drop" /\ Enters(l, m, "Delete", "wFinalizer", "wFinalizer")

(* A goroutine goes on in a procedure, without writing the record. *)
ProcedureFlow(l, m) ==
  \/ l.pc \in {"listAdd", "listWrite"} /\ Inside(l, m, "condition") /\ l.task # "Delete"
  \/ l.pc \in {"listAdd", "listWrite", "condition"} /\ Goes(l, m, l.ok)
  \/ l.pc = "listRead" /\ Inside(l, m, "listWrite") /\ m.list = infos
  \/ l.pc = "saveOutputs" /\ Reaches(l, m, "nameOutputs")
  \/ l.pc = "dropOutputs" /\ Inside(l, m, "dropRecord")

(* A call fails. *)
FailureFlow(l, m) ==
  /\ Fails
  /\ \/ m.pc = "idle" /\ l.pc \notin InProcedure
     \/ l.pc \in InProcedure /\ Goes(l, m, l.fail)
     \/ /\ l.pc = "cuStatus" /\ rec[l.app].status # "Progressing"
        /\ Reaches(l, m, "cuError")
     \/ l.pc \in {"cuCreate", "cuUpdate"} /\ Reaches(l, m, "cuError")
     \/ l.pc = "cuProgressing" /\ Reaches(l, m, "spawnRequeue")
     \/ l.pc = "delCall" /\ Reaches(l, m, "delError")
     \/ l.pc = "delWait" /\ Reaches(l, m, "delStack")
     \/ l.pc = "failed" /\ l.inDelete /\ Reaches(l, m, "drop")
     \/ l.pc = "drop" /\ Reaches(l, m, "wFinalizer")

(* An update meets a conflict. *)
ConflictFlow(l, m) ==
  \/ l.pc \in {"setWrite", "listAdd", "condition"} /\ Goes(l, m, l.fail)
  \/ l.pc \in {"cuFinalizer", "delFinalizer", "wFinalizer"} /\ m.pc = "idle"
  \/ l.pc = "nameOutputs" /\ Reaches(l, m, "ready")

(* A goroutine writes the record of its application. *)
WriteFlow(l, m) ==
  \/ /\ l.pc = "setWrite"
     /\ LET read == l.snap IN
        rec' = [rec EXCEPT ![l.app] = Merge(@,
          IF l.task = "Record" THEN [read EXCEPT !.sid = l.id, !.tmpl = l.want]
                               ELSE [read EXCEPT !.status = l.task])]
     /\ \/ l.task = "Record" /\ Goes(l, m, l.ok)
        \/ l.task = "Progressing" /\ Inside(l, m, "listAdd")
        \/ l.task \in {"Ready", "Failed"} /\ Inside(l, m, "listRead")
        \/ Fails /\ Goes(l, m, l.fail)
  \/ /\ l.pc = "nameOutputs" /\ Reaches(l, m, "ready")
     /\ rec' \in {rec, [rec EXCEPT ![l.app].outs = l.snap.outs]}
  \/ /\ l.pc = "dropRecord"
     /\ rec' = [rec EXCEPT ![l.app] = NoRecord]
     /\ \/ Inside(l, m, "listRead")
        \/ Fails /\ Goes(l, m, l.fail)
-----------------------------------------------------------------------------
(* One goroutine takes a step. *)
Flow(p, l, m) ==
  \/ /\ rec' = rec /\ SameRos
     /\ \/ KeepsObjects /\ HandlerFlow(l, m) /\ p = Worker
        \/ FinalizerFlow(l, m) /\ (l.pc = "wFinalizer" <=> p # Worker)
        \/ KeepsObjects /\ WatcherFlow(l, m) /\ p # Worker
        \/ KeepsObjects /\ FailureFlow(l, m)
        \/ KeepsObjects /\ ProcedureFlow(l, m)
        \/ KeepsObjects /\ ConflictFlow(l, m) /\ p \in overtaken
  \/ rec' = rec /\ KeepsObjects /\ RequestFlow(l, m) /\ p = Worker
  \/ KeepsObjects /\ SameRos /\ WriteFlow(l, m)

Flows == \E p \in Procs : \E m \in {proc'[p]} :
           m \in Locals /\ proc' = [proc EXCEPT ![p] = m] /\ Flow(p, proc[p], m)

(* A watcher starts, at the end of a handler or in the recovery. *)
WatcherStarts(w, m) ==
  /\ pc(w) = "idle" /\ w \in Watchers /\ m \in Locals
  /\ \E l \in {proc'[w]} : /\ l \in Locals
                       /\ proc' = [proc EXCEPT ![w] = l, ![Worker] = m]
                       /\ l.pc = "wait" /\ l.app \in Apps
                       /\ \/ /\ pc(Worker) \in {"spawn", "spawnRequeue"} /\ m.pc = "idle"
                             /\ l.app = app(Worker) /\ l.id = proc[Worker].id
                          \/ /\ pc(Worker) = "recover" /\ m.pc \in {"recover", "idle"}
                             /\ l.id = rec[l.app].sid /\ l.app \in proc[Worker].list
                             /\ IF m.pc = "recover"
                                THEN m.list = proc[Worker].list \ {l.app}
                                ELSE proc[Worker].list = {l.app}

StartFlow ==
  /\ \E w \in Watchers : \E m \in {proc'[Worker]} : WatcherStarts(w, m)
  /\ rec' = rec /\ KeepsObjects /\ SameRos

(* Nobody of the process takes a step. *)
OutsideFlow ==
  /\ proc' = proc /\ rec' = rec
  /\ UserStep \/ (RosStep /\ KeepsObjects)

(* The process ends. *)
Ends ==
  /\ proc' = Booted /\ rec' = rec /\ KeepsObjects /\ SameRos
  /\ crashes < MaxCrashes \/ \E w \in Watchers : pc(w) = "wait" /\ proc[w].id = None

AllFlows == Flows \/ StartFlow \/ OutsideFlow \/ Ends

-----------------------------------------------------------------------------
(* How a goroutine comes to its next local state.                          *)

LEMMA Moved ==
  ASSUME IInv, NEW p \in Procs, NEW m \in Locals, Becomes(p, m), Flow(p, proc[p], m)
  PROVE  AllFlows
  <1>1. proc \in [Procs -> Locals]
    BY DEF IInv, TypeOK, AppStackTypeOK
  <1>2. proc' = [proc EXCEPT ![p] = m] /\ proc'[p] = m
    BY <1>1 DEF Becomes
  <1>3. Flows
    BY <1>2 DEF Flows
  <1> QED BY <1>3 DEF AllFlows

(* A return forgets the procedure, or everything. *)
LEMMA UnwoundGoes ==
  ASSUME IInv, NEW p \in Procs, NEW l \in PCs
  PROVE  Unwound(p, l) \in Locals /\ Goes(proc[p], Unwound(p, l), l)
  <1>1. proc[p] \in Locals
    BY DEF IInv, TypeOK, AppStackTypeOK
  <1>2. CASE l \in {"idle", "requeue"}
    <2>1. At("idle") \in Locals /\ At("idle").pc = "idle"
      BY AtLocals DEF PCs
    <2> QED BY <1>2, <2>1 DEF Unwound, Goes
  <1>3. CASE l \notin {"idle", "requeue"}
    <2> DEFINE u == [proc[p] EXCEPT !.pc = l, !.snap = NoRecord, !.list = {},
                       !.task = "none", !.ok = "idle", !.fail = "idle"]
    <2>1. Unwound(p, l) = u
      BY <1>3 DEF Unwound
    <2>2. NoRecord \in Records /\ "none" \in Tasks /\ "idle" \in PCs
      BY DEF NoRecord, Records, Tasks, PCs
    <2>3. /\ u \in Locals /\ u.pc = l /\ u.app = proc[p].app /\ u.id = proc[p].id
          /\ u.want = proc[p].want /\ u.inDelete = proc[p].inDelete
      BY <1>1, <2>2 DEF Locals
    <2> HIDE DEF u
    <2> QED BY <1>3, <2>1, <2>3 DEF Goes, Reaches, Same
  <1> QED BY <1>2, <1>3

LEMMA Returned ==
  ASSUME IInv, NEW p \in Procs, NEW l \in PCs,
         ReturnTo(p, l) \/ FaultTo(p, l) \/ Becomes(p, Unwound(p, l))
  PROVE  \E m \in Locals : Becomes(p, m) /\ Goes(proc[p], m, l)
  <1>1. Becomes(p, Unwound(p, l))
    BY DEF ReturnTo, FaultTo
  <1> QED BY <1>1, UnwoundGoes

(* The first call of a procedure. *)
LEMMA Begun ==
  ASSUME IInv, NEW p \in Procs, pc(p) \notin Unassigned, NEW task \in Tasks,
         NEW ok \in PCs, NEW fail \in PCs, Begin(p, task, ok, fail)
  PROVE  /\ rec' = rec
         /\ \E m \in Locals : Becomes(p, m) /\ Enters(proc[p], m, task, ok, fail)
  <1>1. proc[p] \in Locals /\ app(p) \in Apps /\ rec[app(p)] \in Records /\ app(p) = proc[p].app
    BY InvFacts DEF IInv, TypeOK, AppStackTypeOK, app
  <1> DEFINE next == IF task # "Delete" THEN "setWrite"
                     ELSE IF rec[app(p)].outs = "named" THEN "dropOutputs"
                     ELSE "dropRecord"
             m == [proc[p] EXCEPT !.pc = next, !.task = task, !.ok = ok,
                                  !.fail = fail, !.snap = rec[app(p)]]
  <1>2. Becomes(p, m) /\ rec' = rec
    BY DEF Begin
  <1>3. /\ IF task = "Delete" THEN next \in {"dropOutputs", "dropRecord"}
                              ELSE next = "setWrite"
        /\ next \in PCs
    BY DEF PCs
  <1> HIDE DEF next
  <1>4. /\ m \in Locals /\ m.pc = next /\ m.app = proc[p].app /\ m.id = proc[p].id
        /\ m.want = proc[p].want /\ m.inDelete = proc[p].inDelete
        /\ m.task = task /\ m.ok = ok /\ m.fail = fail /\ m.snap = rec[app(p)]
    BY <1>1, <1>3 DEF Locals
  <1> HIDE DEF m
  <1>5. Enters(proc[p], m, task, ok, fail)
    BY <1>1, <1>3, <1>4 DEF Enters, Same
  <1> QED BY <1>2, <1>4, <1>5

(* On to the next call of a procedure. *)
LEMMA WentOn ==
  ASSUME IInv, NEW p \in Procs, NEW l \in PCs, Goto(p, l)
  PROVE  \E m \in Locals : Becomes(p, m) /\ Inside(proc[p], m, l)
  <1> DEFINE m == [proc[p] EXCEPT !.pc = l]
  <1>1. proc[p] \in Locals /\ Becomes(p, m)
    BY DEF IInv, TypeOK, AppStackTypeOK, Goto
  <1>2. /\ m \in Locals /\ m.pc = l /\ m.app = proc[p].app /\ m.id = proc[p].id
        /\ m.want = proc[p].want /\ m.inDelete = proc[p].inDelete
        /\ m.task = proc[p].task /\ m.ok = proc[p].ok /\ m.fail = proc[p].fail
    BY <1>1 DEF Locals
  <1> HIDE DEF m
  <1> QED BY <1>1, <1>2 DEF Inside, Reaches, Same

-----------------------------------------------------------------------------
(* Each group of actions takes steps of one flow.                          *)

LEMMA WorkerMoves ==
  ASSUME IInv, NEW m \in Locals, Becomes(Worker, m), rec' = rec, SameConf,
         \/ SameRos /\ HandlerFlow(proc[Worker], m)
         \/ RequestFlow(proc[Worker], m)
  PROVE  AllFlows
  <1>1. KeepsObjects /\ Worker \in Procs
    BY DEF SameConf, KeepsObjects, Procs
  <1>2. Flow(Worker, proc[Worker], m)
    BY <1>1 DEF Flow
  <1> QED BY <1>1, <1>2, Moved

(* The handler of a created or changed object, but for its requests. *)
LEMMA CreateOrUpdateFlows ==
  ASSUME IInv,
         \/ CuStatus \/ CuFailed \/ CuSame \/ CuStack \/ CuFinalizerNotFound
         \/ CuCreateRefused \/ CuUpdateRefused \/ CuError \/ CuRecord \/ CuProgressing
  PROVE  AllFlows
  <1> USE DEF W
  <1> DEFINE l == proc[Worker]
  <1>0. /\ l \in Locals /\ Worker \in Procs /\ pc(Worker) = l.pc /\ app(Worker) = l.app
        /\ rec \in [Apps -> Records]
    BY InvFacts DEF ProcsOK, pc, app
  <1>1. ASSUME NEW next \in PCs, ReturnTo(Worker, next), SameStore, SameConf, SameRos,
               \A m : Goes(l, m, next) => HandlerFlow(l, m)
        PROVE  AllFlows
    <2>1. PICK m \in Locals : Becomes(Worker, m) /\ Goes(l, m, next)
      BY <1>0, <1>1, Returned
    <2> QED BY <1>1, <2>1, WorkerMoves DEF SameStore
  <1>2. ASSUME NEW task \in Tasks, NEW ok \in PCs, NEW fail \in PCs,
               Begin(Worker, task, ok, fail), l.pc \notin Unassigned, SameConf, SameRos,
               \A m : Enters(l, m, task, ok, fail) => HandlerFlow(l, m)
        PROVE  AllFlows
    <2>1. PICK m \in Locals : Becomes(Worker, m) /\ Enters(l, m, task, ok, fail)
      BY <1>0, <1>2, Begun
    <2> QED BY <1>0, <1>2, <2>1, Begun, WorkerMoves
  <1> HIDE DEF l
  <1>3. CASE CuStatus
    <2>1. l.pc = "cuStatus" /\ SameStore /\ SameConf /\ SameRos
      BY <1>0, <1>3 DEF CuStatus
    <2>2. PICK next \in {"idle", "cuError", "cuSame", "cuFailed"} :
            ReturnTo(Worker, next) /\ (next # "idle" => rec[l.app].status # "Progressing")
      BY <1>0, <1>3 DEF CuStatus
    <2>3. next \in PCs
      BY DEF PCs
    <2>4. \A m : Goes(l, m, next) => HandlerFlow(l, m)
      BY <2>1, <2>2 DEF Goes, HandlerFlow
    <2> QED BY <1>1, <2>1, <2>2, <2>3, <2>4
  <1>4. CASE CuFailed \/ CuSame \/ CuCreateRefused \/ CuFinalizerNotFound
    <2>1. SameStore /\ SameConf /\ SameRos
      BY <1>4 DEF CuFailed, CuSame, CuCreateRefused, CuFinalizerNotFound
    <2>2. PICK next \in {"idle", "requeue", "cuError", "cuSame", "cuStack"} :
            /\ ReturnTo(Worker, next)
            /\ \/ next \in {"idle", "requeue"} /\ l.pc \in {"cuSame", "cuFinalizer"}
               \/ <<l.pc, next>> \in InSuccession
      BY <1>0, <1>4 DEF CuFailed, CuSame, CuCreateRefused, CuFinalizerNotFound, InSuccession
    <2>3. next \in PCs
      BY DEF PCs
    <2>4. \A m : Goes(l, m, next) => HandlerFlow(l, m)
      <3>1. CASE next \in {"idle", "requeue"} /\ l.pc \in {"cuSame", "cuFinalizer"}
        BY <3>1 DEF Goes, HandlerFlow
      <3>2. CASE <<l.pc, next>> \in InSuccession
        <4>1. next \notin {"idle", "requeue"}
          BY <3>2 DEF InSuccession
        <4> QED BY <3>2, <4>1 DEF Goes, Reaches, HandlerFlow
      <3> QED BY <2>2, <3>1, <3>2
    <2> QED BY <1>1, <2>1, <2>2, <2>3, <2>4
  <1>5. CASE CuUpdateRefused
    <2>1. SameStore /\ SameConf /\ SameRos /\ l.pc = "cuUpdate"
      BY <1>0, <1>5 DEF CuUpdateRefused
    <2>2. PICK next \in {"idle", "cuCreate", "cuError"} :
            ReturnTo(Worker, next) /\ (next = "cuCreate" => ~Exists(l.id))
      BY <1>5 DEF CuUpdateRefused, IsStackNotFound, l
    <2>3. next \in PCs
      BY DEF PCs
    <2>4. \A m : Goes(l, m, next) => HandlerFlow(l, m)
      BY <2>1, <2>2 DEF Goes, Reaches, HandlerFlow, InSuccession
    <2> QED BY <1>1, <2>1, <2>2, <2>3, <2>4
  <1>6. CASE CuStack
    <2> DEFINE m == [proc[Worker] EXCEPT !.id = rec[app(Worker)].sid, !.pc = "cuFinalizer"]
    <2>1. SameStore /\ SameConf /\ SameRos /\ l.pc = "cuStack" /\ Becomes(Worker, m)
      BY <1>0, <1>6 DEF CuStack, GetStack
    <2>2. app(Worker) \in Apps
      BY <1>0, <2>1, InvFacts DEF Unassigned
    <2>3. rec[app(Worker)].sid \in Ids \cup {None} /\ "cuFinalizer" \in PCs
      BY <1>0, <2>2 DEF Records, PCs
    <2>4. /\ m \in Locals /\ m.pc = "cuFinalizer" /\ m.app = l.app /\ m.want = l.want
          /\ m.id = rec[l.app].sid
      BY <1>0, <2>3 DEF Locals, l
    <2> HIDE DEF m
    <2>5. HandlerFlow(l, m)
      BY <2>1, <2>4 DEF HandlerFlow
    <2> QED BY <2>1, <2>4, <2>5, WorkerMoves DEF l, SameStore
  <1>7. CASE CuError \/ CuRecord \/ CuProgressing
    <2>1. SameConf /\ SameRos /\ l.pc \in {"cuError", "cuRecord", "cuProgressing"}
      BY <1>0, <1>7 DEF CuError, CuRecord, CuProgressing
    <2>2. PICK task \in {"Failed", "Record", "Progressing"},
               ok \in {"idle", "cuProgressing", "spawn"},
               fail \in {"requeue", "spawnRequeue"} :
            /\ Begin(Worker, task, ok, fail)
            /\ \A m : Enters(l, m, task, ok, fail) => HandlerFlow(l, m)
      BY <1>0, <1>7 DEF CuError, CuRecord, CuProgressing, HandlerFlow
    <2>3. task \in Tasks /\ ok \in PCs /\ fail \in PCs /\ l.pc \notin Unassigned
      BY <2>1 DEF Tasks, PCs, Unassigned
    <2> QED BY <1>2, <2>1, <2>2, <2>3
  <1> QED BY <1>3, <1>4, <1>5, <1>6, <1>7

(* The handler of a deleted object, but for its request and its finalizer. *)
LEMMA DeleteFlows ==
  ASSUME IInv,
         \/ DelStatus \/ DelWait \/ DelStack \/ DelCallRefused
         \/ DelError \/ DelProgressing \/ DelRecord
  PROVE  AllFlows
  <1> USE DEF W
  <1> DEFINE l == proc[Worker]
  <1>0. /\ l \in Locals /\ Worker \in Procs /\ pc(Worker) = l.pc /\ app(Worker) = l.app
        /\ rec \in [Apps -> Records]
    BY InvFacts DEF ProcsOK, pc, app
  <1> HIDE DEF l
  <1>1. CASE DelStatus \/ DelWait \/ DelCallRefused
    <2>1. SameStore /\ SameConf /\ SameRos
      BY <1>1 DEF DelStatus, DelWait, DelCallRefused
    <2>2. PICK next \in {"delWait", "delStack", "delRecord", "delError"} :
            /\ ReturnTo(Worker, next)
            /\ \/ <<l.pc, next>> \in InSuccession
               \/ /\ l.pc \in {"delStatus", "delWait"} /\ next = "delStack"
                  /\ rec[l.app].status # "Progressing"
               \/ l.pc = "delCall" /\ ~Exists(l.id) /\ next = "delRecord"
      <3>1. CASE DelStatus \/ DelWait
        BY <1>0, <3>1 DEF DelStatus, DelWait, InSuccession
      <3>2. CASE DelCallRefused
        BY <1>0, <3>2 DEF DelCallRefused, IsStackNotFound, InSuccession, l
      <3> QED BY <1>1, <3>1, <3>2
    <2>3. next \in PCs
      BY DEF PCs
    <2>4. PICK m \in Locals : Becomes(Worker, m) /\ Goes(l, m, next)
      BY <1>0, <2>2, <2>3, Returned DEF l
    <2>5. Reaches(l, m, next) /\ m.pc = next
      BY <2>4 DEF Goes, Reaches
    <2>6. HandlerFlow(l, m)
      BY <2>2, <2>5 DEF HandlerFlow
    <2> QED BY <2>1, <2>4, <2>6, WorkerMoves DEF l, SameStore
  <1>2. CASE DelStack
    <2> DEFINE next == IF rec[app(Worker)].sid = None THEN "delFinalizer" ELSE "delCall"
               m == [proc[Worker] EXCEPT !.id = rec[app(Worker)].sid, !.pc = next]
    <2>1. SameStore /\ SameConf /\ SameRos /\ l.pc = "delStack" /\ Becomes(Worker, m)
      BY <1>0, <1>2 DEF DelStack, GetStack
    <2>2. app(Worker) \in Apps
      BY <1>0, <2>1, InvFacts DEF Unassigned
    <2>3. rec[app(Worker)].sid \in Ids \cup {None} /\ next \in PCs
      BY <1>0, <2>2 DEF Records, PCs
    <2>4. /\ m \in Locals /\ m.pc = next /\ m.app = l.app /\ m.id = rec[l.app].sid
      BY <1>0, <2>3 DEF Locals, l
    <2>5. m.pc = IF m.id = None THEN "delFinalizer" ELSE "delCall"
      BY <1>0, <2>4
    <2> HIDE DEF m, next
    <2>6. HandlerFlow(l, m)
      BY <2>1, <2>4, <2>5 DEF HandlerFlow
    <2> QED BY <2>1, <2>4, <2>6, WorkerMoves DEF l, SameStore
  <1>3. CASE DelError \/ DelProgressing \/ DelRecord
    <2>1. SameConf /\ SameRos /\ l.pc \in {"delError", "delProgressing", "delRecord"}
      BY <1>0, <1>3 DEF DelError, DelProgressing, DelRecord
    <2>2. PICK task \in {"Failed", "Progressing", "Delete"},
               ok \in {"idle", "spawn", "delFinalizer"} :
            /\ Begin(Worker, task, ok, "requeue")
            /\ \A m : Enters(l, m, task, ok, "requeue") => HandlerFlow(l, m)
      BY <1>0, <1>3 DEF DelError, DelProgressing, DelRecord, HandlerFlow
    <2>3. task \in Tasks /\ ok \in PCs /\ "requeue" \in PCs /\ pc(Worker) \notin Unassigned
      BY <1>0, <2>1 DEF Tasks, PCs, Unassigned
    <2>4. /\ rec' = rec
          /\ \E m \in Locals : Becomes(Worker, m) /\ Enters(l, m, task, ok, "requeue")
      BY <1>0, <2>2, <2>3, Begun DEF l
    <2> QED BY <2>1, <2>2, <2>4, WorkerMoves DEF l
  <1> QED BY <1>1, <1>2, <1>3

(* The requests to ROS. *)
LEMMA RequestFlows ==
  ASSUME IInv, CuCreate \/ CuUpdate \/ DelCall
  PROVE  AllFlows
  <1> USE DEF W
  <1> DEFINE l == proc[Worker]
  <1>0. /\ l \in Locals /\ Worker \in Procs /\ pc(Worker) = l.pc /\ app(Worker) = l.app
        /\ {"cuRecord", "cuError", "delProgressing", "delError"} \subseteq PCs
    BY InvFacts DEF ProcsOK, pc, app, PCs
  <1>1. SameConf /\ rec' = rec
    BY DEF CuCreate, CuUpdate, DelCall, appStackVars
  <1>2. ASSUME NEW next \in {"cuRecord", "cuError", "delProgressing", "delError"},
               ReturnTo(Worker, next) \/ FaultTo(Worker, next)
        PROVE  /\ \E m \in Locals : Becomes(Worker, m) /\ Reaches(l, m, next)
               /\ FaultTo(Worker, next) => Fails
    BY <1>0, <1>2, Returned DEF Goes, FaultTo, Fails
  <1> HIDE DEF l
  <1>3. CASE CuCreate
    <2>1. PICK i \in Ids :
            /\ StackCreated(l.app, l.want, i)
            /\ \/ Becomes(Worker, [proc[Worker] EXCEPT !.id = i, !.pc = "cuRecord"])
               \/ FaultTo(Worker, "cuError")
      BY <1>0, <1>3 DEF CuCreate, l
    <2>2. l.pc = "cuCreate"
      BY <1>0, <1>3 DEF CuCreate
    <2>3. CASE FaultTo(Worker, "cuError")
      <3>1. /\ \E m \in Locals : Becomes(Worker, m) /\ Reaches(l, m, "cuError")
            /\ Fails
        BY <1>2, <2>3
      <3>2. \A m : Reaches(l, m, "cuError") => RequestFlow(l, m)
        BY <2>1, <2>2, <3>1 DEF RequestFlow
      <3> QED BY <1>1, <3>1, <3>2, WorkerMoves DEF l
    <2>4. CASE Becomes(Worker, [proc[Worker] EXCEPT !.id = i, !.pc = "cuRecord"])
      <3> DEFINE m == [proc[Worker] EXCEPT !.id = i, !.pc = "cuRecord"]
      <3>1. Becomes(Worker, m)
        BY <2>4
      <3>2. /\ m \in Locals /\ m.pc = "cuRecord" /\ m.app = l.app /\ m.want = l.want
            /\ m.id = i
        BY <1>0 DEF Locals, l
      <3> HIDE DEF m
      <3>3. RequestFlow(l, m)
        BY <2>1, <2>2, <3>2 DEF RequestFlow
      <3> QED BY <1>1, <3>1, <3>2, <3>3, WorkerMoves DEF l
    <2> QED BY <2>1, <2>3, <2>4
  <1>4. CASE CuUpdate
    <2>1. /\ l.pc = "cuUpdate" /\ StackUpdated(l.id, l.want)
          /\ ReturnTo(Worker, "cuRecord") \/ FaultTo(Worker, "cuError")
      BY <1>0, <1>4 DEF CuUpdate, l
    <2>2. PICK next \in {"cuRecord", "cuError"} :
            /\ ReturnTo(Worker, next) \/ FaultTo(Worker, next)
            /\ \A m : Reaches(l, m, next) => RequestFlow(l, m)
      BY <1>2, <2>1 DEF RequestFlow
    <2>3. \E m \in Locals : Becomes(Worker, m) /\ Reaches(l, m, next)
      BY <1>2, <2>2
    <2> QED BY <1>1, <2>2, <2>3, WorkerMoves DEF l
  <1>5. CASE DelCall
    <2>1. /\ l.pc = "delCall" /\ StackDeleted(l.id)
          /\ ReturnTo(Worker, "delProgressing") \/ FaultTo(Worker, "delError")
      BY <1>0, <1>5 DEF DelCall, l
    <2>2. PICK next \in {"delProgressing", "delError"} :
            /\ ReturnTo(Worker, next) \/ FaultTo(Worker, next)
            /\ \A m : Reaches(l, m, next) => RequestFlow(l, m)
      BY <1>2, <2>1 DEF RequestFlow
    <2>3. \E m \in Locals : Becomes(Worker, m) /\ Reaches(l, m, next)
      BY <1>2, <2>2
    <2> QED BY <1>1, <2>2, <2>3, WorkerMoves DEF l
  <1> QED BY <1>3, <1>4, <1>5

(* The finalizer is added by the worker, and removed by either. *)
LEMMA FinalizerFlows ==
  ASSUME IInv, CuFinalizer \/ DelFinalizer \/ \E w \in Watchers : WFinalizer(w)
  PROVE  AllFlows
  <1> USE DEF W
  <1>0. /\ Worker \in Procs /\ Watchers \subseteq Procs /\ Worker \notin Watchers
        /\ At("idle") \in Locals /\ At("idle").pc = "idle" /\ At("idle").app = None
    BY DomainAssumption, AtLocals DEF Procs, PCs, At
  <1>1. ASSUME NEW p \in Procs, NEW m \in Locals, Becomes(p, m), rec' = rec, SameRos,
               FinalizerFlow(proc[p], m), proc[p].pc = "wFinalizer" <=> p # Worker
        PROVE  AllFlows
    <2>1. Flow(p, proc[p], m)
      BY <1>1 DEF Flow
    <2> QED BY <1>1, <2>1, Moved
  <1>2. CASE CuFinalizer
    <2> DEFINE l == proc[Worker]
               next == IF l.id = None THEN "cuCreate" ELSE "cuUpdate"
    <2>1. /\ l.pc = "cuFinalizer" /\ AddCleanUpFinalizer(l.app) /\ rec' = rec /\ SameRos
          /\ \/ Becomes(Worker, Unwound(Worker, next))
             \/ Fails /\ Becomes(Worker, At("idle"))
      BY <1>2 DEF CuFinalizer, pc, app, appStackVars, Fails
    <2>2. next \in PCs /\ next \notin {"idle", "requeue"}
      BY DEF PCs
    <2> HIDE DEF next
    <2>3. CASE Becomes(Worker, Unwound(Worker, next))
      <3>1. PICK m \in Locals : Becomes(Worker, m) /\ Goes(l, m, next)
        BY <1>0, <2>2, <2>3, Returned
      <3>2. FinalizerFlow(l, m)
        BY <2>1, <2>2, <3>1 DEF FinalizerFlow, Goes, next
      <3> QED BY <1>0, <1>1, <2>1, <3>1, <3>2
    <2>4. CASE Fails /\ Becomes(Worker, At("idle"))
      <3>1. FinalizerFlow(l, At("idle"))
        BY <1>0, <2>1, <2>4 DEF FinalizerFlow
      <3> QED BY <1>0, <1>1, <2>1, <2>4, <3>1
    <2> QED BY <2>1, <2>3, <2>4
  <1>3. CASE DelFinalizer
    <2>1. /\ proc[Worker].pc = "delFinalizer" /\ RemoveCleanUpFinalizer(proc[Worker].app)
          /\ rec' = rec /\ SameRos /\ Becomes(Worker, At("idle"))
      BY <1>3 DEF DelFinalizer, pc, app, SameStore
    <2>2. FinalizerFlow(proc[Worker], At("idle"))
      BY <1>0, <2>1 DEF FinalizerFlow
    <2> QED BY <1>0, <1>1, <2>1, <2>2
  <1>4. ASSUME NEW w \in Watchers, WFinalizer(w)
        PROVE  AllFlows
    <2>1. /\ proc[w].pc = "wFinalizer" /\ RemoveCleanUpFinalizer(proc[w].app)
          /\ rec' = rec /\ SameRos /\ Becomes(w, At("idle"))
      BY <1>4 DEF WFinalizer, pc, app, SameStore
    <2>2. FinalizerFlow(proc[w], At("idle"))
      BY <1>0, <2>1 DEF FinalizerFlow
    <2> QED BY <1>0, <1>1, <2>1, <2>2
  <1> QED BY <1>2, <1>3, <1>4

(* Events, and the recovery. *)
LEMMA StartFlows ==
  ASSUME IInv,
         Load \/ Spawn \/ \E a \in Apps : Recover(a) \/ RecoverFails(a) \/ Dispatch(a)
  PROVE  AllFlows
  <1> USE DEF W
  <1> DEFINE l == proc[Worker]
  <1>0. /\ proc \in [Procs -> Locals] /\ l \in Locals /\ Worker \in Procs
        /\ pc(Worker) = l.pc /\ app(Worker) = l.app
        /\ Watchers \subseteq Procs /\ Worker \notin Watchers
        /\ rec \in [Apps -> Records] /\ infos \subseteq Apps /\ conf \in [Apps -> Confs]
    BY InvFacts, DomainAssumption DEF ProcsOK, pc, app, ConfTypeOK
  <1>1. \A next \in {"idle", "recover", "cuStatus", "delStatus", "wait"} :
          At(next) \in Locals /\ At(next).pc = next /\ At(next).id = None
    <2>1. \A next : At(next).id = None
      BY DEF At
    <2> QED BY <2>1, AtLocals DEF PCs
  <1>2. ASSUME NEW m \in Locals, Becomes(Worker, m), SameConf, SameRos, rec' = rec,
               HandlerFlow(l, m)
        PROVE  AllFlows
    BY <1>2, WorkerMoves
  <1>3. CASE Load
    <2>1. \A as \in SUBSET Apps : /\ [At("recover") EXCEPT !.list = as] \in Locals
                                  /\ [At("recover") EXCEPT !.list = as].pc = "recover"
                                  /\ [At("recover") EXCEPT !.list = as].list = as
      BY <1>1 DEF Locals
    <2>2. PICK m \in Locals :
            /\ Becomes(Worker, m)
            /\ \/ m.pc = "idle" /\ (infos = {} \/ \E a \in infos : ~Present(a))
               \/ infos # {} /\ m.pc = "recover" /\ m.list = infos
      BY <1>0, <1>1, <1>3, <2>1 DEF Load
    <2>3. SameConf /\ SameRos /\ rec' = rec /\ HandlerFlow(l, m)
      BY <1>0, <1>3, <2>2 DEF Load, HandlerFlow, SameStore
    <2> QED BY <1>2, <2>2, <2>3
  <1>4. ASSUME NEW as
        PROVE  /\ l.pc = "recover" => [l EXCEPT !.list = as].pc = "recover"
               /\ as \subseteq Apps => [l EXCEPT !.list = as] \in Locals
               /\ [l EXCEPT !.list = as].list = as
    BY <1>0 DEF Locals
  <1>5. ASSUME NEW a \in Apps
        PROVE  l.list \ {a} \subseteq Apps
    BY <1>0 DEF Locals
  <1>6. ASSUME NEW a \in Apps, RecoverFails(a)
        PROVE  AllFlows
    <2> DEFINE m == IF l.list = {a} THEN At("idle") ELSE [l EXCEPT !.list = @ \ {a}]
    <2>1. /\ Becomes(Worker, m) /\ SameConf /\ SameRos /\ rec' = rec /\ l.pc = "recover"
          /\ Fails
      BY <1>0, <1>6 DEF RecoverFails, appStackVars, Fails
    <2>2. /\ m \in Locals /\ m.pc \in {"recover", "idle"}
          /\ m.list \subseteq l.list
      <3>1. At("idle").list = {}
        BY DEF At
      <3> QED BY <1>1, <1>4, <1>5, <2>1, <3>1
    <2> HIDE DEF m
    <2>3. HandlerFlow(l, m)
      BY <2>1, <2>2 DEF HandlerFlow
    <2> QED BY <1>2, <2>1, <2>2, <2>3
  <1>7. ASSUME NEW w \in Watchers, NEW v \in Locals, NEW m \in Locals,
               proc' = [proc EXCEPT ![w] = v, ![Worker] = m],
               pc(w) = "idle", v.pc = "wait", v.app \in Apps,
               \/ /\ l.pc \in {"spawn", "spawnRequeue"} /\ m.pc = "idle"
                  /\ v.app = l.app /\ v.id = l.id
               \/ /\ l.pc = "recover" /\ m.pc \in {"recover", "idle"}
                  /\ v.id = rec[v.app].sid /\ v.app \in l.list
                  /\ IF m.pc = "recover" THEN m.list = l.list \ {v.app}
                                         ELSE l.list = {v.app},
               rec' = rec, SameConf, SameRos
        PROVE  AllFlows
    <2>1. proc'[w] = v /\ proc'[Worker] = m
      BY <1>0, <1>7
    <2>2. WatcherStarts(w, m)
      BY <1>0, <1>7, <2>1 DEF WatcherStarts
    <2>3. KeepsObjects
      BY <1>7 DEF SameConf, KeepsObjects
    <2> QED BY <1>7, <2>1, <2>2, <2>3 DEF StartFlow, AllFlows
  <1>8. ASSUME NEW a \in Apps, NEW i \in Ids \cup {None}
        PROVE  /\ [At("wait") EXCEPT !.app = a, !.id = i] \in Locals
               /\ [At("wait") EXCEPT !.app = a, !.id = i].pc = "wait"
               /\ [At("wait") EXCEPT !.app = a, !.id = i].app = a
               /\ [At("wait") EXCEPT !.app = a, !.id = i].id = i
    BY <1>1 DEF Locals
  <1>9. ASSUME NEW a \in Apps, Recover(a)
        PROVE  AllFlows
    <2> DEFINE v == [At("wait") EXCEPT !.app = a, !.id = rec[a].sid]
               m == IF l.list = {a} THEN At("idle") ELSE [l EXCEPT !.list = @ \ {a}]
    <2>1. PICK w \in Watchers : /\ pc(w) = "idle"
                                /\ proc' = [proc EXCEPT ![w] = v, ![Worker] = m]
      BY <1>9 DEF Recover
    <2>2. l.pc = "recover" /\ rec' = rec /\ SameConf /\ SameRos /\ a \in l.list
      BY <1>0, <1>9 DEF Recover, SameStore
    <2>3. /\ m \in Locals /\ m.pc \in {"recover", "idle"}
          /\ IF m.pc = "recover" THEN m.list = l.list \ {a} ELSE l.list = {a}
      BY <1>1, <1>4, <1>5, <2>2
    <2>4. rec[a].sid \in Ids \cup {None}
      BY <1>0 DEF Records
    <2>5. v \in Locals /\ v.pc = "wait" /\ v.app = a /\ v.id = rec[a].sid
      BY <1>8, <2>4
    <2> HIDE DEF m, v
    <2> QED BY <1>7, <2>1, <2>2, <2>3, <2>5
  <1>10. CASE Spawn
    <2> DEFINE v == [At("wait") EXCEPT !.app = l.app, !.id = l.id]
    <2>1. PICK w \in Watchers : /\ pc(w) = "idle"
                                /\ proc' = [proc EXCEPT ![w] = v, ![Worker] = At("idle")]
      BY <1>0, <1>10 DEF Spawn, Starts
    <2>2. /\ l.pc \in {"spawn", "spawnRequeue"} /\ rec' = rec /\ SameConf /\ SameRos
          /\ l.pc \notin Unassigned
      BY <1>0, <1>10 DEF Spawn, SameStore, Unassigned
    <2>3. l.app \in Apps /\ l.id \in Ids \cup {None}
      BY <1>0, <2>2, InvFacts DEF Locals
    <2>4. v \in Locals /\ v.pc = "wait" /\ v.app = l.app /\ v.id = l.id
      BY <1>8, <2>3
    <2> HIDE DEF v
    <2> QED BY <1>1, <1>7, <2>1, <2>2, <2>3, <2>4
  <1>11. ASSUME NEW a \in Apps, Dispatch(a)
         PROVE  AllFlows
    <2>0. l.pc = "idle" /\ SameConf /\ SameRos /\ rec' = rec
      BY <1>0, <1>11 DEF Dispatch, SameStore
    <2>1. CASE conf[a].state = "live"
      <3> DEFINE m == [At("cuStatus") EXCEPT !.app = a, !.want = conf[a].spec]
      <3>1. Becomes(Worker, m)
        BY <1>11, <2>1 DEF Dispatch
      <3>2. conf[a].spec \in Specs \cup {None}
        BY <1>0 DEF Confs
      <3>3. m \in Locals /\ m.pc = "cuStatus" /\ m.app = a /\ m.id = None
        BY <1>1, <3>2 DEF Locals
      <3> HIDE DEF m
      <3> QED BY <1>2, <2>0, <2>1, <3>1, <3>3 DEF HandlerFlow
    <2>2. CASE conf[a].state = "deleting"
      <3> DEFINE m == [At("delStatus") EXCEPT !.app = a]
      <3>1. Becomes(Worker, m)
        BY <1>11, <2>2 DEF Dispatch
      <3>3. m \in Locals /\ m.pc = "delStatus" /\ m.app = a /\ m.id = None
        BY <1>1 DEF Locals
      <3> HIDE DEF m
      <3> QED BY <1>2, <2>0, <2>2, <3>1, <3>3 DEF HandlerFlow
    <2>3. CASE conf[a].state \notin {"live", "deleting"}
      <3>1. Becomes(Worker, At("idle"))
        BY <1>11, <2>3 DEF Dispatch
      <3> QED BY <1>1, <1>2, <2>0, <3>1 DEF HandlerFlow
    <2> QED BY <2>1, <2>2, <2>3
  <1> QED BY <1>3, <1>6, <1>9, <1>10, <1>11

(* A watcher, between the procedures it calls. *)
LEMMA WatcherFlows ==
  ASSUME IInv, NEW w \in Watchers, Poll(w) \/ WReady(w) \/ WFailed(w) \/ WDrop(w)
  PROVE  AllFlows
  <1> DEFINE l == proc[w]
  <1>0. /\ l \in Locals /\ w \in Procs /\ w # Worker /\ pc(w) = l.pc /\ app(w) = l.app
    BY InvFacts, DomainAssumption DEF ProcsOK, pc, app, Procs
  <1>1. ASSUME NEW m \in Locals, Becomes(w, m), SameConf, SameRos, rec' = rec,
               WatcherFlow(l, m)
        PROVE  AllFlows
    <2>1. KeepsObjects
      BY <1>1 DEF SameConf, KeepsObjects
    <2>2. Flow(w, l, m)
      BY <1>0, <1>1, <2>1 DEF Flow
    <2> QED BY <1>0, <1>1, <2>2, Moved
  <1>2. ASSUME NEW task \in Tasks, NEW ok \in PCs, Begin(w, task, ok, ok),
               SameConf, SameRos, l.pc \in {"ready", "failed", "drop"},
               \A m : Enters(l, m, task, ok, ok) => WatcherFlow(l, m)
        PROVE  AllFlows
    <2>1. pc(w) \notin Unassigned
      BY <1>0, <1>2 DEF Unassigned
    <2>2. rec' = rec /\ \E m \in Locals : Becomes(w, m) /\ Enters(l, m, task, ok, ok)
      BY <1>0, <1>2, <2>1, Begun
    <2> QED BY <1>1, <1>2, <2>2
  <1>3. CASE Poll(w)
    <2> DEFINE status == stack[l.id].status
    <2>1. /\ l.pc = "wait" /\ l.id # None /\ status \in Settled
          /\ SameConf /\ SameRos /\ rec' = rec
      BY <1>0, <1>3 DEF Poll, SameStore
    <2>2. PICK d \in BOOLEAN, o \in {"empty", "named", None},
               next \in {"saveOutputs", "failed", "drop"} :
            /\ Becomes(w, [l EXCEPT !.inDelete = d, !.snap.outs = o, !.pc = next])
            /\ d = (status \in InDelete)
            /\ next = CASE status \in Deployed     -> "saveOutputs"
                        [] status \in Unsuccessful -> "failed"
                        [] OTHER                   -> "drop"
      <3> DEFINE d == status \in InDelete
                 o == IF status \notin Deployed THEN None
                      ELSE IF stack[l.id].tmpl \in WithOutputs THEN "named"
                      ELSE "empty"
                 next == CASE status \in Deployed     -> "saveOutputs"
                           [] status \in Unsuccessful -> "failed"
                           [] OTHER                   -> "drop"
      <3>1. Becomes(w, [l EXCEPT !.inDelete = d, !.snap.outs = o, !.pc = next])
        BY <1>3 DEF Poll
      <3>2. d \in BOOLEAN /\ o \in {"empty", "named", None}
        OBVIOUS
      <3>3. next \in {"saveOutputs", "failed", "drop"}
        BY DEF Deployed, Unsuccessful
      <3>4. d = (status \in InDelete) /\ next = CASE status \in Deployed     -> "saveOutputs"
                                                  [] status \in Unsuccessful -> "failed"
                                                  [] OTHER                   -> "drop"
        OBVIOUS
      <3> HIDE DEF d, o, next
      <3> QED BY <3>1, <3>2, <3>3, <3>4
    <2> DEFINE m == [l EXCEPT !.inDelete = d, !.snap.outs = o, !.pc = next]
    <2>3. next \in PCs
      BY DEF PCs
    <2>4. /\ m \in Locals /\ m.pc = next /\ m.app = l.app /\ m.id = l.id /\ m.inDelete = d
      BY <1>0, <2>3 DEF Locals, Records
    <2>5. Becomes(w, m)
      BY <2>2
    <2> HIDE DEF m
    <2>6. WatcherFlow(l, m)
      BY <2>1, <2>2, <2>4 DEF WatcherFlow
    <2> QED BY <1>1, <2>1, <2>4, <2>5, <2>6
  <1>4. CASE WReady(w)
    <2>1. l.pc = "ready" /\ Begin(w, "Ready", "idle", "idle") /\ SameConf /\ SameRos
      BY <1>0, <1>4 DEF WReady
    <2>2. \A m : Enters(l, m, "Ready", "idle", "idle") => WatcherFlow(l, m)
      BY <2>1 DEF WatcherFlow
    <2> QED BY <1>2, <2>1, <2>2 DEF Tasks, PCs
  <1>5. CASE WFailed(w)
    <2> DEFINE next == IF l.inDelete THEN "drop" ELSE "idle"
    <2>1. l.pc = "failed" /\ Begin(w, "Failed", next, next) /\ SameConf /\ SameRos
      BY <1>0, <1>5 DEF WFailed
    <2>2. \A m : Enters(l, m, "Failed", next, next) => WatcherFlow(l, m)
      BY <2>1 DEF WatcherFlow
    <2>3. next \in PCs
      BY DEF PCs
    <2> HIDE DEF next
    <2> QED BY <1>2, <2>1, <2>2, <2>3 DEF Tasks
  <1>6. CASE WDrop(w)
    <2>1. l.pc = "drop" /\ Begin(w, "Delete", "wFinalizer", "wFinalizer") /\ SameConf /\ SameRos
      BY <1>0, <1>6 DEF WDrop
    <2>2. \A m : Enters(l, m, "Delete", "wFinalizer", "wFinalizer") => WatcherFlow(l, m)
      BY <2>1 DEF WatcherFlow
    <2> QED BY <1>2, <2>1, <2>2 DEF Tasks, PCs
  <1> QED BY <1>3, <1>4, <1>5, <1>6

-----------------------------------------------------------------------------
(* The procedures.                                                         *)

LEMMA GoroutineMoves ==
  ASSUME IInv, NEW p \in Procs, NEW m \in Locals, Becomes(p, m), KeepsObjects, SameRos,
         \/ rec' = rec /\ (ProcedureFlow(proc[p], m) \/ FailureFlow(proc[p], m))
         \/ rec' = rec /\ ConflictFlow(proc[p], m) /\ p \in overtaken
         \/ WriteFlow(proc[p], m)
  PROVE  AllFlows
  <1>1. Flow(p, proc[p], m)
    BY DEF Flow
  <1> QED BY <1>1, Moved

(* The steps that leave the record alone. *)
LEMMA ListFlows ==
  ASSUME IInv, NEW p \in Procs, SameConf, SameRos,
         \/ ListAdd(p) \/ ListRead(p) \/ ListWrite(p)
         \/ SaveOutputs(p) \/ DropOutputs(p) \/ ProcedureFails(p)
  PROVE  AllFlows
  <1> DEFINE l == proc[p]
  <1>0. /\ l \in Locals /\ pc(p) = l.pc /\ app(p) = l.app /\ KeepsObjects /\ infos \subseteq Apps
    BY InvFacts DEF ProcsOK, pc, app, SameConf, KeepsObjects
  <1>1. rec' = rec
    BY DEF ListAdd, ListRead, ListWrite, SaveOutputs, DropOutputs, ProcedureFails
  <1>2. ASSUME NEW m \in Locals, Becomes(p, m), ProcedureFlow(l, m) \/ FailureFlow(l, m)
        PROVE  AllFlows
    BY <1>0, <1>1, <1>2, GoroutineMoves
  <1>3. ASSUME l.pc \in InProcedure, FaultTo(p, l.fail)
        PROVE  AllFlows
    <2>1. l.fail \in PCs /\ Fails
      BY <1>0, <1>3 DEF Locals, FaultTo, Fails
    <2>2. PICK m \in Locals : Becomes(p, m) /\ Goes(l, m, l.fail)
      BY <1>3, <2>1, Returned
    <2>3. FailureFlow(l, m)
      BY <1>3, <2>1, <2>2 DEF FailureFlow
    <2> QED BY <1>2, <2>2, <2>3
  <1>4. CASE ListAdd(p) \/ ListWrite(p)
    <2>1. /\ l.pc \in {"listAdd", "listWrite"}
          /\ FaultTo(p, l.fail) \/ Listed(p)
      BY <1>0, <1>4 DEF ListAdd, ListWrite, Written
    <2>2. CASE FaultTo(p, l.fail)
      BY <1>3, <2>1, <2>2 DEF InProcedure
    <2>3. CASE l.task # "Delete" /\ Goto(p, "condition")
      <3>1. PICK m \in Locals : Becomes(p, m) /\ Inside(l, m, "condition")
        BY <2>3, WentOn DEF PCs
      <3> QED BY <1>2, <2>1, <2>3, <3>1 DEF ProcedureFlow
    <2>4. CASE ReturnTo(p, l.ok)
      <3>1. l.ok \in PCs
        BY <1>0 DEF Locals
      <3>2. PICK m \in Locals : Becomes(p, m) /\ Goes(l, m, l.ok)
        BY <2>4, <3>1, Returned
      <3> QED BY <1>2, <2>1, <3>2 DEF ProcedureFlow
    <2> QED BY <2>1, <2>2, <2>3, <2>4 DEF Listed
  <1>5. CASE ListRead(p)
    <2> DEFINE m == [l EXCEPT !.pc = "listWrite", !.list = infos]
    <2>1. l.pc = "listRead" /\ Becomes(p, m) /\ "listWrite" \in PCs
      BY <1>0, <1>5 DEF ListRead, PCs
    <2>2. /\ m \in Locals /\ m.pc = "listWrite" /\ m.app = l.app /\ m.id = l.id
          /\ m.want = l.want /\ m.inDelete = l.inDelete
          /\ m.task = l.task /\ m.ok = l.ok /\ m.fail = l.fail /\ m.list = infos
      BY <1>0, <2>1 DEF Locals
    <2> HIDE DEF m
    <2>3. ProcedureFlow(l, m)
      BY <2>1, <2>2 DEF ProcedureFlow, Inside, Reaches, Same
    <2> QED BY <1>2, <2>1, <2>2, <2>3
  <1>6. CASE SaveOutputs(p)
    <2>1. l.pc = "saveOutputs" /\ "nameOutputs" \in PCs
      BY <1>0, <1>6 DEF SaveOutputs, PCs
    <2>2. PICK o \in {l.snap.outs, "empty"} :
            Becomes(p, [l EXCEPT !.pc = "nameOutputs", !.snap.outs = o])
      <3>1. [l EXCEPT !.pc = "nameOutputs"] =
            [l EXCEPT !.pc = "nameOutputs", !.snap.outs = l.snap.outs]
        BY <1>0 DEF Locals, Records
      <3> QED BY <1>6, <3>1 DEF SaveOutputs
    <2>3. o \in {"empty", "named", None}
      BY <1>0, <2>2 DEF Locals, Records
    <2> DEFINE m == [l EXCEPT !.pc = "nameOutputs", !.snap.outs = o]
    <2>4. /\ m \in Locals /\ m.pc = "nameOutputs" /\ m.app = l.app /\ m.id = l.id
          /\ m.want = l.want /\ m.inDelete = l.inDelete
      BY <1>0, <2>1, <2>3 DEF Locals, Records
    <2>5. Becomes(p, m)
      BY <2>2
    <2> HIDE DEF m
    <2>6. ProcedureFlow(l, m)
      BY <2>1, <2>4 DEF ProcedureFlow, Reaches, Same
    <2> QED BY <1>2, <2>4, <2>5, <2>6
  <1>7. CASE DropOutputs(p)
    <2>1. l.pc = "dropOutputs" /\ (FaultTo(p, l.fail) \/ Goto(p, "dropRecord"))
      BY <1>0, <1>7 DEF DropOutputs, Written
    <2>2. CASE Goto(p, "dropRecord")
      <3>1. PICK m \in Locals : Becomes(p, m) /\ Inside(l, m, "dropRecord")
        BY <2>2, WentOn DEF PCs
      <3> QED BY <1>2, <2>1, <3>1 DEF ProcedureFlow
    <2> QED BY <1>3, <2>1, <2>2 DEF InProcedure
  <1>8. CASE ProcedureFails(p)
    BY <1>0, <1>3, <1>8 DEF ProcedureFails, InProcedure
  <1> QED BY <1>4, <1>5, <1>6, <1>7, <1>8

(* The condition: neither the state nor the finalizer of the object. *)
LEMMA ConditionFlows ==
  ASSUME IInv, NEW p \in Procs, Condition(p), SameRos
  PROVE  AllFlows
  <1> DEFINE l == proc[p]
  <1>0. /\ l \in Locals /\ l.pc = "condition" /\ rec' = rec /\ conf \in [Apps -> Confs]
        /\ SetAppCondition(app(p), l.task)
    BY InvFacts DEF ProcsOK, pc, Condition, ConfTypeOK
  <1>1. KeepsObjects
    <2>1. \A a \in Apps : conf'[a].state = conf[a].state /\ conf'[a].fin = conf[a].fin
      BY <1>0 DEF SetAppCondition, Confs
    <2> QED BY <2>1 DEF KeepsObjects
  <1>2. l.ok \in PCs /\ l.fail \in PCs
    BY <1>0 DEF Locals
  <1>3. \/ Becomes(p, Unwound(p, l.ok))
        \/ Fails /\ Becomes(p, Unwound(p, l.fail))
    BY DEF Condition, Fails
  <1>4. CASE Becomes(p, Unwound(p, l.ok))
    <2>1. PICK m \in Locals : Becomes(p, m) /\ Goes(l, m, l.ok)
      BY <1>2, <1>4, Returned
    <2> QED BY <1>0, <1>1, <2>1, GoroutineMoves DEF ProcedureFlow
  <1>5. CASE Fails /\ Becomes(p, Unwound(p, l.fail))
    <2>1. PICK m \in Locals : Becomes(p, m) /\ Goes(l, m, l.fail)
      BY <1>2, <1>5, Returned
    <2>2. FailureFlow(l, m)
      BY <1>0, <1>5, <2>1 DEF FailureFlow, InProcedure
    <2> QED BY <1>0, <1>1, <2>1, <2>2, GoroutineMoves
  <1> QED BY <1>3, <1>4, <1>5

(* The writes of a record. *)
LEMMA WriteFlows ==
  ASSUME IInv, NEW p \in Procs, SameConf, SameRos,
         SetWrite(p) \/ NameOutputs(p) \/ DropRecord(p)
  PROVE  AllFlows
  <1> DEFINE l == proc[p]
  <1>0. /\ l \in Locals /\ pc(p) = l.pc /\ app(p) = l.app /\ KeepsObjects
        /\ Knows(stack, accepted, l)
    BY InvFacts DEF ProcsOK, pc, app, SameConf, KeepsObjects
  <1>1. ASSUME NEW m \in Locals, Becomes(p, m), WriteFlow(l, m)
        PROVE  AllFlows
    BY <1>0, <1>1, GoroutineMoves
  <1>2. l.ok \in PCs /\ l.fail \in PCs
    BY <1>0 DEF Locals
  <1>3. CASE SetWrite(p)
    <2> DEFINE new == IF l.task = "Record" THEN [l.snap EXCEPT !.sid = l.id, !.tmpl = l.want]
                                           ELSE [l.snap EXCEPT !.status = l.task]
    <2>1. l.pc = "setWrite" /\ rec' = [rec EXCEPT ![l.app] = Merge(@, new)]
      BY <1>0, <1>3 DEF SetWrite, NewData
    <2>2. \/ l.task = "Record" /\ ReturnTo(p, l.ok)
          \/ l.task = "Progressing" /\ Goto(p, "listAdd")
          \/ l.task \in {"Ready", "Failed"} /\ Goto(p, "listRead")
          \/ Fails /\ FaultTo(p, l.fail)
      <3>1. l.task \in {"Record", "Progressing", "Ready", "Failed"}
        BY <1>0, <2>1 DEF Knows, TaskMatches
      <3> QED BY <1>3, <3>1 DEF SetWrite, Written, FaultTo, Fails
    <2>3. PICK m \in Locals : /\ Becomes(p, m)
                              /\ \/ l.task = "Record" /\ Goes(l, m, l.ok)
                                 \/ l.task = "Progressing" /\ Inside(l, m, "listAdd")
                                 \/ l.task \in {"Ready", "Failed"} /\ Inside(l, m, "listRead")
                                 \/ Fails /\ Goes(l, m, l.fail)
      <3>1. {"listAdd", "listRead"} \subseteq PCs
        BY DEF PCs
      <3> QED BY <1>2, <2>2, <3>1, Returned, WentOn
    <2>4. WriteFlow(l, m)
      BY <2>1, <2>3 DEF WriteFlow
    <2> QED BY <1>1, <2>3, <2>4
  <1>4. CASE NameOutputs(p)
    <2>1. /\ l.pc = "nameOutputs" /\ ReturnTo(p, "ready")
          /\ rec' \in {rec, [rec EXCEPT ![l.app].outs = l.snap.outs]}
      BY <1>0, <1>4 DEF NameOutputs
    <2>2. PICK m \in Locals : Becomes(p, m) /\ Reaches(l, m, "ready")
      BY <2>1, Returned DEF PCs, Goes
    <2>3. WriteFlow(l, m)
      BY <2>1, <2>2 DEF WriteFlow
    <2> QED BY <1>1, <2>2, <2>3
  <1>5. CASE DropRecord(p)
    <2>1. /\ l.pc = "dropRecord" /\ rec' = [rec EXCEPT ![l.app] = NoRecord]
          /\ Goto(p, "listRead") \/ (Fails /\ FaultTo(p, l.fail))
      BY <1>0, <1>5 DEF DropRecord, Written, FaultTo, Fails
    <2>2. PICK m \in Locals : /\ Becomes(p, m)
                              /\ \/ Inside(l, m, "listRead")
                                 \/ Fails /\ Goes(l, m, l.fail)
      <3>1. "listRead" \in PCs
        BY DEF PCs
      <3> QED BY <1>2, <2>1, <3>1, Returned, WentOn
    <2>3. WriteFlow(l, m)
      BY <2>1, <2>2 DEF WriteFlow
    <2> QED BY <1>1, <2>2, <2>3
  <1> QED BY <1>3, <1>4, <1>5

(* The calls outside of the procedures that fail. *)
LEMMA FailureFlows ==
  ASSUME IInv, NEW p \in Procs, CallFails(p)
  PROVE  AllFlows
  <1> DEFINE l == proc[p]
  <1>0. /\ l \in Locals /\ pc(p) = l.pc /\ app(p) = l.app /\ SameConf /\ SameRos
        /\ rec' = rec /\ KeepsObjects /\ l.pc \notin InProcedure
    BY InvFacts DEF ProcsOK, pc, app, SameConf, KeepsObjects, CallFails, appStackVars,
       InProcedure
  <1>1. PICK next \in {"requeue", "cuError", "spawnRequeue", "delError", "delStack",
                       "drop", "idle", "wFinalizer"} :
          /\ FaultTo(p, next)
          /\ \/ next \in {"idle", "requeue"}
             \/ next = "cuError" /\ l.pc = "cuStatus" /\ rec[l.app].status # "Progressing"
             \/ next = "spawnRequeue" /\ l.pc = "cuProgressing"
             \/ next = "cuError" /\ l.pc \in {"cuCreate", "cuUpdate"}
             \/ next = "delError" /\ l.pc = "delCall"
             \/ next = "delStack" /\ l.pc = "delWait"
             \/ next = "drop" /\ l.pc = "failed" /\ l.inDelete
             \/ next = "wFinalizer" /\ l.pc = "drop"
    BY <1>0 DEF CallFails
  <1>2. next \in PCs /\ Fails
    BY <1>1 DEF PCs, FaultTo, Fails
  <1>3. PICK m \in Locals : Becomes(p, m) /\ Goes(l, m, next)
    BY <1>1, <1>2, Returned
  <1>4. FailureFlow(l, m)
    BY <1>0, <1>1, <1>2, <1>3 DEF FailureFlow, Goes
  <1> QED BY <1>0, <1>3, <1>4, GoroutineMoves

(* The conflicts. *)
LEMMA ConflictFlows ==
  ASSUME IInv, NEW p \in Procs, Conflict(p)
  PROVE  AllFlows
  <1> DEFINE l == proc[p]
  <1>0. /\ l \in Locals /\ pc(p) = l.pc /\ SameRos /\ rec' = rec /\ KeepsObjects
        /\ p \in overtaken
    BY InvFacts DEF ProcsOK, pc, SameConf, SameStore, KeepsObjects, Conflict
  <1>1. PICK next \in PCs :
          /\ ReturnTo(p, next)
          /\ \/ l.pc \in {"setWrite", "listAdd", "condition"} /\ next = l.fail
             \/ l.pc \in {"cuFinalizer", "delFinalizer", "wFinalizer"}
                  /\ next \in {"idle", "requeue"}
             \/ l.pc = "nameOutputs" /\ next = "ready"
    <2>1. l.fail \in PCs /\ {"idle", "requeue", "ready"} \subseteq PCs
      BY <1>0 DEF Locals, PCs
    <2> QED BY <1>0, <2>1 DEF Conflict
  <1>2. PICK m \in Locals : Becomes(p, m) /\ Goes(l, m, next)
    BY <1>1, Returned
  <1>3. ConflictFlow(l, m)
    BY <1>1, <1>2 DEF ConflictFlow, Goes
  <1> QED BY <1>0, <1>2, <1>3, GoroutineMoves

-----------------------------------------------------------------------------
(* Every step is one of the flows. *)
LEMMA NextFlows == ASSUME IInv, Next PROVE AllFlows
  <1>1. CASE UserStep \/ RosStep
    <2>1. proc' = proc /\ rec' = rec
      BY <1>1 DEF UserStep, RosStep, SameStore
    <2>2. RosStep => KeepsObjects
      BY DEF RosStep, KeepsObjects
    <2> QED BY <1>1, <2>1, <2>2 DEF OutsideFlow, AllFlows
  <1>2. CASE Crash \/ \E w \in Watchers : Panic(w)
    <2>1. Restart /\ \/ crashes < MaxCrashes
                     \/ \E w \in Watchers : pc(w) = "wait" /\ proc[w].id = None
      BY <1>2 DEF Crash, Panic
    <2>2. Ends
      BY <2>1 DEF Restart, Ends, SameConf, KeepsObjects, appStackVars
    <2> QED BY <2>2 DEF AllFlows
  <1>3. CASE WorkerStep \/ \E a \in Apps : Dispatch(a)
    BY <1>3, CreateOrUpdateFlows, DeleteFlows, RequestFlows, FinalizerFlows, StartFlows
       DEF WorkerStep
  <1>4. CASE \E w \in Watchers : WatcherStep(w)
    BY <1>4, WatcherFlows, FinalizerFlows DEF WatcherStep
  <1>5. ASSUME NEW p \in Procs, AppStackStep(p)
        PROVE  AllFlows
    BY <1>5, ListFlows, ConditionFlows, WriteFlows DEF AppStackStep, ProcedureStep
  <1>6. CASE \E p \in Procs : CallFails(p) \/ Conflict(p)
    BY <1>6, FailureFlows, ConflictFlows
  <1> QED BY <1>1, <1>2, <1>3, <1>4, <1>5, <1>6 DEF Next
=============================================================================
