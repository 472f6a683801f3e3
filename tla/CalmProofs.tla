----------------------------- MODULE CalmProofs -----------------------------
(***************************************************************************)
(* What RosController guarantees while its own process does not fail, for  *)
(* any users, any order of events, refused requests and operators at the   *)
(* console of ROS: CalmInv is inductive, next to IInv, and implies that    *)
(* every stack is known and every application in Progressing watched.      *)
(***************************************************************************)
EXTENDS DeletionProofs, CalmInvariant

(* No stack comes into being, and none changes its owner. *)
NoBirth == \A i \in Ids : IsThere(stack', i) => IsThere(stack, i) /\ stack'[i].app = stack[i].app

LEMMA CalmFacts ==
  ASSUME IInv, Calm
  PROVE  ~Fails /\ ~(crashes < MaxCrashes)
  BY DEF IInv, TypeOK, AppStackTypeOK, Calm, Fails

LEMMA LocalFacts ==
  ASSUME IInv, NEW p \in Procs
  PROVE  /\ proc[p] \in Locals /\ Knows(stack, accepted, proc[p])
         /\ proc[p].pc \notin Unassigned => proc[p].app \in Apps
         /\ pc(p) = proc[p].pc /\ app(p) = proc[p].app
         /\ proc[p].id # None => proc[p].id \in Ids
         /\ Worker \in Procs /\ Watchers \subseteq Procs /\ Worker \notin Watchers
  BY InvFacts, DomainAssumption DEF ProcsOK, pc, app, Knows, Locals

(* The process neither crashes nor panics: the histories go on. *)
LEMMA NextAlive ==
  ASSUME IInv, CalmInv, Calm, Next
  PROVE  Alive
  <1>1. ASSUME NEW w \in Watchers, Panic(w) PROVE FALSE
    <2>1. w \in Procs /\ w # Worker
      BY DomainAssumption DEF Procs
    <2> QED BY <1>1, <2>1 DEF Panic, CalmInv, Aware, InCharge, Reporting, pc
  <1>2. ~Crash
    BY CalmFacts DEF Crash
  <1> QED BY <1>1, <1>2 DEF Next

(* An application stays abandoned, and no write of set is overtaken.       *)
LEMMA HistoryCalm ==
  ASSUME IInv, CalmInv, Calm, Next
  PROVE  /\ \A a \in Apps : rec'[a].status = "Progressing" /\ a \notin abandoned' =>
              a \notin abandoned
         /\ (\A q \in Procs : Aware(stack', rec', q, proc'[q])) => NoneOvertaken'
  <1>1. Alive
    BY NextAlive
  <1>2. \A a \in Apps : rec'[a].status = "Progressing" /\ a \notin abandoned' => a \notin abandoned
    BY <1>1 DEF Alive
  <1>3. ASSUME \A q \in Procs : Aware(stack', rec', q, proc'[q]),
               NEW p \in overtaken', pc(p)' = "setWrite"
        PROVE  FALSE
    <2>1. p \in Procs /\ proc'[p] = proc[p] /\ (p \in overtaken \/ Overtakes(p))
      BY <1>1, <1>3 DEF Alive
    <2>2. pc(p) = "setWrite" /\ proc[p].pc = "setWrite"
      BY <1>3, <2>1 DEF pc
    <2>3. p \notin overtaken
      BY <2>2 DEF CalmInv, NoneOvertaken
    <2>4. rec'[proc[p].app] = rec[proc[p].app]
      BY <1>3, <2>1, <2>2 DEF CalmInv, Aware
    <2>5. ~Overtakes(p)
      BY <2>2, <2>4 DEF Overtakes, app
    <2> QED BY <2>1, <2>3, <2>5
  <1> QED BY <1>2, <1>3 DEF NoneOvertaken

(* What a goroutine that does not move is aware of stays true, when the    *)
(* record of its application does, or is no business of its.               *)
LEMMA AwareStable ==
  ASSUME IInv, NEW p \in Procs, Aware(stack, rec, p, proc[p]), NoBirth,
         \/ rec'[proc[p].app] = rec[proc[p].app]
         \/ ~InCharge(p, proc[p]) /\ ~Claims(p, proc[p])
  PROVE  Aware(stack', rec', p, proc[p])
  <1>1. proc[p].pc = "setWrite" => InCharge(p, proc[p]) \/ Claims(p, proc[p])
    BY DEF InCharge, Claims, Claimed, Reporting
  <1>2. CASE rec'[proc[p].app] = rec[proc[p].app]
    BY <1>2, LocalFacts DEF Aware, NoBirth, ToReport
  <1>3. CASE ~InCharge(p, proc[p]) /\ ~Claims(p, proc[p])
    <2>1. p = Worker => /\ ~ToReport(proc[p])
                        /\ proc[p].pc \notin {"cuFinalizer", "cuUpdate", "delCall",
                                             "delRecord", "dropOutputs", "dropRecord"}
      BY <1>3 DEF Claims, Claimed, Templated, ToReport
    <2> QED BY <1>1, <1>3, <2>1, LocalFacts DEF Aware, NoBirth
  <1> QED BY <1>2, <1>3

(* Only the procedures for the list write it. *)
LEMMA ListStable ==
  ASSUME IInv, Next, pc(Worker) = "load", \A w \in Watchers : pc(w) = "idle"
  PROVE  infos' = infos
  <1>1. CASE \E p \in Procs : ProcedureStep(p)
    BY <1>1 DEF ProcedureStep, SetWrite, ListAdd, ListRead, ListWrite, SaveOutputs,
       NameOutputs, DropOutputs, DropRecord, ProcedureFails, Procs
  <1>2. CASE ~ \E p \in Procs : ProcedureStep(p)
    BY <1>2, Elsewhere
  <1> QED BY <1>1, <1>2

(* One goroutine moves on, and leaves the records alone. *)
LEMMA KeepsCalm ==
  ASSUME IInv, CalmInv, Calm, Next, NEW p \in Procs, NEW m \in Locals,
         proc' = [proc EXCEPT ![p] = m], NoBirth, NoneFailed', rec' = rec,
         Aware(stack', rec', p, m),
         InCharge(p, m) => InCharge(p, proc[p]),
         InCharge(p, proc[p]) => InCharge(p, m) \/ proc[p].app \in abandoned',
         InCharge(p, m) => m.app = proc[p].app,
         p = Worker /\ Holding(proc[p]) =>
           Holding(m) /\ m.id = proc[p].id /\ m.app = proc[p].app,
         IF p = Worker THEN m.pc # "load" ELSE proc[p].pc # "idle"
  PROVE  CalmInv'
  <1>0. /\ proc \in [Procs -> Locals] /\ Worker \in Procs /\ Watchers \subseteq Procs
        /\ \A q \in Procs : pc(q) = proc[q].pc /\ app(q) = proc[q].app
        /\ \A q \in Procs : proc'[q] = IF q = p THEN m ELSE proc[q]
        /\ \A q \in Procs : pc(q)' = proc'[q].pc /\ app(q)' = proc'[q].app
    BY InvFacts DEF ProcsOK, pc, app
  <1>1. \A q \in Procs : Aware(stack', rec', q, proc'[q])
    BY <1>0, AwareStable DEF CalmInv
  <1>2. \A q \in Procs :
          /\ InCharge(q, proc'[q]) => InCharge(q, proc[q]) /\ proc'[q].app = proc[q].app
          /\ InCharge(q, proc[q]) => \/ InCharge(q, proc'[q]) /\ proc'[q].app = proc[q].app
                                    \/ proc[q].app \in abandoned'
    BY <1>0
  <1>3. /\ \A a \in Apps : rec'[a].status = "Progressing" /\ a \notin abandoned' =>
              a \notin abandoned
        /\ NoneOvertaken'
    BY <1>1, HistoryCalm
  <1>4. OneInCharge' /\ SomeoneInCharge'
    <2>1. OneInCharge'
      BY <1>0, <1>2 DEF OneInCharge, CalmInv
    <2>2. ASSUME NEW a \in Apps, rec'[a].status = "Progressing", a \notin abandoned'
          PROVE  \E q \in Procs : InCharge(q, proc'[q]) /\ app(q)' = a
      BY <1>0, <1>2, <1>3, <2>2 DEF SomeoneInCharge, CalmInv
    <2> QED BY <2>1, <2>2 DEF SomeoneInCharge
  <1>5. StacksHeld'
    <2>1. \A i \in Ids : Exists(i)' => Exists(i) /\ stack'[i].app = stack[i].app
      BY DEF NoBirth, Exists, IsThere
    <2> QED BY <1>0, <2>1 DEF StacksHeld, CalmInv
  <1>6. NothingToRecover'
    <2> SUFFICES ASSUME pc(Worker)' = "load"
                 PROVE  infos' = {} /\ \A w \in Watchers : pc(w)' = "idle"
      BY DEF NothingToRecover
    <2>1. p # Worker /\ proc[p].pc # "idle" /\ pc(Worker) = "load"
      BY <1>0
    <2>2. infos = {} /\ \A w \in Watchers : pc(w) = "idle"
      BY <2>1 DEF NothingToRecover, CalmInv
    <2>3. p \in Watchers /\ proc[p].pc = "idle"
      BY <1>0, <2>1, <2>2 DEF Procs
    <2> QED BY <2>1, <2>3
  <1> QED BY <1>1, <1>3, <1>4, <1>5, <1>6 DEF CalmInv

-----------------------------------------------------------------------------
(* The flows, one after the other.                                         *)

LEMMA SameRosNoBirth ==
  ASSUME SameRos PROVE NoBirth /\ stack' = stack /\ (NoneFailed => NoneFailed')
  BY DEF SameRos, rosVars, NoBirth, IsThere, NoneFailed

(* What is known of a goroutine when it takes a step. *)
LEMMA Situation ==
  ASSUME IInv, IInv', CalmInv, NEW p \in Procs, NEW m \in Locals,
         proc' = [proc EXCEPT ![p] = m]
  PROVE  /\ proc[p] \in Locals /\ Knows(stack, accepted, proc[p])
         /\ proc[p].pc \notin Unassigned => proc[p].app \in Apps
         /\ Aware(stack, rec, p, proc[p])
         /\ TaskMatches(proc[p]) /\ TaskMatches(m)
         /\ NoneFailed
         /\ p = Worker => /\ proc[p].pc = "load" => infos = {}
                          /\ ~Holding(proc[p]) =>
                               \A i \in Ids : IsThere(stack, i) => rec[stack[i].app].sid = i
  <1>1. proc'[p] = m
    BY InvFacts DEF ProcsOK
  <1>2. Knows(stack', accepted', proc'[p])
    BY DEF IInv
  <1>3. Knows(stack, accepted, proc[p]) /\ proc[p] \in Locals
        /\ (proc[p].pc \notin Unassigned => proc[p].app \in Apps)
    BY LocalFacts
  <1> QED
    BY <1>1, <1>2, <1>3 DEF Knows, CalmInv, StacksHeld, NothingToRecover, Exists, IsThere, pc

(* The worker in a handler. *)
LEMMA HandlerCalm ==
  ASSUME IInv, IInv', CalmInv, Calm, Next, NEW m \in Locals,
         proc' = [proc EXCEPT ![Worker] = m], SameRos, rec' = rec,
         HandlerFlow(proc[Worker], m)
  PROVE  CalmInv'
  <1>0. Worker \in Procs
    BY DEF Procs
  <1> DEFINE l == proc[Worker]
  <1>1. /\ l \in Locals /\ Knows(stack, accepted, l) /\ Aware(stack, rec, Worker, l)
        /\ l.pc \notin Unassigned => l.app \in Apps
        /\ TaskMatches(l) /\ TaskMatches(m)
        /\ l.pc = "load" => infos = {}
        /\ ~Holding(l) => \A i \in Ids : IsThere(stack, i) => rec[stack[i].app].sid = i
    BY <1>0, Situation
  <1> HIDE DEF l
  <1> DEFINE Goal ==
        /\ Aware(stack, rec, Worker, m)
        /\ ~InCharge(Worker, m) /\ ~InCharge(Worker, l)
        /\ Holding(l) => Holding(m) /\ m.id = l.id /\ m.app = l.app
        /\ m.pc # "load"
  <1> USE DEF Aware, InPlace, InCharge, Claims, Claimed, Templated, Holding, ToReport, Reaches,
              Same, Enters, TaskMatches, InSuccession
  <1>2. Goal
    <2>3. CASE m.pc = "idle" /\ l.pc \in {"idle", "cuStatus", "cuSame", "cuFinalizer",
                                          "cuUpdate", "load"}
      BY <1>1, <2>3
    <2>4. CASE l.pc = "idle" /\ m.app \in Apps /\ m.pc \in {"cuStatus", "delStatus"}
      BY <1>1, <2>4
    <2>5. CASE /\ l.pc = "cuStatus" /\ rec[l.app].status # "Progressing"
               /\ \E next \in {"cuSame", "cuFailed", "cuError"} : Reaches(l, m, next)
      BY <1>1, <2>5
    <2>6. CASE Reaches(l, m, m.pc) /\ <<l.pc, m.pc>> \in InSuccession
      BY <1>1, <2>6
    <2>7. CASE /\ l.pc = "cuStack" /\ m.pc = "cuFinalizer"
               /\ m.app = l.app /\ m.want = l.want /\ m.id = rec[l.app].sid
      BY <1>1, <2>7
    <2>8. CASE l.pc = "cuUpdate" /\ ~Exists(l.id) /\ Reaches(l, m, "cuCreate")
      <3>1. \A i \in Ids : IsThere(stack, i) /\ stack[i].app = l.app => i = l.id
        BY <1>1, <2>8 DEF IsThere
      <3> QED BY <1>1, <2>8, <3>1 DEF Exists, IsThere
    <2>9. CASE /\ l.pc \in {"delStatus", "delWait"} /\ Reaches(l, m, "delStack")
               /\ rec[l.app].status # "Progressing"
      BY <1>1, <2>9
    <2>10. CASE /\ l.pc = "delStack" /\ m.app = l.app /\ m.id = rec[l.app].sid
                /\ m.pc = IF m.id = None THEN "delFinalizer" ELSE "delCall"
      BY <1>1, <2>10
    <2>11. CASE l.pc = "delCall" /\ ~Exists(l.id) /\ Reaches(l, m, "delRecord")
      BY <1>1, <2>11 DEF Exists, IsThere, Knows
    <2>12. CASE l.pc \in {"cuError", "delError"} /\ Enters(l, m, "Failed", "idle", "requeue")
      BY <1>1, <2>12
    <2>13. CASE l.pc = "cuRecord" /\ Enters(l, m, "Record", "cuProgressing", "requeue")
      BY <1>1, <2>13
    <2>14. CASE l.pc = "cuProgressing" /\ Enters(l, m, "Progressing", "spawn", "spawnRequeue")
      BY <1>1, <2>14
    <2>15. CASE l.pc = "delProgressing" /\ Enters(l, m, "Progressing", "spawn", "requeue")
      BY <1>1, <2>15
    <2>16. CASE l.pc = "delRecord" /\ Enters(l, m, "Delete", "delFinalizer", "requeue")
      BY <1>1, <2>16
    <2>17. ~(l.pc = "load" /\ m.pc = "recover" /\ infos # {})
      BY <1>1
    <2>18. l.pc # "recover"
      BY <1>1
    <2> QED BY <2>3, <2>4, <2>5, <2>6, <2>7, <2>8, <2>9, <2>10, <2>11, <2>12, <2>13,
               <2>14, <2>15, <2>16, <2>17, <2>18 DEF HandlerFlow, l
  <1> HIDE DEF Aware, InPlace, InCharge, Claims, Holding
  <1> QED BY <1>0, <1>2, KeepsCalm, SameRosNoBirth DEF l, CalmInv

(* A finalizer comes or goes. *)
LEMMA FinalizerCalm ==
  ASSUME IInv, IInv', CalmInv, Next, Calm, NEW p \in Procs, NEW m \in Locals,
         proc' = [proc EXCEPT ![p] = m], SameRos, rec' = rec,
         FinalizerFlow(proc[p], m), proc[p].pc = "wFinalizer" <=> p # Worker
  PROVE  CalmInv'
  <1> DEFINE l == proc[p]
  <1>1. /\ l \in Locals /\ Knows(stack, accepted, l) /\ Aware(stack, rec, p, l)
        /\ l.pc \notin Unassigned => l.app \in Apps
        /\ TaskMatches(l) /\ TaskMatches(m)
        /\ p = Worker /\ ~Holding(l) =>
             \A i \in Ids : IsThere(stack, i) => rec[stack[i].app].sid = i
    BY Situation
  <1>2. /\ l.pc \in {"cuFinalizer", "delFinalizer", "wFinalizer"}
        /\ \/ m.pc = "idle"
           \/ /\ l.pc = "cuFinalizer"
              /\ Reaches(l, m, IF l.id = None THEN "cuCreate" ELSE "cuUpdate")
    BY CalmFacts DEF FinalizerFlow
  <1>3. l.pc = "wFinalizer" <=> p # Worker
    OBVIOUS
  <1> HIDE DEF l
  <1> USE DEF Aware, InPlace, InCharge, Claims, Claimed, Templated, Holding, ToReport, Reaches,
              Same, TaskMatches, Reporting
  <1>4. /\ Aware(stack, rec, p, m)
        /\ ~InCharge(p, m) /\ ~InCharge(p, l)
        /\ p = Worker => ~Holding(l)
        /\ m.pc # "load" /\ l.pc # "idle"
    <2>1. l.pc = "cuFinalizer" /\ l.id = None =>
            \A i \in Ids : IsThere(stack, i) => stack[i].app # l.app
      BY <1>1, <1>2, <1>3, DomainAssumption
    <2>2. CASE m.pc = "idle"
      BY <1>1, <1>2, <1>3, <2>2
    <2>3. CASE l.pc = "cuFinalizer" /\ Reaches(l, m, IF l.id = None THEN "cuCreate" ELSE "cuUpdate")
      BY <1>1, <1>3, <2>1, <2>3
    <2> QED BY <1>2, <2>2, <2>3
  <1> HIDE DEF Aware, InPlace, InCharge, Claims, Holding
  <1> QED BY <1>4, KeepsCalm, SameRosNoBirth DEF l, CalmInv

(* A watcher in waitStackDoneAndSaveOutputs: nothing settles as            *)
(* DELETE_FAILED, so what is neither deployed nor failed is deleted.       *)
LEMMA WatcherCalm ==
  ASSUME IInv, IInv', CalmInv, Calm, Next, NEW p \in Watchers, NEW m \in Locals,
         proc' = [proc EXCEPT ![p] = m], SameRos, rec' = rec,
         WatcherFlow(proc[p], m)
  PROVE  CalmInv'
  <1>0. p \in Procs /\ p # Worker
    BY DomainAssumption DEF Procs
  <1> DEFINE l == proc[p]
  <1>1. /\ l \in Locals /\ Knows(stack, accepted, l) /\ Aware(stack, rec, p, l)
        /\ TaskMatches(l) /\ TaskMatches(m) /\ NoneFailed /\ (l.id # None => l.id \in Ids)
    BY <1>0, Situation, LocalFacts
  <1>2. l.pc = "wait" => /\ m.pc = "failed" => ~m.inDelete
                         /\ m.pc = "drop" => ~IsThere(stack, l.id)
                         /\ m.pc \in {"saveOutputs", "failed", "drop"}
    BY <1>1 DEF WatcherFlow, Settled, Succeeded, Unsuccessful, Deployed, InDelete, IsThere,
       NoneFailed, Enters
  <1> HIDE DEF l
  <1> USE DEF Aware, InPlace, InCharge, Reporting, Same, Enters, TaskMatches
  <1>3. Aware(stack, rec, p, m) /\ InCharge(p, m) /\ InCharge(p, l)
        /\ m.app = l.app /\ l.pc # "idle"
    <2>1. CASE l.pc = "wait" /\ m.app = l.app /\ m.id = l.id
      BY <1>0, <1>1, <1>2, <2>1 DEF Claims
    <2>2. CASE l.pc = "ready" /\ Enters(l, m, "Ready", "idle", "idle")
      BY <1>0, <1>1, <2>2 DEF Claims
    <2>3. CASE l.pc = "failed" /\ Enters(l, m, "Failed", "idle", "idle")
      BY <1>0, <1>1, <2>3 DEF Claims
    <2>4. CASE l.pc = "drop" /\ Enters(l, m, "Delete", "wFinalizer", "wFinalizer")
      BY <1>0, <1>1, <2>4 DEF Claims
    <2>5. l.pc = "failed" => ~l.inDelete
      BY <1>0, <1>1
    <2> QED BY <2>1, <2>2, <2>3, <2>4, <2>5 DEF WatcherFlow, l
  <1> HIDE DEF Aware, InPlace, InCharge
  <1> QED BY <1>0, <1>3, KeepsCalm, SameRosNoBirth DEF l, CalmInv

(* A goroutine in a procedure, but for its writes to the record. *)
LEMMA ProcedureCalm ==
  ASSUME IInv, IInv', CalmInv, Calm, Next, NEW p \in Procs, NEW m \in Locals,
         proc' = [proc EXCEPT ![p] = m], SameRos, rec' = rec,
         ProcedureFlow(proc[p], m)
  PROVE  CalmInv'
  <1> DEFINE l == proc[p]
  <1>1. /\ l \in Locals /\ Knows(stack, accepted, l) /\ Aware(stack, rec, p, l)
        /\ TaskMatches(l) /\ TaskMatches(m)
    BY Situation
  <1> HIDE DEF l
  <1> USE DEF Aware, InPlace, InCharge, Claims, Claimed, Templated, Holding, ToReport, Reaches,
              Same, TaskMatches, Reporting, Inside, Goes
  <1>2. /\ Aware(stack, rec, p, m) /\ (InCharge(p, m) <=> InCharge(p, l))
        /\ InCharge(p, m) => m.app = l.app
        /\ p = Worker => ~Holding(l)
        /\ m.pc # "load" /\ l.pc # "idle"
    <2>1. CASE l.pc \in {"listAdd", "listWrite"} /\ Inside(l, m, "condition") /\ l.task # "Delete"
      BY <1>1, <2>1
    <2>2. CASE l.pc \in {"listAdd", "listWrite", "condition"} /\ Goes(l, m, l.ok)
      <3>1. CASE p = Worker /\ l.task = "Progressing"
        BY <1>1, <2>2, <3>1
      <3>2. CASE p = Worker /\ l.task # "Progressing"
        BY <1>1, <2>2, <3>2
      <3>3. CASE p # Worker
        BY <1>1, <2>2, <3>3
      <3> QED BY <3>1, <3>2, <3>3
    <2>3. CASE l.pc = "listRead" /\ Inside(l, m, "listWrite")
      BY <1>1, <2>3
    <2>4. CASE l.pc = "saveOutputs" /\ Reaches(l, m, "nameOutputs")
      BY <1>1, <2>4
    <2>5. CASE l.pc = "dropOutputs" /\ Inside(l, m, "dropRecord")
      BY <1>1, <2>5
    <2> QED BY <2>1, <2>2, <2>3, <2>4, <2>5 DEF ProcedureFlow, l
  <1> HIDE DEF Aware, InPlace, InCharge, Claims, Holding
  <1> QED BY <1>2, KeepsCalm, SameRosNoBirth DEF l, CalmInv

(* A conflict: whoever met it returns an error or goes on, and leaves the  *)
(* application in nobody's charge only in the deletion it ends.            *)
LEMMA ConflictCalm ==
  ASSUME IInv, IInv', CalmInv, Calm, Next, NEW p \in Procs, NEW m \in Locals,
         proc' = [proc EXCEPT ![p] = m], SameRos, rec' = rec,
         ConflictFlow(proc[p], m), p \in overtaken
  PROVE  CalmInv'
  <1> DEFINE l == proc[p]
  <1>1. /\ l \in Locals /\ Knows(stack, accepted, l) /\ Aware(stack, rec, p, l)
        /\ TaskMatches(l) /\ TaskMatches(m) /\ proc'[p] = m
        /\ l.pc \notin Unassigned => l.app \in Apps
    BY Situation, InvFacts DEF ProcsOK
  <1>2. l.pc # "setWrite"
    BY DEF CalmInv, NoneOvertaken, pc
  (* Who gives up in charge of the application abandons it. *)
  <1>3. ASSUME l.pc \in {"listAdd", "condition"}, l.task = "Progressing", m.pc = "idle",
               InCharge(p, l)
        PROVE  l.app \in abandoned'
    <2>1. p = Worker /\ l.app \in Apps /\ rec[l.app].status = "Progressing"
      BY <1>1, <1>3 DEF Aware, InPlace, InCharge, Unassigned, Reporting
    <2>2. Abandons(l.app)
      BY <1>1, <1>3, <2>1 DEF Abandons, W, pc, app
    <2> QED BY <2>1, <2>2, NextAlive DEF Alive
  <1> HIDE DEF l
  <1> USE DEF Aware, InPlace, InCharge, Claims, Claimed, Templated, Holding, ToReport, Reaches,
              Same, TaskMatches, Reporting, Goes, InProcedure
  <1>4. /\ Aware(stack, rec, p, m) /\ (InCharge(p, m) => InCharge(p, l))
        /\ InCharge(p, l) => InCharge(p, m) \/ l.app \in abandoned'
        /\ InCharge(p, m) => m.app = l.app
        /\ p = Worker => ~Holding(l)
        /\ m.pc # "load" /\ l.pc # "idle"
    <2>1. CASE l.pc \in {"listAdd", "condition"} /\ Goes(l, m, l.fail)
      <3>1. CASE p = Worker /\ l.task = "Progressing" /\ l.fail = "requeue"
        BY <1>1, <1>3, <2>1, <3>1
      <3>2. CASE p = Worker /\ l.task = "Progressing" /\ l.fail = "spawnRequeue"
        BY <1>1, <2>1, <3>2
      <3>3. CASE p = Worker /\ l.task # "Progressing"
        BY <1>1, <2>1, <3>3
      <3>4. CASE p # Worker
        BY <1>1, <2>1, <3>4
      <3>5. p = Worker /\ l.task = "Progressing" => l.fail \in {"requeue", "spawnRequeue"}
        BY <1>1, <2>1
      <3> QED BY <3>1, <3>2, <3>3, <3>4, <3>5
    <2>2. CASE l.pc \in {"cuFinalizer", "delFinalizer", "wFinalizer"} /\ m.pc = "idle"
      BY <1>1, <2>2
    <2>3. CASE l.pc = "nameOutputs" /\ Reaches(l, m, "ready")
      BY <1>1, <2>3
    <2> QED BY <1>2, <2>1, <2>2, <2>3 DEF ConflictFlow, l
  <1> HIDE DEF Aware, InPlace, InCharge, Claims, Holding
  <1> QED BY <1>4, KeepsCalm, SameRosNoBirth DEF l, CalmInv

-----------------------------------------------------------------------------
(* The writes of a record.                                                 *)

(* Who writes a record is in charge of it or has it to itself, so that no  *)
(* other goroutine depends on what it said.                                *)
LEMMA RewritesCalm ==
  ASSUME IInv, CalmInv, Calm, Next, NEW p \in Procs, NEW m \in Locals,
         proc' = [proc EXCEPT ![p] = m], SameRos,
         InCharge(p, proc[p]) \/ Claims(p, proc[p]), proc[p].app \in Apps,
         NEW r, rec' = [rec EXCEPT ![proc[p].app] = r],
         Aware(stack, rec', p, m), m.app = proc[p].app, ~Holding(m), m.pc # "load",
         InCharge(p, m) <=> r.status = "Progressing",
         \A i \in Ids : IsThere(stack, i) /\ stack[i].app = m.app => r.sid = i
  PROVE  CalmInv'
  <1> DEFINE a == m.app
  <1>0. /\ proc \in [Procs -> Locals] /\ rec \in [Apps -> Records] /\ a \in Apps
        /\ \A q \in Procs : pc(q) = proc[q].pc /\ app(q) = proc[q].app
        /\ \A q \in Procs : proc'[q] = IF q = p THEN m ELSE proc[q]
        /\ \A q \in Procs : pc(q)' = proc'[q].pc /\ app(q)' = proc'[q].app
        /\ \A b \in Apps : rec'[b] = IF b = a THEN r ELSE rec[b]
        /\ NoBirth /\ stack' = stack /\ NoneFailed' /\ Worker \in Procs
        /\ Watchers \subseteq Procs
    BY InvFacts, SameRosNoBirth DEF ProcsOK, pc, app, CalmInv
  <1>1. \A q \in Procs : Aware(stack, rec, q, proc[q]) /\ (InCharge(q, proc[q]) => app(q) \in Apps)
    <2>1. ASSUME NEW q \in Procs, InCharge(q, proc[q]) PROVE proc[q].pc \notin Unassigned
      BY <2>1 DEF InCharge, Unassigned, Reporting
    <2> QED BY <2>1, LocalFacts DEF CalmInv
  (* Nobody else is in charge of the application, or claims it. *)
  <1>2. \A q \in Procs : app(q) = a /\ (InCharge(q, proc[q]) \/ Claims(q, proc[q])) => q = p
    <2>1. \A q \in Procs : /\ InCharge(q, proc[q]) => rec[proc[q].app].status = "Progressing"
                           /\ Claims(q, proc[q]) => /\ rec[proc[q].app].status # "Progressing"
                                                    /\ q = Worker
      BY <1>1 DEF Aware, Claims
    <2> QED BY <1>0, <2>1 DEF CalmInv, OneInCharge
  <1>3. \A q \in Procs : Aware(stack', rec', q, proc'[q])
    <2>1. ASSUME NEW q \in Procs, q # p, app(q) = a
          PROVE  Aware(stack', rec', q, proc'[q])
      BY <1>0, <1>1, <1>2, <2>1, AwareStable
    <2>2. ASSUME NEW q \in Procs, q # p, app(q) # a
          PROVE  Aware(stack', rec', q, proc'[q])
      <3>1. rec'[proc[q].app] = rec[proc[q].app]
        BY <1>0, <2>2
      <3> QED BY <1>0, <1>1, <2>2, <3>1, AwareStable
    <2> QED BY <1>0, <2>1, <2>2
  <1>4. OneInCharge' /\ SomeoneInCharge'
    <2>1. \A q \in Procs : q # p => proc'[q] = proc[q] /\ app(q)' = app(q)
      BY <1>0
    <2>2. app(p)' = a /\ app(p) = a /\ proc'[p] = m
      BY <1>0
    <2>3. OneInCharge'
      BY <1>0, <1>2, <2>1, <2>2 DEF OneInCharge, CalmInv
    <2>4. SomeoneInCharge'
      <3> SUFFICES ASSUME NEW b \in Apps, rec'[b].status = "Progressing", b \notin abandoned'
                   PROVE  \E q \in Procs : InCharge(q, proc'[q]) /\ app(q)' = b
        BY DEF SomeoneInCharge
      <3>1. CASE b = a
        BY <1>0, <2>2, <3>1
      <3>2. CASE b # a
        <4>1. rec[b].status = "Progressing" /\ b \notin abandoned
          BY <1>0, <3>2, HistoryCalm
        <4> QED BY <2>1, <2>2, <3>2, <4>1 DEF SomeoneInCharge, CalmInv
      <3> QED BY <3>1, <3>2
    <2> QED BY <2>3, <2>4
  <1>5. StacksHeld'
    <2> SUFFICES ASSUME NEW i \in Ids, IsThere(stack, i)
                 PROVE  /\ stack[i].app \in Apps
                        /\ \/ rec'[stack[i].app].sid = i
                           \/ /\ Holding(proc'[Worker]) /\ proc'[Worker].id = i
                              /\ app(Worker)' = stack[i].app
      BY <1>0 DEF StacksHeld, Exists, IsThere
    <2>1. /\ stack[i].app \in Apps
          /\ \/ rec[stack[i].app].sid = i
             \/ Holding(proc[Worker]) /\ proc[Worker].id = i /\ app(Worker) = stack[i].app
      BY DEF CalmInv, StacksHeld, Exists, IsThere
    <2>2. CASE stack[i].app = a
      BY <1>0, <2>2
    <2>3. CASE stack[i].app # a
      BY <1>0, <2>1, <2>3
    <2> QED BY <2>1, <2>2, <2>3
  <1>6. NothingToRecover'
    <2> SUFFICES ASSUME pc(Worker)' = "load"
                 PROVE  infos' = {} /\ \A w \in Watchers : pc(w)' = "idle"
      BY DEF NothingToRecover
    <2>1. p # Worker /\ pc(Worker) = "load"
      BY <1>0
    <2>2. proc[p].pc = "idle"
      BY <1>0, <2>1 DEF NothingToRecover, CalmInv, Procs
    <2>3. ~InCharge(p, proc[p]) /\ ~Claims(p, proc[p])
      BY <2>1, <2>2 DEF InCharge, Claims, Reporting
    <2> QED BY <2>3
  <1>7. NoneOvertaken'
    BY <1>3, HistoryCalm
  <1> QED BY <1>0, <1>3, <1>4, <1>5, <1>6, <1>7 DEF CalmInv

LEMMA WriteCalm ==
  ASSUME IInv, IInv', CalmInv, Next, Calm, NEW p \in Procs, NEW m \in Locals,
         proc' = [proc EXCEPT ![p] = m], SameRos, WriteFlow(proc[p], m)
  PROVE  CalmInv'
  <1> DEFINE l == proc[p]
             a == l.app
  <1>1. /\ l \in Locals /\ Knows(stack, accepted, l) /\ Aware(stack, rec, p, l)
        /\ TaskMatches(l) /\ TaskMatches(m) /\ rec \in [Apps -> Records]
        /\ p = Worker /\ ~Holding(l) =>
             \A i \in Ids : IsThere(stack, i) => rec[stack[i].app].sid = i
    BY Situation, InvFacts
  <1>2. l.pc \in {"setWrite", "nameOutputs", "dropRecord"} /\ a \in Apps /\ rec[a] \in Records
    BY <1>1, LocalFacts DEF WriteFlow, Unassigned
  <1>3. InCharge(p, l) \/ Claims(p, l)
    BY <1>1, <1>2 DEF InCharge, Claims, Claimed, Reporting, Aware, InPlace
  (* Unless the worker has the id of a new stack, the record has it. *)
  <1>4. p # Worker \/ ~Holding(l) =>
          \A i \in Ids : IsThere(stack, i) /\ stack[i].app = a => rec[a].sid = i
    <2>1. CASE p = Worker
      BY <1>1, <2>1
    <2>2. CASE p # Worker
      <3>1. rec[a].status = "Progressing"
        BY <1>1, <1>3, <2>2 DEF Aware, Claims
      <3>2. Claims(Worker, proc[Worker]) => app(Worker) # a
        BY <3>1, InvFacts DEF CalmInv, Aware, app
      <3>3. Holding(proc[Worker]) => Claims(Worker, proc[Worker])
        BY InvFacts DEF Knows, TaskMatches, Holding, Claims, Claimed, Templated
      <3> QED BY <3>2, <3>3 DEF CalmInv, StacksHeld, Exists, IsThere
    <2> QED BY <2>1, <2>2
  <1>5. ASSUME NEW r, rec' = [rec EXCEPT ![a] = r],
               Aware(stack, rec', p, m), m.app = a, ~Holding(m), m.pc # "load",
               InCharge(p, m) <=> r.status = "Progressing",
               \A i \in Ids : IsThere(stack, i) /\ stack[i].app = a => r.sid = i
        PROVE  CalmInv'
    BY <1>2, <1>3, <1>5, RewritesCalm
  <1>6. CASE /\ l.pc = "setWrite"
             /\ rec' = [rec EXCEPT ![a] = Merge(@,
                  IF l.task = "Record" THEN [l.snap EXCEPT !.sid = l.id, !.tmpl = l.want]
                                       ELSE [l.snap EXCEPT !.status = l.task])]
             /\ \/ l.task = "Record" /\ Goes(l, m, l.ok)
                \/ l.task = "Progressing" /\ Inside(l, m, "listAdd")
                \/ l.task \in {"Ready", "Failed"} /\ Inside(l, m, "listRead")
    <2>1. l.snap = rec[a] /\ l.task \in {"Record", "Progressing", "Ready", "Failed"}
      BY <1>1, <1>6 DEF Aware, TaskMatches
    <2> DEFINE new == IF l.task = "Record" THEN [l.snap EXCEPT !.sid = l.id, !.tmpl = l.want]
                                           ELSE [l.snap EXCEPT !.status = l.task]
               r == Merge(rec[a], new)
    <2>2. rec' = [rec EXCEPT ![a] = r]
      BY <1>6
    <2>3. /\ new \in Records
          /\ new.sid = IF l.task = "Record" THEN l.id ELSE rec[a].sid
          /\ new.status = IF l.task = "Record" THEN rec[a].status ELSE l.task
      <3>1. CASE l.task = "Record"
        <4>1. l.id \in Ids /\ l.want \in Tmpls
          BY <1>1, <3>1 DEF Knows, Locals
        <4> QED BY <1>2, <2>1, <3>1, <4>1 DEF Records
      <3>2. CASE l.task # "Record"
        BY <1>2, <2>1, <3>2 DEF Records, RecStatuses
      <3> QED BY <3>1, <3>2
    <2> HIDE DEF new
    <2>4. /\ r.sid = IF l.task = "Record" THEN l.id ELSE rec[a].sid
          /\ r.status = IF l.task = "Record" THEN rec[a].status ELSE l.task
      <3>1. l.task = "Record" => l.id # None
        BY <1>1 DEF Knows
      <3>2. l.task # "Record" => l.task # None
        BY <2>1, RecordAssumption DEF RecStatuses
      <3> QED BY <1>2, <2>3, <3>1, <3>2, MergeRecords
    <2> HIDE DEF r
    <2>5. rec'[a] = r
      BY <1>2, <2>2, InvFacts
    <2>6. /\ Aware(stack, rec', p, m) /\ m.app = a /\ ~Holding(m) /\ m.pc # "load"
          /\ InCharge(p, m) <=> r.status = "Progressing"
          /\ \A i \in Ids : IsThere(stack, i) /\ stack[i].app = a => r.sid = i
      <3> HIDE DEF l
      <3> USE DEF Aware, InPlace, InCharge, Claims, Claimed, Templated, Holding, ToReport,
                  Reaches, Same, TaskMatches, Reporting, Inside, Goes
      <3>1. CASE l.task = "Record"
        <4>1. p = Worker /\ l.ok = "cuProgressing" /\ Reaches(l, m, "cuProgressing")
          BY <1>1, <1>6, <3>1
        <4>2. l.id # None
          BY <1>1, <3>1 DEF Knows
        <4> QED BY <1>1, <1>6, <2>1, <2>4, <2>5, <3>1, <4>1, <4>2
      <3>2. CASE l.task = "Progressing"
        <4>1. p = Worker /\ l.ok = "spawn"
          BY <1>1, <1>6, <3>2
        <4> QED BY <1>1, <1>4, <1>6, <2>1, <2>4, <2>5, <3>2, <4>1
      <3>3. CASE l.task \in {"Ready", "Failed"} /\ p = Worker
        BY <1>1, <1>4, <1>6, <2>1, <2>4, <2>5, <3>3
      <3>4. CASE l.task \in {"Ready", "Failed"} /\ p # Worker
        BY <1>1, <1>4, <1>6, <2>1, <2>4, <2>5, <3>4
      <3> QED BY <2>1, <3>1, <3>2, <3>3, <3>4
    <2> QED BY <1>5, <2>2, <2>6
  <1>7. CASE /\ l.pc = "nameOutputs" /\ Reaches(l, m, "ready")
             /\ rec' \in {rec, [rec EXCEPT ![a].outs = l.snap.outs]}
    <2>1. PICK r : /\ rec' = [rec EXCEPT ![a] = r]
                   /\ r.status = rec[a].status /\ r.sid = rec[a].sid
      <3> DEFINE v == [rec[a] EXCEPT !.outs = l.snap.outs]
      <3>1. v.status = rec[a].status /\ v.sid = rec[a].sid
        BY <1>2 DEF Records
      <3>2. rec' = [rec EXCEPT ![a] = rec[a]] \/ rec' = [rec EXCEPT ![a] = v]
        BY <1>1, <1>7
      <3> HIDE DEF v
      <3> QED BY <3>1, <3>2
    <2>2. rec'[a] = r
      BY <1>1, <1>2, <2>1
    <2>3. /\ Aware(stack, rec', p, m) /\ m.app = a /\ ~Holding(m) /\ m.pc # "load"
          /\ InCharge(p, m) <=> r.status = "Progressing"
      <3> HIDE DEF l
      <3> QED BY <1>1, <1>7, <2>1, <2>2 DEF Aware, InPlace, InCharge, Claims, Claimed,
            Templated, Holding, ToReport, Reaches, Same, TaskMatches, Reporting
    <2>4. ~Holding(l)
      BY <1>1, <1>7 DEF Holding, TaskMatches
    <2> QED BY <1>4, <1>5, <2>1, <2>3, <2>4
  <1>8. CASE /\ l.pc = "dropRecord" /\ Inside(l, m, "listRead")
             /\ rec' = [rec EXCEPT ![a] = NoRecord]
    <2>1. rec'[a] = NoRecord /\ NoRecord.status = None /\ "Progressing" # None
      BY <1>1, <1>2, <1>8, RecordAssumption DEF NoRecord, RecStatuses
    <2>2. ~Holding(l) /\ ~ \E i \in Ids : IsThere(stack, i) /\ stack[i].app = a
      <3>1. l.id = rec[a].sid /\ ~IsThere(stack, l.id) /\ ~Holding(l)
        BY <1>1, <1>8 DEF Aware, InCharge, Reporting, Holding, TaskMatches
      <3> QED BY <1>4, <3>1
    <2>3. /\ Aware(stack, rec', p, m) /\ m.app = a /\ ~Holding(m) /\ m.pc # "load"
          /\ ~InCharge(p, m)
      <3> HIDE DEF l
      <3> QED BY <1>1, <1>8 DEF Aware, InPlace, InCharge, Claims, Claimed,
            Templated, Holding, ToReport, Reaches, Same, TaskMatches, Reporting, Inside
    <2> HIDE DEF NoRecord
    <2> QED BY <1>5, <1>8, <2>1, <2>2, <2>3
  <1> QED BY <1>6, <1>7, <1>8, CalmFacts DEF WriteFlow

-----------------------------------------------------------------------------
(* The service.                                                            *)

(* The requests for an existing stack, and the service itself, give birth  *)
(* to none.                                                                *)
LEMMA NobodyIsBorn ==
  ASSUME IInv, Calm, NoneFailed, NEW i \in Ids,
         StackDeleted(i) \/ StackMoves(i) \/ \E t \in Tmpls : StackUpdated(i, t)
  PROVE  NoBirth /\ NoneFailed'
  <1>0. stack \in [Ids -> Stacks] /\ stack[i] \in Stacks
    BY InvFacts DEF RosTypeOK
  <1>1. ASSUME NEW v, stack' = [stack EXCEPT ![i] = v], v.app = stack[i].app,
               v.status # "DELETE_FAILED", IsThere(stack, i) \/ v.status = "DELETE_COMPLETE"
        PROVE  NoBirth /\ NoneFailed'
    BY <1>0, <1>1 DEF NoBirth, NoneFailed, IsThere
  <1>2. CASE StackDeleted(i)
    <2> DEFINE v == [stack[i] EXCEPT !.status = "DELETE_IN_PROGRESS"]
    <2>1. v.app = stack[i].app /\ v.status = "DELETE_IN_PROGRESS"
      BY <1>0 DEF Stacks
    <2>2. stack' = [stack EXCEPT ![i] = v]
      BY <1>2 DEF StackDeleted
    <2> HIDE DEF v
    <2> QED BY <1>1, <1>2, <2>1, <2>2 DEF StackDeleted, Exists, IsThere
  <1>3. ASSUME NEW t \in Tmpls, StackUpdated(i, t)
        PROVE  NoBirth /\ NoneFailed'
    <2> DEFINE v == [stack[i] EXCEPT !.status = "UPDATE_IN_PROGRESS", !.tmpl = t,
                                     !.prev = stack[i].tmpl]
    <2>1. v.app = stack[i].app /\ v.status = "UPDATE_IN_PROGRESS"
      BY <1>0 DEF Stacks
    <2>2. stack' = [stack EXCEPT ![i] = v]
      BY <1>3 DEF StackUpdated
    <2> HIDE DEF v
    <2> QED BY <1>1, <1>3, <2>1, <2>2 DEF StackUpdated, Exists, IsThere
  <1>4. CASE StackMoves(i)
    <2>1. PICK m \in Moves :
            /\ stack[i].status = m[1]
            /\ stack' = [stack EXCEPT ![i] = [@ EXCEPT !.status = m[2],
                 !.tmpl = IF m[2] = "ROLLBACK_COMPLETE" THEN stack[i].prev ELSE stack[i].tmpl]]
      BY <1>4 DEF StackMoves
    <2> DEFINE t == IF m[2] = "ROLLBACK_COMPLETE" THEN stack[i].prev ELSE stack[i].tmpl
               v == [stack[i] EXCEPT !.status = m[2], !.tmpl = t]
    <2>2. stack' = [stack EXCEPT ![i] = v]
      BY <2>1
    <2> HIDE DEF t
    <2>3. v.app = stack[i].app /\ v.status = m[2]
      BY <1>0 DEF Stacks
    <2>4. m[1] \notin {"ABSENT", "DELETE_COMPLETE"}
      BY RosAssumption DEF ServiceMoves, ConsoleMoves, Deployed, Settled, Succeeded,
         Unsuccessful
    <2>5. m[2] # "DELETE_FAILED"
      BY DEF Calm
    <2> HIDE DEF v
    <2> QED BY <1>1, <2>1, <2>2, <2>3, <2>4, <2>5 DEF IsThere
  <1> QED BY <1>2, <1>3, <1>4

(* The worker's requests: a stack is born only when none of its            *)
(* application is there, and stays in the worker's hand.                   *)
LEMMA RequestCalm ==
  ASSUME IInv, IInv', CalmInv, Next, Calm, NEW m \in Locals,
         proc' = [proc EXCEPT ![Worker] = m], rec' = rec,
         RequestFlow(proc[Worker], m)
  PROVE  CalmInv'
  <1>0. Worker \in Procs /\ proc \in [Procs -> Locals] /\ Worker \notin Watchers
        /\ Watchers \subseteq Procs
    BY InvFacts, DomainAssumption DEF ProcsOK
  <1> DEFINE l == proc[Worker]
  <1>1. /\ l \in Locals /\ Knows(stack, accepted, l) /\ Aware(stack, rec, Worker, l)
        /\ l.pc \notin Unassigned => l.app \in Apps
        /\ TaskMatches(l) /\ TaskMatches(m) /\ NoneFailed
        /\ ~Holding(l) => \A i \in Ids : IsThere(stack, i) => rec[stack[i].app].sid = i
    BY <1>0, Situation
  <1>2. ~Fails
    BY CalmFacts
  <1>3. CASE \/ l.pc = "cuUpdate" /\ StackUpdated(l.id, l.want) /\ Reaches(l, m, "cuRecord")
             \/ l.pc = "delCall" /\ StackDeleted(l.id) /\ Reaches(l, m, "delProgressing")
    <2>1. l.id \in Ids /\ (l.pc = "cuUpdate" => l.want \in Tmpls)
      BY <1>0, <1>1, <1>3 DEF Knows, Templated, Locals
    <2>2. NoBirth /\ NoneFailed'
      BY <1>1, <1>3, <2>1, NobodyIsBorn
    <2>3. /\ Aware(stack', rec', Worker, m)
          /\ ~InCharge(Worker, m) /\ ~InCharge(Worker, l) /\ ~Holding(l) /\ m.pc # "load"
      <3>1. \A i \in Ids : IsThere(stack', i) => IsThere(stack, i) /\ stack'[i].app = stack[i].app
        BY <2>2 DEF NoBirth
      <3>2. rec' = rec /\ l.id # None
        BY <2>1, DomainAssumption
      <3> HIDE DEF l
      <3> USE DEF Aware, InPlace, InCharge, Claims, Claimed, Templated, Holding, ToReport,
                  Reaches, Same, TaskMatches, Reporting
      <3>3. CASE l.pc = "cuUpdate" /\ Reaches(l, m, "cuRecord")
        BY <1>1, <3>1, <3>2, <3>3
      <3>4. CASE l.pc = "delCall" /\ Reaches(l, m, "delProgressing")
        BY <1>1, <3>1, <3>2, <3>4
      <3> QED BY <1>3, <3>3, <3>4
    <2> QED BY <1>0, <2>2, <2>3, KeepsCalm
  <1>4. ASSUME NEW i \in Ids, l.pc = "cuCreate", StackCreated(l.app, l.want, i),
               m.pc = "cuRecord", m.app = l.app, m.id = i
        PROVE  CalmInv'
    <2> DEFINE a == l.app
    <2>1. stack[i].status = "ABSENT" /\ a \in Apps /\ stack \in [Ids -> Stacks]
      BY <1>1, <1>4, InvFacts DEF StackCreated, Unassigned, RosTypeOK
    <2>2. /\ IsThere(stack', i) /\ stack'[i].app = a /\ stack'[i].status # "DELETE_FAILED"
          /\ \A j \in Ids : j # i => stack'[j] = stack[j]
      BY <1>4, <2>1 DEF StackCreated, IsThere
    <2>3. NoneFailed'
      BY <1>1, <2>2 DEF NoneFailed
    (* No goroutine has known the id before. *)
    <2>4. \A q \in Procs : proc[q].id # i
      BY <2>1, InvFacts, DomainAssumption DEF Knows, StacksOwned
    <2>5. /\ \A q \in Procs : proc'[q] = IF q = Worker THEN m ELSE proc[q]
          /\ \A q \in Procs : app(q) = proc[q].app /\ app(q)' = proc'[q].app
          /\ \A q \in Procs : pc(q) = proc[q].pc /\ pc(q)' = proc'[q].pc
      BY <1>0 DEF app, pc
    <2>6. ~InCharge(Worker, l) /\ ~InCharge(Worker, m)
      BY <1>4 DEF InCharge
    <2>7. Aware(stack', rec', Worker, m)
      <3>1. \A j \in Ids : IsThere(stack', j) /\ stack'[j].app = a => j = i
        BY <1>1, <1>4, <2>2 DEF Aware, IsThere
      <3> HIDE DEF l
      <3> QED BY <1>1, <1>4, <3>1 DEF Aware, InPlace, InCharge, Claims, Claimed, Templated,
            ToReport, TaskMatches
    <2>8. \A q \in Procs : Aware(stack', rec', q, proc'[q])
      <3>1. ASSUME NEW q \in Procs, q # Worker
            PROVE  Aware(stack', rec', q, proc[q])
        <4>1. Aware(stack, rec, q, proc[q]) /\ proc[q].id # i
          BY <2>4 DEF CalmInv
        <4>2. proc[q].id \in Ids => stack'[proc[q].id] = stack[proc[q].id]
          BY <2>2, <4>1
        <4>3. proc[q].id # None => proc[q].id \in Ids
          BY LocalFacts
        <4> QED BY <3>1, <4>1, <4>2, <4>3 DEF Aware, IsThere
      <3> QED BY <2>5, <2>7, <3>1
    <2>9. OneInCharge' /\ SomeoneInCharge'
      <3>1. \A q \in Procs : /\ InCharge(q, proc'[q]) <=> InCharge(q, proc[q])
                             /\ InCharge(q, proc[q]) => app(q)' = app(q)
        BY <2>5, <2>6
      <3> QED BY <3>1, HistoryCalm DEF CalmInv, OneInCharge, SomeoneInCharge
    <2>10. StacksHeld'
      <3> SUFFICES ASSUME NEW j \in Ids, IsThere(stack', j)
                   PROVE  /\ stack'[j].app \in Apps
                          /\ \/ rec[stack'[j].app].sid = j
                             \/ Holding(m) /\ m.id = j /\ m.app = stack'[j].app
        BY <1>0, <2>5 DEF StacksHeld, Exists, IsThere
      <3>1. CASE j = i
        BY <1>4, <2>1, <2>2, <3>1 DEF Holding
      <3>2. CASE j # i
        <4>1. IsThere(stack, j) /\ stack'[j] = stack[j]
          BY <2>2, <3>2 DEF IsThere
        <4>2. ~Holding(l)
          BY <1>1, <1>4 DEF Holding, TaskMatches
        <4> QED BY <1>1, <4>1, <4>2 DEF CalmInv, StacksHeld, Exists, IsThere
      <3> QED BY <3>1, <3>2
    <2>11. NothingToRecover'
      BY <1>0, <1>4, <2>5 DEF NothingToRecover
    <2>12. NoneOvertaken'
      BY <2>8, HistoryCalm
    <2> QED BY <2>3, <2>8, <2>9, <2>10, <2>11, <2>12 DEF CalmInv
  <1> QED BY <1>2, <1>3, <1>4 DEF RequestFlow

-----------------------------------------------------------------------------
(* The other steps.                                                        *)

(* A watcher starts: the worker hands it the charge of the application. *)
LEMMA StartCalm ==
  ASSUME IInv, IInv', CalmInv, Calm, Next, StartFlow
  PROVE  CalmInv'
  <1>1. PICK w \in Watchers, m \in Locals : WatcherStarts(w, m)
    BY DEF StartFlow, WatcherStarts
  <1>2. PICK v \in Locals :
          /\ proc' = [proc EXCEPT ![w] = v, ![Worker] = m]
          /\ v.pc = "wait" /\ v.app \in Apps
          /\ \/ /\ pc(Worker) \in {"spawn", "spawnRequeue"} /\ m.pc = "idle"
                /\ v.app = app(Worker) /\ v.id = proc[Worker].id
             \/ pc(Worker) = "recover"
    BY <1>1 DEF WatcherStarts
  <1>0. /\ Worker \in Procs /\ w \in Procs /\ w # Worker /\ proc \in [Procs -> Locals]
        /\ Watchers \subseteq Procs /\ stack' = stack /\ rec' = rec /\ NoBirth /\ NoneFailed'
        /\ \A q \in Procs : Aware(stack, rec, q, proc[q]) /\ Knows(stack, accepted, proc[q])
    BY InvFacts, DomainAssumption, SameRosNoBirth DEF ProcsOK, StartFlow, CalmInv
  <1>3. /\ pc(Worker) \in {"spawn", "spawnRequeue"} /\ m.pc = "idle"
        /\ v.app = app(Worker) /\ v.id = proc[Worker].id
    BY <1>0, <1>2 DEF Aware, InPlace, pc
  <1>4. /\ \A q \in Procs : proc'[q] = IF q = Worker THEN m ELSE IF q = w THEN v ELSE proc[q]
        /\ \A q \in Procs : app(q) = proc[q].app /\ app(q)' = proc'[q].app
        /\ \A q \in Procs : pc(q) = proc[q].pc /\ pc(q)' = proc'[q].pc
        /\ TaskMatches(m) /\ TaskMatches(v)
    <2>1. \A q \in Procs : proc'[q] = IF q = Worker THEN m ELSE IF q = w THEN v ELSE proc[q]
      BY <1>0, <1>2
    <2>2. \A q \in Procs : Knows(stack', accepted', proc'[q])
      BY DEF IInv
    <2> QED BY <1>0, <2>1, <2>2 DEF Knows, app, pc
  <1>5. /\ InCharge(Worker, proc[Worker]) /\ ~InCharge(Worker, m)
        /\ InCharge(w, v) /\ ~InCharge(w, proc[w]) /\ ~Holding(proc[Worker])
    BY <1>0, <1>1, <1>3, <1>4
       DEF InCharge, Reporting, WatcherStarts, Holding, Knows, TaskMatches
  <1>6. \A q \in Procs : Aware(stack', rec', q, proc'[q])
    <2>1. Aware(stack, rec, Worker, m)
      BY <1>3, <1>4 DEF Aware, InPlace, InCharge, Claims, Claimed, Templated, Holding,
         ToReport, TaskMatches
    <2>2. Aware(stack, rec, w, v)
      <3>1. /\ rec[v.app].status = "Progressing" /\ v.id = rec[v.app].sid /\ v.id # None
        BY <1>0, <1>3, <1>4, <1>5 DEF Aware
      <3> QED BY <1>0, <1>2, <3>1 DEF Aware, InPlace, InCharge, Claims, Reporting
    <2> QED BY <1>0, <1>4, <2>1, <2>2
  <1>7. OneInCharge' /\ SomeoneInCharge'
    <2>1. OneInCharge'
      BY <1>0, <1>3, <1>4, <1>5 DEF OneInCharge, CalmInv
    <2>2. SomeoneInCharge'
      BY <1>0, <1>3, <1>4, <1>5, HistoryCalm DEF SomeoneInCharge, CalmInv
    <2> QED BY <2>1, <2>2
  <1>8. StacksHeld'
    BY <1>0, <1>4, <1>5 DEF StacksHeld, CalmInv, Exists
  <1>9. NothingToRecover'
    BY <1>0, <1>3, <1>4 DEF NothingToRecover
  <1>10. NoneOvertaken'
    BY <1>6, HistoryCalm
  <1> QED BY <1>0, <1>6, <1>7, <1>8, <1>9, <1>10 DEF CalmInv

(* Users and the service. *)
LEMMA OutsideCalm ==
  ASSUME IInv, CalmInv, Calm, Next, OutsideFlow
  PROVE  CalmInv'
  <1>1. NoBirth /\ NoneFailed'
    <2>1. CASE UserStep
      BY <2>1, SameRosNoBirth DEF UserStep, CalmInv
    <2>2. CASE RosStep
      BY <2>2, NobodyIsBorn DEF RosStep, CalmInv
    <2> QED BY <2>1, <2>2 DEF OutsideFlow
  <1>2. proc' = proc /\ rec' = rec /\ infos' = infos
    BY DEF OutsideFlow, UserStep, RosStep, SameStore
  <1>3. \A q \in Procs : Aware(stack', rec', q, proc'[q])
    BY <1>1, <1>2, AwareStable DEF CalmInv
  <1>4. OneInCharge' /\ SomeoneInCharge' /\ NothingToRecover' /\ NoneOvertaken'
    BY <1>2, <1>3, HistoryCalm DEF CalmInv, OneInCharge, SomeoneInCharge, NothingToRecover, pc, app
  <1>5. StacksHeld'
    <2>1. \A i \in Ids : Exists(i)' => Exists(i) /\ stack'[i].app = stack[i].app
      BY <1>1 DEF NoBirth, Exists, IsThere
    <2> QED BY <1>2, <2>1 DEF StacksHeld, CalmInv, app
  <1> QED BY <1>1, <1>3, <1>4, <1>5 DEF CalmInv

(* The process does not end: every watcher has a stack. *)
LEMMA NoEnd == ASSUME IInv, CalmInv, Calm PROVE ~Ends
  <1>1. ASSUME NEW w \in Watchers, pc(w) = "wait"
        PROVE  proc[w].id # None
    <2>1. w \in Procs /\ w # Worker
      BY DomainAssumption DEF Procs
    <2> QED BY <1>1, <2>1 DEF CalmInv, Aware, InCharge, Reporting, pc
  <1> QED BY <1>1, CalmFacts DEF Ends

-----------------------------------------------------------------------------
(* CalmInv is inductive, together with IInv. *)

LEMMA FlowsCalm ==
  ASSUME IInv, IInv', CalmInv, Next, Calm, Flows
  PROVE  CalmInv'
  <1>1. PICK p \in Procs, m \in Locals : proc' = [proc EXCEPT ![p] = m] /\ Flow(p, proc[p], m)
    BY DEF Flows
  <1>2. ~FailureFlow(proc[p], m)
    BY CalmFacts DEF FailureFlow
  <1>3. p # Worker => p \in Watchers
    BY DEF Procs
  <1> QED
    BY <1>1, <1>2, <1>3, HandlerCalm, FinalizerCalm, WatcherCalm, ProcedureCalm, RequestCalm,
       WriteCalm, ConflictCalm DEF Flow

LEMMA CalmInvariance ==
  ASSUME Calm
  PROVE  Spec => [](IInv /\ CalmInv)
  <1>1. Init => IInv /\ CalmInv
    <2> SUFFICES ASSUME Init PROVE CalmInv
      BY InitInv
    <2>1. /\ \A q \in Procs : proc[q] = At(IF q = Worker THEN "load" ELSE "idle")
          /\ \A q \in Procs : proc[q].pc = IF q = Worker THEN "load" ELSE "idle"
          /\ \A q \in Procs : proc[q].task = "none"
      BY DEF Init, Booted, At
    <2>2. /\ \A i \in Ids : stack[i].status = "ABSENT"
          /\ \A a \in Apps : rec[a].status = None
          /\ infos = {} /\ Worker \in Procs /\ Worker \notin Watchers /\ Watchers \subseteq Procs
      BY DomainAssumption DEF Init, RosInit, NoStack, NoRecord, Procs
    <2>3. \A q \in Procs : ~InCharge(q, proc[q]) /\ ~Claims(q, proc[q])
      BY <2>1 DEF InCharge, Claims, Claimed, Templated, Reporting
    <2>4. \A q \in Procs : Aware(stack, rec, q, proc[q])
      BY <2>1, <2>3 DEF Aware, InPlace, Holding, ToReport
    <2>5. "Progressing" # None /\ overtaken = {}
      BY RecordAssumption DEF RecStatuses, Init
    <2> QED
      BY <2>1, <2>2, <2>3, <2>4, <2>5 DEF CalmInv, OneInCharge, SomeoneInCharge, StacksHeld,
         NothingToRecover, NoneFailed, NoneOvertaken, Exists, pc
  <1>2. IInv /\ CalmInv /\ [Next]_vars => (IInv /\ CalmInv)'
    <2>1. ASSUME IInv, CalmInv, Next
          PROVE  IInv' /\ CalmInv'
      <3>1. IInv' /\ AllFlows
        BY <2>1, NextInv, NextFlows
      <3> QED BY <2>1, <3>1, FlowsCalm, StartCalm, OutsideCalm, NoEnd DEF AllFlows
    <2>2. ASSUME IInv, CalmInv, UNCHANGED vars
          PROVE  CalmInv'
      BY <2>2 DEF vars, CalmInv, OneInCharge, SomeoneInCharge, StacksHeld, NothingToRecover,
         NoneFailed, NoneOvertaken, Exists, pc, app
    <2> QED BY <2>1, <2>2, StutterInv
  <1> QED BY <1>1, <1>2, PTL DEF Spec

-----------------------------------------------------------------------------
(* No stack is left that nobody will ever update or delete: its id is in   *)
(* the record of its application, or in the worker's hand on the way there *)
(* (appconf.go:113-127), for any users, refusals of ROS and operators.     *)
THEOREM StacksKnown ==
  ASSUME Calm
  PROVE  Spec => []StackKnown
  <1>1. IInv /\ CalmInv => StackKnown
    <2> SUFFICES ASSUME IInv, CalmInv, NEW i \in Ids, Exists(i)
                 PROVE  \/ rec[stack[i].app].sid = i
                        \/ proc[Worker].id = i /\ MidFlight(Worker, stack[i].app)
      BY DEF StackKnown
    <2>1. \/ rec[stack[i].app].sid = i
          \/ Holding(proc[Worker]) /\ proc[Worker].id = i /\ app(Worker) = stack[i].app
      BY DEF CalmInv, StacksHeld
    <2>2. Holding(proc[Worker]) => MidFlight(Worker, app(Worker))
      BY InvFacts DEF Holding, Knows, TaskMatches, MidFlight, pc, app
    <2> QED BY <2>1, <2>2
  <1> QED BY <1>1, CalmInvariance, PTL

(* An application in Progressing has a goroutine that will report the end  *)
(* of the stack its record names (appconf.go:151, 216), so that it is not  *)
(* stuck in CreateOrUpdate (appconf.go:67) or Delete (appconf.go:186),     *)
(* whatever conflicts its writes meet; but for one whose deletion met the  *)
(* conflict behind the write of "Progressing" (appconf.go:222-225).        *)
THEOREM ProgressingIsWatched ==
  ASSUME Calm
  PROVE  Spec => []ProgressingWatched
  <1>1. IInv /\ CalmInv => ProgressingWatched
    <2> SUFFICES ASSUME IInv, CalmInv, NEW a \in Apps \ abandoned,
                        rec[a].status = "Progressing"
                 PROVE  \E p \in Procs : Watches(p, a, rec[a].sid)
      BY DEF ProgressingWatched
    <2>1. PICK p \in Procs : InCharge(p, proc[p]) /\ app(p) = a
      BY DEF CalmInv, SomeoneInCharge
    <2>2. Aware(stack, rec, p, proc[p]) /\ TaskMatches(proc[p])
      BY InvFacts DEF CalmInv, Knows
    <2>3. proc[p].id = rec[a].sid
      BY <2>1, <2>2 DEF Aware, app
    <2>4. Watches(p, a, rec[a].sid)
      BY <2>1, <2>2, <2>3 DEF InCharge, Reporting, Watches, Aware, InPlace, pc, app
    <2> QED BY <2>4
  <1> QED BY <1>1, CalmInvariance, PTL

(* It has only one: CreateOrUpdate skips such an application               *)
(* (appconf.go:67), Delete waits for it (appconf.go:186), and the          *)
(* recovery starts with an empty list.                                     *)
THEOREM OneWatcherEach ==
  ASSUME Calm
  PROVE  Spec => []WatchedOnce
  <1>1. IInv /\ CalmInv => WatchedOnce
    <2> SUFFICES ASSUME IInv, CalmInv, NEW a \in Apps, rec[a].status = "Progressing"
                 PROVE  \A p, q \in Procs : Watches(p, a, rec[a].sid) /\ Watches(q, a, rec[a].sid)
                                              => p = q
      BY DEF WatchedOnce
    <2>1. \A p \in Procs : Watches(p, a, rec[a].sid) => InCharge(p, proc[p]) /\ app(p) = a
      <3> SUFFICES ASSUME NEW p \in Procs, Watches(p, a, rec[a].sid)
                   PROVE  InCharge(p, proc[p]) /\ app(p) = a
        OBVIOUS
      <3>1. Aware(stack, rec, p, proc[p]) /\ TaskMatches(proc[p])
        BY InvFacts DEF CalmInv, Knows
      <3>2. ~Claims(p, proc[p]) /\ app(p) = a
        BY <3>1 DEF Aware, Watches, app
      <3> QED BY <3>1, <3>2 DEF Watches, InCharge, Reporting, Claims, Claimed, Aware,
            InPlace, TaskMatches, pc
    <2> QED BY <2>1 DEF CalmInv, OneInCharge
  <1> QED BY <1>1, CalmInvariance, PTL

(* Nothing is written to a record between the two calls of a set           *)
(* (appstack.go:532-544), so that writing back all that was read loses no  *)
(* update of another goroutine.                                            *)
THEOREM NoUpdateLost ==
  ASSUME Calm
  PROVE  Spec => []NothingOverwritten
  <1>1. CalmInv => NothingOverwritten
    BY DEF CalmInv, Aware, NothingOverwritten, pc, app
  <1> QED BY <1>1, CalmInvariance, PTL

-----------------------------------------------------------------------------
(* Finalizers.                                                             *)

(* When a record is being dropped, its application has no stack any more. *)
LEMMA NoneLeft ==
  ASSUME IInv, CalmInv, NEW p \in Procs,
         proc[p].pc \in {"drop", "delRecord", "dropOutputs", "dropRecord"}
  PROVE  \A i \in Ids : Exists(i) => stack[i].app # proc[p].app
  <1> SUFFICES ASSUME NEW i \in Ids, Exists(i), stack[i].app = proc[p].app
               PROVE  FALSE
    OBVIOUS
  <1>1. /\ Aware(stack, rec, p, proc[p]) /\ Aware(stack, rec, Worker, proc[Worker])
        /\ TaskMatches(proc[Worker]) /\ pc(Worker) = proc[Worker].pc
        /\ app(Worker) = proc[Worker].app
    BY LocalFacts DEF CalmInv, Knows
  <1>2. /\ proc[p].id = rec[proc[p].app].sid /\ ~IsThere(stack, proc[p].id)
        /\ p # Worker => rec[proc[p].app].status = "Progressing"
    BY <1>1 DEF Aware, InPlace, InCharge, Reporting
  <1>3. rec[proc[p].app].sid # i
    BY <1>2 DEF Exists, IsThere
  <1>4. Holding(proc[Worker]) /\ proc[Worker].app = proc[p].app
    BY <1>1, <1>3 DEF CalmInv, StacksHeld
  <1>5. rec[proc[p].app].status # "Progressing" /\ p # Worker
    BY <1>1, <1>4 DEF Aware, Claims, Claimed, Templated, Holding, TaskMatches
  <1> QED BY <1>2, <1>5

(* A goroutine comes to the finalizer after the record, or without one. *)
LEMMA LeavingBegins ==
  ASSUME IInv, CalmInv, Calm, NEW p \in Procs, NEW m \in Locals, Flow(p, proc[p], m),
         Leaving(m)
  PROVE  /\ m.app = proc[p].app
         /\ \/ Leaving(proc[p]) \/ proc[p].pc = "dropRecord"
            \/ p = Worker /\ proc[p].pc = "delStack" /\ rec[proc[p].app].sid = None
  <1> DEFINE l == proc[p]
  <1>1. l.ok \in Returns /\ l.fail \in Returns /\ ~Fails /\ TaskMatches(l)
    BY InvFacts, CalmFacts DEF Knows
  <1> HIDE DEF l
  <1> USE DEF Leaving, InProcedure, Reaches, Same, Inside, Goes, Enters, Returns
  <1>2. CASE HandlerFlow(l, m) /\ p = Worker
    BY <1>2 DEF HandlerFlow, InSuccession, l
  <1>3. CASE FinalizerFlow(l, m)
    BY <1>3 DEF FinalizerFlow
  <1>4. CASE WatcherFlow(l, m)
    BY <1>4 DEF WatcherFlow, l
  <1>5. ~FailureFlow(l, m)
    BY <1>1 DEF FailureFlow
  <1>9. CASE ConflictFlow(l, m) /\ p \in overtaken
    <2>1. l.pc # "setWrite" /\ InPlace(p, l)
      BY <1>9 DEF CalmInv, NoneOvertaken, Aware, pc, l
    <2>2. CASE l.pc \in {"listAdd", "condition"} /\ Goes(l, m, l.fail)
      <3>1. \/ l.fail \in {"requeue", "spawnRequeue"}
            \/ l.pc = "condition" /\ l.fail = l.ok
        <4>1. p # Worker => l.pc = "condition"
          BY <2>1, <2>2 DEF InPlace, Reporting
        <4>2. p = Worker /\ l.pc = "listAdd" => l.task = "Progressing"
          BY <1>1 DEF TaskMatches
        <4> QED BY <2>1, <2>2, <4>1, <4>2 DEF InPlace
      <3>2. CASE l.fail \in {"requeue", "spawnRequeue"}
        BY <2>2, <3>2
      <3>3. CASE l.pc = "condition" /\ l.fail = l.ok
        <4>1. m.pc = l.ok /\ m.app = l.app /\ m.pc \in {"delFinalizer", "wFinalizer"}
          BY <1>1, <2>2, <3>3
        <4>2. Leaving(l)
          BY <3>3, <4>1
        <4> QED BY <4>1, <4>2 DEF l
      <3> QED BY <3>1, <3>2, <3>3 DEF l
    <2> QED BY <1>9, <2>1, <2>2 DEF ConflictFlow
  <1>6. CASE ProcedureFlow(l, m)
    BY <1>1, <1>6 DEF ProcedureFlow, l
  <1>7. CASE RequestFlow(l, m)
    BY <1>7 DEF RequestFlow
  <1>8. CASE WriteFlow(l, m)
    BY <1>1, <1>8 DEF WriteFlow, l
  <1> QED BY <1>2, <1>3, <1>4, <1>5, <1>6, <1>7, <1>8, <1>9 DEF Flow, l

(* The worker comes to its request to ROS after the finalizer, or from a   *)
(* request for a stack that is no more.                                    *)
LEMMA RequestBegins ==
  ASSUME IInv, NEW m \in Locals, Flow(Worker, proc[Worker], m),
         m.pc \in {"cuCreate", "cuUpdate"}
  PROVE  /\ m.app = proc[Worker].app
         /\ \/ proc[Worker].pc = "cuUpdate"
            \/ proc[Worker].pc = "cuFinalizer" /\ AddCleanUpFinalizer(m.app)
  <1> DEFINE l == proc[Worker]
  <1>1. l.ok \in Returns /\ l.fail \in Returns
    BY InvFacts DEF Knows
  <1> HIDE DEF l
  <1> USE DEF Reaches, Same, Inside, Goes, Enters, Returns
  <1>2. CASE HandlerFlow(l, m)
    BY <1>2 DEF HandlerFlow, InSuccession, l
  <1>3. CASE FinalizerFlow(l, m)
    BY <1>3 DEF FinalizerFlow, l
  <1>4. CASE FailureFlow(l, m) \/ ConflictFlow(l, m)
    BY <1>1, <1>4 DEF FailureFlow, ConflictFlow
  <1>5. CASE ProcedureFlow(l, m)
    BY <1>1, <1>5 DEF ProcedureFlow
  <1>6. CASE RequestFlow(l, m)
    BY <1>6 DEF RequestFlow
  <1>7. CASE WriteFlow(l, m)
    BY <1>1, <1>7 DEF WriteFlow
  <1> QED BY <1>2, <1>3, <1>4, <1>5, <1>6, <1>7 DEF Flow, l

(* An object that has the finalizer keeps it, and so stays, until a        *)
(* goroutine at the end of a deletion removes it.                          *)
LEMMA GuardedStays ==
  ASSUME IInv, Next, NEW a \in Apps, Guarded(a)
  PROVE  \/ conf'[a].state \in {"live", "deleting"} /\ conf'[a].fin
         \/ \E p \in Procs : proc[p].pc \in {"delFinalizer", "wFinalizer"} /\ proc[p].app = a
  <1>0. conf \in [Apps -> Confs] /\ conf[a].state \in {"live", "deleting"} /\ conf[a].fin
    BY InvFacts DEF ConfTypeOK, Guarded, Present
  <1> DEFINE Stays == conf'[a].state \in {"live", "deleting"} /\ conf'[a].fin
  <1>1. ASSUME NEW b \in Apps, NEW c, Change(b, c),
               b = a => c.state \in {"live", "deleting"} /\ c.fin
        PROVE  Stays
    BY <1>0, <1>1 DEF Change
  <1>2. CASE KeepsObjects
    BY <1>0, <1>2 DEF KeepsObjects
  <1>3. CASE UserStep
    <2>1. ASSUME NEW b \in Apps, UserCreates(b) PROVE Stays
      <3>1. b # a
        BY <1>0, <2>1 DEF UserCreates
      <3> QED BY <2>1, <3>1, <1>1 DEF UserCreates, UserDoes
    <2>2. ASSUME NEW b \in Apps, UserEdits(b) PROVE Stays
      <3>1. PICK t \in Specs : UserDoes(b, [conf[b] EXCEPT !.spec = t])
        BY <2>2 DEF UserEdits
      <3>2. b = a => /\ [conf[b] EXCEPT !.spec = t].state \in {"live", "deleting"}
                     /\ [conf[b] EXCEPT !.spec = t].fin
        BY <1>0 DEF Confs
      <3> QED BY <3>1, <3>2, <1>1 DEF UserDoes
    <2>3. ASSUME NEW b \in Apps, UserDeletes(b) PROVE Stays
      <3>1. PICK c : /\ c = (IF conf[b].fin THEN [conf[b] EXCEPT !.state = "deleting"]
                                            ELSE GoneConf)
                     /\ Change(b, c)
        BY <2>3 DEF UserDeletes, UserDoes
      <3>2. b = a => c.state = "deleting" /\ c.fin
        BY <1>0, <3>1 DEF Confs
      <3> QED BY <3>1, <3>2, <1>1
    <2>4. CASE InformerResyncs
      BY <1>0, <2>4 DEF InformerResyncs
    <2> QED BY <1>3, <2>1, <2>2, <2>3, <2>4 DEF UserStep
  <1>4. ASSUME NEW p \in Procs, NEW m \in Locals, FinalizerFlow(proc[p], m)
        PROVE  Stays \/ (proc[p].pc \in {"delFinalizer", "wFinalizer"} /\ proc[p].app = a)
    <2>1. CASE proc[p].pc = "cuFinalizer" /\ AddCleanUpFinalizer(proc[p].app)
      <3>1. proc[p].app \in Apps
        BY <2>1, LocalFacts DEF Unassigned
      <3>2. PICK b \in Apps : b = proc[p].app /\ Change(b, [conf[b] EXCEPT !.fin = TRUE])
        BY <2>1, <3>1 DEF AddCleanUpFinalizer
      <3>3. b = a => /\ [conf[b] EXCEPT !.fin = TRUE].state \in {"live", "deleting"}
                     /\ [conf[b] EXCEPT !.fin = TRUE].fin
        BY <1>0 DEF Confs
      <3> QED BY <3>2, <3>3, <1>1
    <2>2. CASE /\ proc[p].pc \in {"delFinalizer", "wFinalizer"}
               /\ RemoveCleanUpFinalizer(proc[p].app)
      <3>1. proc[p].app \in Apps
        BY <2>2, LocalFacts DEF Unassigned
      <3> QED BY <2>2, <3>1, <1>1 DEF RemoveCleanUpFinalizer
    <2> QED BY <1>4, <2>1, <2>2 DEF FinalizerFlow
  <1> QED
    BY <1>2, <1>3, <1>4, NextFlows
       DEF AllFlows, Flows, Flow, StartFlow, OutsideFlow, Ends

(* A stack comes into being by the worker's request only. *)
LEMMA Births ==
  ASSUME IInv, CalmInv, Calm, Next, NEW i \in Ids, IsThere(stack', i)
  PROVE  \/ IsThere(stack, i) /\ stack'[i].app = stack[i].app
         \/ proc[Worker].pc = "cuCreate" /\ stack'[i].app = proc[Worker].app
  <1>0. stack \in [Ids -> Stacks] /\ Knows(stack, accepted, proc[Worker])
        /\ (proc[Worker].id # None => proc[Worker].id \in Ids)
    BY InvFacts DEF RosTypeOK, Knows, Locals
  <1>1. CASE NoBirth
    BY <1>1 DEF NoBirth
  <1>2. ASSUME NEW m \in Locals, RequestFlow(proc[Worker], m)
        PROVE  \/ IsThere(stack, i) /\ stack'[i].app = stack[i].app
               \/ proc[Worker].pc = "cuCreate" /\ stack'[i].app = proc[Worker].app
    <2>1. ASSUME NEW j \in Ids, StackCreated(proc[Worker].app, proc[Worker].want, j),
                 proc[Worker].pc = "cuCreate"
          PROVE  \/ IsThere(stack, i) /\ stack'[i].app = stack[i].app
                 \/ proc[Worker].pc = "cuCreate" /\ stack'[i].app = proc[Worker].app
      BY <1>0, <2>1 DEF StackCreated, IsThere
    <2>2. CASE proc[Worker].pc = "cuUpdate" /\ StackUpdated(proc[Worker].id, proc[Worker].want)
      BY <1>0, <1>1, <2>2, NobodyIsBorn DEF Knows, Templated, CalmInv
    <2>3. CASE proc[Worker].pc = "delCall" /\ StackDeleted(proc[Worker].id)
      BY <1>0, <1>1, <2>3, NobodyIsBorn DEF Knows, CalmInv
    <2> QED BY <1>2, <2>1, <2>2, <2>3 DEF RequestFlow
  <1>3. CASE RosStep
    BY <1>1, <1>3, NobodyIsBorn DEF RosStep, CalmInv
  <1>4. CASE SameRos
    BY <1>1, <1>4, SameRosNoBirth
  <1> QED
    BY <1>2, <1>3, <1>4, NextFlows
       DEF AllFlows, Flows, Flow, StartFlow, OutsideFlow, Ends, UserStep

(* GuardInv is inductive, next to CalmInv and DeletionInv. *)
LEMMA NextGuard ==
  ASSUME IInv, CalmInv, DeletionInv, GuardInv, Next, Calm, ~ReuseNames, NobodyElseDeletes
  PROVE  GuardInv'
  <1>0. /\ Worker \in Procs /\ proc' \in [Procs -> Locals]
        /\ \A q \in Procs : pc(q) = proc[q].pc /\ app(q) = proc[q].app
        /\ \A q \in Procs : proc[q].pc \notin Unassigned => proc[q].app \in Apps
    BY NextInv, LocalFacts, InvFacts DEF IInv, TypeOK, AppStackTypeOK
  <1>1. \A q \in Procs : Leaving(proc[q]) => Dropping(proc[q])
    BY DEF Leaving, Dropping, DropPlaces
  (* The worker does not apply what a goroutine is about to forget. *)
  <1>2. ASSUME NEW q \in Procs, Dropping(proc[q])
        PROVE  ~(proc[Worker].pc \in Applying /\ proc[Worker].app = proc[q].app)
    BY <1>0, <1>2 DEF DeletionInv, Retired
  <1> DEFINE Keeps(a) == conf'[a].state \in {"live", "deleting"} /\ conf'[a].fin
  <1>3. ASSUME NEW a \in Apps, Guarded(a), proc[Worker].pc \in Applying, proc[Worker].app = a
        PROVE  Keeps(a)
    <2>1. ASSUME NEW q \in Procs, proc[q].pc \in {"delFinalizer", "wFinalizer"}
          PROVE  proc[q].app # a
      BY <1>2, <1>3, <2>1 DEF Dropping, DropPlaces
    <2> QED BY <1>3, <2>1, GuardedStays
  <1>4. ASSUME NEW a \in Apps, Guarded(a), NEW i \in Ids, Exists(i), stack[i].app = a
        PROVE  Keeps(a)
    <2>1. ASSUME NEW q \in Procs, proc[q].pc \in {"delFinalizer", "wFinalizer"}
          PROVE  proc[q].app # a
      BY <1>0, <1>4, <2>1 DEF GuardInv, Leaving
    <2> QED BY <1>4, <2>1, GuardedStays
  <1> HIDE DEF Keeps
  <1>5. proc[Worker].pc = "cuCreate" => /\ proc[Worker].app \in Apps
                                        /\ Guarded(proc[Worker].app)
    BY <1>0 DEF GuardInv, Unassigned
  <1>6. ASSUME NEW i \in Ids, IsThere(stack', i)
        PROVE  Keeps(stack'[i].app)
    <2>1. CASE IsThere(stack, i) /\ stack'[i].app = stack[i].app
      <3>1. Exists(i) /\ stack[i].app \in Apps
        BY <2>1 DEF IsThere, Exists, CalmInv, StacksHeld
      <3> QED BY <1>4, <2>1, <3>1 DEF GuardInv, FinalizerGuards, Guarded
    <2>2. CASE proc[Worker].pc = "cuCreate" /\ stack'[i].app = proc[Worker].app
      BY <1>3, <1>5, <2>2 DEF Applying
    <2> QED BY <1>6, <2>1, <2>2, Births
  <1>7. ASSUME proc'[Worker].pc \in {"cuCreate", "cuUpdate"}
        PROVE  Keeps(proc'[Worker].app)
    <2>1. CASE proc[Worker].pc \in {"cuCreate", "cuUpdate"} /\ proc'[Worker].app = proc[Worker].app
      BY <1>0, <1>3, <2>1 DEF GuardInv, Applying, Unassigned
    <2>2. CASE /\ proc'[Worker].app = proc[Worker].app /\ proc[Worker].pc = "cuFinalizer"
               /\ AddCleanUpFinalizer(proc[Worker].app)
      <3>1. PICK a \in Apps : a = proc[Worker].app /\ AddCleanUpFinalizer(a)
        BY <1>0, <2>2 DEF Unassigned
      <3>2. conf \in [Apps -> Confs]
        BY InvFacts DEF ConfTypeOK
      <3>3. conf'[a].state = conf[a].state /\ conf'[a].fin = TRUE /\ Present(a)
        BY <3>1, <3>2 DEF AddCleanUpFinalizer, Change, Confs
      <3> QED BY <2>2, <3>1, <3>3 DEF Keeps, Present
    <2>3. CASE proc'[Worker] = proc[Worker]
      BY <1>7, <2>1, <2>3
    <2>4. CASE Flow(Worker, proc[Worker], proc'[Worker])
      BY <1>0, <1>7, <2>1, <2>2, <2>4, RequestBegins
    <2> QED BY <1>0, <1>7, <2>3, <2>4, NextTurns DEF Turns, Unassigned
  <1>8. ASSUME NEW q \in Procs, Leaving(proc'[q]), NEW i \in Ids, IsThere(stack', i),
               stack'[i].app = proc'[q].app
        PROVE  FALSE
    <2> DEFINE NoStackOf(a) == \A j \in Ids : Exists(j) => stack[j].app # a
    <2>1. /\ proc'[q].app = proc[q].app
          /\ Leaving(proc[q]) \/ proc[q].pc \in {"dropRecord", "delStack"}
          /\ NoStackOf(proc[q].app)
      <3>1. CASE Leaving(proc[q]) /\ proc'[q].app = proc[q].app
        BY <1>0, <3>1 DEF GuardInv
      <3>2. CASE proc[q].pc = "dropRecord" /\ proc'[q].app = proc[q].app
        BY <3>2, NoneLeft
      <3>3. CASE /\ q = Worker /\ proc[q].pc = "delStack" /\ rec[proc[q].app].sid = None
                 /\ proc'[q].app = proc[q].app
        <4>1. ~Holding(proc[q])
          BY <3>3, LocalFacts DEF Knows, TaskMatches, Holding
        <4> QED BY <3>3, <4>1, DomainAssumption DEF CalmInv, StacksHeld
      <3>4. CASE proc'[q] = proc[q]
        BY <1>8, <3>1, <3>4
      <3>5. CASE Flow(q, proc[q], proc'[q])
        <4> HIDE DEF NoStackOf
        <4> QED BY <1>0, <1>8, <3>1, <3>2, <3>3, <3>5, LeavingBegins
      <3> QED BY <1>8, <3>4, <3>5, NextTurns DEF Turns, Leaving, Unassigned, InProcedure
    <2>2. ~(IsThere(stack, i) /\ stack'[i].app = stack[i].app)
      BY <1>8, <2>1 DEF Exists, IsThere
    <2>3. proc[Worker].pc = "cuCreate" /\ proc[Worker].app = proc[q].app
      BY <1>8, <2>1, <2>2, Births
    <2>4. Dropping(proc[q])
      <3>1. q # Worker \/ proc[q].pc # "delStack"
        BY <2>3
      <3>2. q # Worker => proc[q].pc # "delStack"
        BY DEF CalmInv, Aware, InPlace, Reporting
      <3> QED BY <1>1, <2>1, <3>1, <3>2 DEF Dropping, DropPlaces
    <2> QED BY <1>2, <2>3, <2>4 DEF Applying
  <1>9. FinalizerGuards'
    BY <1>6 DEF FinalizerGuards, Exists, IsThere, Present, Keeps
  <1> QED
    BY <1>7, <1>8, <1>9 DEF GuardInv, Guarded, Present, Exists, IsThere, Keeps, pc, app

LEMMA GuardInvariance ==
  ASSUME Calm, ~ReuseNames, NobodyElseDeletes
  PROVE  Spec => []GuardInv
  <1>1. Init => GuardInv
    <2> SUFFICES ASSUME Init PROVE GuardInv
      OBVIOUS
    <2>1. /\ \A q \in Procs : proc[q].pc \in {"load", "idle"}
          /\ \A i \in Ids : stack[i].status = "ABSENT"
          /\ Worker \in Procs
      BY DEF Init, Booted, At, RosInit, NoStack, Procs
    <2> QED BY <2>1 DEF GuardInv, FinalizerGuards, Leaving, InProcedure, Exists, pc
  <1>2. IInv /\ CalmInv /\ DeletionInv /\ GuardInv /\ [Next]_vars => GuardInv'
    <2>1. ASSUME GuardInv, UNCHANGED vars PROVE GuardInv'
      BY <2>1 DEF vars, GuardInv, FinalizerGuards, Guarded, Present, Exists, pc, app
    <2> QED BY <2>1, NextGuard
  <1>3. Spec => [](IInv /\ CalmInv)
    BY CalmInvariance
  <1>4. Spec => [](IInv /\ DeletionInv)
    BY DeletionInvariance
  <1> QED BY <1>1, <1>2, <1>3, <1>4, PTL DEF Spec

(* The object of an application exists and carries the finalizer as long   *)
(* as its stack exists (appconf.go:106, 204, 319), so that it cannot       *)
(* vanish from the cluster before the stack is deleted.                    *)
THEOREM FinalizersGuard ==
  ASSUME Calm, ~ReuseNames, NobodyElseDeletes
  PROVE  Spec => []FinalizerGuards
  <1>1. GuardInv => FinalizerGuards
    BY DEF GuardInv
  <1> QED BY <1>1, GuardInvariance, PTL

-----------------------------------------------------------------------------
(* Ready applications.                                                     *)

(* Nobody uses the console of ROS. *)
NoConsole == Moves \subseteq ServiceMoves

(* The worker is between its request to ROS and the status Progressing. *)
InFlight(l) == Holding(l) \/ ToReport(l)

LEMMA InFlightIsMid ==
  ASSUME IInv, NEW a \in Apps
  PROVE  MidFlight(Worker, a) <=> proc[Worker].app = a /\ InFlight(proc[Worker])
  <1>1. /\ TaskMatches(proc[Worker]) /\ pc(Worker) = proc[Worker].pc
        /\ app(Worker) = proc[Worker].app
    BY InvFacts DEF Knows, pc, app
  <1> QED BY <1>1 DEF MidFlight, InFlight, Holding, ToReport, TaskMatches

(* A goroutine that does not write goes on with what it knows. *)
LEMMA TracksOn ==
  ASSUME IInv, IInv', CalmInv, Calm, NEW p \in Procs, NEW m \in Locals,
         proc' = [proc EXCEPT ![p] = m], Tracks(stack, rec, p, proc[p]),
         \/ HandlerFlow(proc[p], m) /\ p = Worker
         \/ FinalizerFlow(proc[p], m)
         \/ WatcherFlow(proc[p], m) /\ p # Worker
         \/ ProcedureFlow(proc[p], m)
         \/ ConflictFlow(proc[p], m) /\ p \in overtaken
  PROVE  /\ Tracks(stack, rec, p, m)
         /\ p = Worker /\ InFlight(proc[p]) => InFlight(m) /\ m.app = proc[p].app
  <1> DEFINE l == proc[p]
  <1>1. /\ InPlace(p, l) /\ TaskMatches(l) /\ TaskMatches(m) /\ Tracks(stack, rec, p, l)
        /\ ~Fails /\ l.ok \in Returns
        /\ l.pc = "setWrite" => p \notin overtaken
    BY Situation, CalmFacts DEF Aware, Knows, CalmInv, NoneOvertaken, pc
  <1> SUFFICES /\ Tracks(stack, rec, p, m)
               /\ p = Worker /\ InFlight(l) => InFlight(m) /\ m.app = l.app
    OBVIOUS
  <1> HIDE DEF l
  <1> USE DEF InPlace, InCharge, Holding, ToReport, InFlight, HasSeenIt, Reaches, Same, Inside,
              Goes, TaskMatches, Reporting, Tracks
  <1>3. CASE HandlerFlow(l, m) /\ p = Worker
    <2>1. CASE \E t \in {"Record", "Progressing", "Failed", "Delete"}, ok, fail \in Returns :
                 Enters(l, m, t, ok, fail) /\ l.pc \in {"cuError", "delError", "cuRecord",
                   "cuProgressing", "delProgressing", "delRecord"}
      <3>1. /\ Same(l, m) /\ m.pc \in {"setWrite", "dropOutputs", "dropRecord"}
            /\ m.task = "Record" => l.pc = "cuRecord"
            /\ m.task = "Progressing" => l.pc \in {"cuProgressing", "delProgressing"}
            /\ l.pc = "cuRecord" => m.task = "Record" /\ m.pc = "setWrite"
            /\ l.pc \in {"cuProgressing", "delProgressing"} =>
                 m.task = "Progressing" /\ m.pc = "setWrite"
        BY <1>1, <1>3, <2>1 DEF Enters, HandlerFlow, InSuccession
      <3> QED BY <1>1, <1>3, <2>1, <3>1
    <2>2. CASE /\ ~InFlight(l)
               /\ m.pc \in {"idle", "recover", "cuStatus", "delStatus", "cuSame", "cuFailed",
                    "cuError", "cuStack", "delWait", "delError", "cuFinalizer", "cuCreate",
                    "delStack", "delFinalizer", "delCall", "delRecord"}
      BY <1>1, <1>3, <2>2
    <2> QED BY <1>1, <1>3, <2>1, <2>2 DEF HandlerFlow, InSuccession, Enters, Returns
  <1>4. CASE FinalizerFlow(l, m)
    <2>1. /\ m.pc \in {"idle", "cuCreate", "cuUpdate"}
          /\ l.pc \in {"cuFinalizer", "delFinalizer", "wFinalizer"}
      BY <1>4 DEF FinalizerFlow
    <2> QED BY <1>1, <2>1
  <1>5. CASE WatcherFlow(l, m) /\ p # Worker
    <2>1. InCharge(p, l) /\ m.app = l.app /\ m.id = l.id
      BY <1>5 DEF WatcherFlow, Enters
    <2>2. CASE l.pc = "wait"
      <3>1. m.pc = "saveOutputs" => stack[l.id].status \in Deployed
        BY <1>5, <2>2 DEF WatcherFlow, Enters
      <3>2. m.pc \in {"saveOutputs", "failed", "drop"}
        BY <1>5, <2>2 DEF WatcherFlow, Enters
      <3> QED BY <1>1, <1>5, <2>1, <2>2, <3>1, <3>2
    <2>3. CASE l.pc # "wait"
      <3>1. /\ l.pc \in {"ready", "failed", "drop"}
            /\ m.pc \in {"setWrite", "dropOutputs", "dropRecord"}
            /\ m.task = "Ready" => l.pc = "ready"
        BY <1>5, <2>3 DEF WatcherFlow, Enters
      <3> QED BY <1>1, <1>5, <2>1, <2>3, <3>1
    <2> QED BY <2>2, <2>3
  <1>6. CASE ProcedureFlow(l, m)
    <2>1. CASE l.pc \in {"listAdd", "listWrite", "condition"} /\ Goes(l, m, l.ok)
      <3>1. CASE p = Worker /\ l.task = "Progressing"
        BY <1>1, <2>1, <3>1
      <3>2. CASE p = Worker /\ l.task # "Progressing"
        BY <1>1, <2>1, <3>2
      <3>3. CASE p # Worker
        BY <1>1, <2>1, <3>3
      <3> QED BY <3>1, <3>2, <3>3
    <2>2. CASE l.pc \in {"listAdd", "listWrite"} /\ Inside(l, m, "condition")
      BY <1>1, <2>2
    <2>3. CASE l.pc = "listRead" /\ Inside(l, m, "listWrite")
      BY <1>1, <2>3
    <2>4. CASE l.pc = "saveOutputs" /\ Reaches(l, m, "nameOutputs")
      BY <1>1, <2>4
    <2>5. CASE l.pc = "dropOutputs" /\ Inside(l, m, "dropRecord")
      BY <1>1, <2>5
    <2> QED BY <1>6, <2>1, <2>2, <2>3, <2>4, <2>5 DEF ProcedureFlow
  <1>7. CASE ConflictFlow(l, m) /\ p \in overtaken
    <2>1. CASE l.pc \in {"listAdd", "condition"} /\ Goes(l, m, l.fail)
      <3>1. CASE p = Worker /\ l.task = "Progressing"
        BY <1>1, <2>1, <3>1
      <3>2. CASE p = Worker /\ l.task # "Progressing"
        BY <1>1, <2>1, <3>2
      <3>3. CASE p # Worker
        BY <1>1, <2>1, <3>3
      <3> QED BY <3>1, <3>2, <3>3
    <2>2. CASE l.pc \in {"cuFinalizer", "delFinalizer", "wFinalizer"} /\ m.pc = "idle"
      BY <1>1, <2>2
    <2>3. CASE l.pc = "nameOutputs" /\ Reaches(l, m, "ready")
      BY <1>1, <2>3
    <2> QED BY <1>1, <1>7, <2>1, <2>2, <2>3 DEF ConflictFlow
  <1> QED BY <1>3, <1>4, <1>5, <1>6, <1>7 DEF l

(* What a write of goroutine p makes of a record r, and where p goes. *)
Wrote(p, l, m, r, s) ==
  \/ /\ p = Worker /\ l.pc = "setWrite" /\ l.task = "Record"
     /\ m.pc = "cuProgressing" /\ s.tmpl = l.want
  \/ /\ p = Worker /\ l.pc = "setWrite" /\ l.task = "Progressing"
     /\ m.pc = "listAdd" /\ s.status = "Progressing" /\ s.sid = r.sid /\ s.tmpl = r.tmpl
  \/ /\ l.pc = "setWrite" /\ l.task \in {"Ready", "Failed"}
     /\ m.pc = "listRead" /\ m.task # "Progressing"
     /\ s.status = l.task /\ s.sid = r.sid /\ s.tmpl = r.tmpl
  \/ /\ p # Worker /\ l.pc = "nameOutputs" /\ m.pc = "ready"
     /\ s.status = r.status /\ s.sid = r.sid /\ s.tmpl = r.tmpl
  \/ /\ l.pc = "dropRecord" /\ m.pc = "listRead" /\ m.task = "Delete"
     /\ s = NoRecord /\ s.sid = None

LEMMA CalmWrites ==
  ASSUME IInv, IInv', CalmInv, Calm, NEW p \in Procs, NEW m \in Locals,
         proc' = [proc EXCEPT ![p] = m], WriteFlow(proc[p], m)
  PROVE  /\ InCharge(p, proc[p]) \/ Claims(p, proc[p])
         /\ proc[p].app \in Apps /\ m.app = proc[p].app /\ m.id = proc[p].id
         /\ \A b \in Apps : b # m.app => rec'[b] = rec[b]
         /\ Wrote(p, proc[p], m, rec[m.app], rec'[m.app])
  <1> DEFINE l == proc[p]
             a == l.app
  <1>1. /\ l \in Locals /\ Knows(stack, accepted, l) /\ Aware(stack, rec, p, l)
        /\ TaskMatches(l) /\ rec \in [Apps -> Records] /\ ~Fails
        /\ (l.pc \notin Unassigned => l.app \in Apps)
    BY Situation, InvFacts, CalmFacts
  <1>2. l.pc \in {"setWrite", "nameOutputs", "dropRecord"} /\ a \in Apps /\ rec[a] \in Records
    BY <1>1 DEF WriteFlow, Unassigned
  <1>3. InCharge(p, l) \/ Claims(p, l)
    BY <1>1, <1>2 DEF InCharge, Claims, Claimed, Reporting, Aware, InPlace
  <1>4. CASE /\ l.pc = "setWrite"
             /\ rec' = [rec EXCEPT ![a] = Merge(@,
                  IF l.task = "Record" THEN [l.snap EXCEPT !.sid = l.id, !.tmpl = l.want]
                                       ELSE [l.snap EXCEPT !.status = l.task])]
             /\ \/ l.task = "Record" /\ Goes(l, m, l.ok)
                \/ l.task = "Progressing" /\ Inside(l, m, "listAdd")
                \/ l.task \in {"Ready", "Failed"} /\ Inside(l, m, "listRead")
    <2>1. l.snap = rec[a] /\ l.task \in {"Record", "Progressing", "Ready", "Failed"}
      BY <1>1, <1>4 DEF Aware, TaskMatches
    <2> DEFINE new == IF l.task = "Record" THEN [l.snap EXCEPT !.sid = l.id, !.tmpl = l.want]
                                           ELSE [l.snap EXCEPT !.status = l.task]
               r == Merge(rec[a], new)
    <2>2. rec' = [rec EXCEPT ![a] = r]
      BY <1>4
    <2>3. /\ new \in Records
          /\ l.task = "Record" => new.tmpl = l.want /\ l.want # None
          /\ l.task # "Record" => /\ new.sid = rec[a].sid /\ new.tmpl = rec[a].tmpl
                                  /\ new.status = l.task /\ l.task # None
      <3>1. CASE l.task = "Record"
        <4>1. l.id \in Ids /\ l.want \in Tmpls /\ l.want # None
          BY <1>1, <3>1, DomainAssumption DEF Knows, Locals
        <4> QED BY <1>2, <2>1, <3>1, <4>1 DEF Records
      <3>2. CASE l.task # "Record"
        BY <1>2, <2>1, <3>2, RecordAssumption DEF Records, RecStatuses
      <3> QED BY <3>1, <3>2
    <2> HIDE DEF new
    <2>4. /\ l.task = "Record" => r.tmpl = l.want
          /\ l.task # "Record" => /\ r.sid = rec[a].sid /\ r.tmpl = rec[a].tmpl
                                  /\ r.status = l.task
      BY <1>2, <2>3, MergeRecords
    <2> HIDE DEF r
    <2>5. rec'[a] = r /\ \A b \in Apps : b # a => rec'[b] = rec[b]
      BY <1>1, <1>2, <2>2
    <2>6. CASE l.task = "Record"
      <3>1. p = Worker /\ m.pc = "cuProgressing" /\ m.app = a /\ m.id = l.id
        BY <1>1, <1>4, <2>6 DEF Aware, InPlace, Goes, Reaches, Same
      <3> QED BY <1>2, <1>3, <1>4, <2>4, <2>5, <2>6, <3>1 DEF Wrote
    <2>7. CASE l.task = "Progressing"
      <3>1. p = Worker /\ m.pc = "listAdd" /\ m.app = a /\ m.id = l.id
        BY <1>1, <1>4, <2>7 DEF Aware, InPlace, Inside, Reaches, Same
      <3> QED BY <1>2, <1>3, <1>4, <2>4, <2>5, <2>7, <3>1 DEF Wrote
    <2>8. CASE l.task \in {"Ready", "Failed"}
      <3>1. m.pc = "listRead" /\ m.app = a /\ m.id = l.id /\ m.task = l.task
        BY <1>4, <2>8 DEF Inside, Reaches, Same
      <3> QED BY <1>2, <1>3, <1>4, <2>4, <2>5, <2>8, <3>1 DEF Wrote
    <2> QED BY <2>1, <2>6, <2>7, <2>8
  <1>5. CASE /\ l.pc = "nameOutputs" /\ Reaches(l, m, "ready")
             /\ rec' \in {rec, [rec EXCEPT ![a].outs = l.snap.outs]}
    <2>1. /\ rec'[a].status = rec[a].status /\ rec'[a].sid = rec[a].sid
          /\ rec'[a].tmpl = rec[a].tmpl /\ \A b \in Apps : b # a => rec'[b] = rec[b]
      BY <1>1, <1>2, <1>5 DEF Records
    <2>2. p # Worker /\ m.pc = "ready" /\ m.app = a /\ m.id = l.id
      BY <1>1, <1>5 DEF Aware, InPlace, Reaches, Same
    <2> QED BY <1>2, <1>3, <1>5, <2>1, <2>2 DEF Wrote
  <1>6. CASE /\ l.pc = "dropRecord" /\ Inside(l, m, "listRead")
             /\ rec' = [rec EXCEPT ![a] = NoRecord]
    <2>1. rec'[a] = NoRecord /\ rec'[a].sid = None /\ \A b \in Apps : b # a => rec'[b] = rec[b]
      BY <1>1, <1>2, <1>6 DEF NoRecord
    <2>2. m.pc = "listRead" /\ m.app = a /\ m.id = l.id /\ m.task = "Delete"
      BY <1>1, <1>6 DEF Inside, Reaches, Same, TaskMatches
    <2> QED BY <1>2, <1>3, <1>6, <2>1, <2>2 DEF Wrote
  <1> QED BY <1>1, <1>4, <1>5, <1>6 DEF WriteFlow

(* An application stays Ready with its stack, while nothing happens to it. *)
LEMMA ReadyStays ==
  ASSUME IInv, IInv', ReadyInv,
         \A b \in Apps :
           /\ rec'[b].status = "Ready" /\ rec'[b].sid # None
           /\ ~(proc'[Worker].app = b /\ InFlight(proc'[Worker]))
           => \/ /\ rec[b].status = "Ready" /\ rec'[b].sid = rec[b].sid
                 /\ rec'[b].tmpl = rec[b].tmpl
                 /\ ~(proc[Worker].app = b /\ InFlight(proc[Worker]))
                 /\ \/ stack'[rec[b].sid] = stack[rec[b].sid]
                    \/ stack[rec[b].sid].status \notin Deployed
              \/ /\ stack'[rec'[b].sid].status \in Deployed
                 /\ stack'[rec'[b].sid].tmpl = rec'[b].tmpl
  PROVE  ReadyMeansDeployed'
  <1>1. \A b \in Apps : MidFlight(Worker, b)' <=> proc'[Worker].app = b /\ InFlight(proc'[Worker])
    <2>1. TaskMatches(proc'[Worker])
      BY InvFacts DEF IInv, Knows
    <2> QED BY <2>1 DEF MidFlight, InFlight, Holding, ToReport, TaskMatches, pc, app
  <1>2. \A b \in Apps : MidFlight(Worker, b) <=> proc[Worker].app = b /\ InFlight(proc[Worker])
    BY InFlightIsMid
  <1> HIDE DEF InFlight
  <1> QED BY <1>1, <1>2 DEF ReadyMeansDeployed, ReadyInv

(* One goroutine goes on, without a write. *)
LEMMA FlowReady ==
  ASSUME IInv, IInv', CalmInv, ReadyInv, Calm, NEW p \in Procs, NEW m \in Locals,
         proc' = [proc EXCEPT ![p] = m], SameRos, rec' = rec,
         \/ HandlerFlow(proc[p], m) /\ p = Worker
         \/ FinalizerFlow(proc[p], m)
         \/ WatcherFlow(proc[p], m) /\ p # Worker
         \/ ProcedureFlow(proc[p], m)
         \/ ConflictFlow(proc[p], m) /\ p \in overtaken
  PROVE  ReadyInv'
  <1>0. /\ \A q \in Procs : proc'[q] = IF q = p THEN m ELSE proc[q]
        /\ \A q \in Procs : Tracks(stack, rec, q, proc[q])
        /\ stack' = stack /\ Worker \in Procs
    BY InvFacts, SameRosNoBirth DEF ProcsOK, ReadyInv
  <1>1. /\ Tracks(stack, rec, p, m)
        /\ p = Worker /\ InFlight(proc[p]) => InFlight(m) /\ m.app = proc[p].app
    BY <1>0, TracksOn
  <1>2. ReadyMeansDeployed'
    <2>1. proc[Worker].app \in Apps /\ InFlight(proc[Worker]) =>
            InFlight(proc'[Worker]) /\ proc'[Worker].app = proc[Worker].app
      BY <1>0, <1>1
    <2> HIDE DEF InFlight
    <2> QED BY <1>0, <2>1, ReadyStays
  <1> QED BY <1>0, <1>1, <1>2 DEF ReadyInv

(* One goroutine writes: nobody else relies on what the record said. *)
LEMMA WriteReady ==
  ASSUME IInv, IInv', CalmInv, ReadyInv, Calm, NEW p \in Procs, NEW m \in Locals,
         proc' = [proc EXCEPT ![p] = m], SameRos, WriteFlow(proc[p], m)
  PROVE  ReadyInv'
  <1> DEFINE l == proc[p]
             r == rec[m.app]
             s == rec'[m.app]
  <1>0. /\ \A q \in Procs : proc'[q] = IF q = p THEN m ELSE proc[q]
        /\ \A q \in Procs : Tracks(stack, rec, q, proc[q]) /\ Aware(stack, rec, q, proc[q])
        /\ \A q \in Procs : app(q) = proc[q].app
        /\ stack' = stack /\ Worker \in Procs /\ TaskMatches(l) /\ TaskMatches(m)
    BY InvFacts, Situation, SameRosNoBirth DEF ProcsOK, ReadyInv, CalmInv, app
  <1>1. /\ InCharge(p, l) \/ Claims(p, l)
        /\ l.app \in Apps /\ m.app = l.app /\ m.id = l.id
        /\ \A b \in Apps : b # m.app => rec'[b] = rec[b]
        /\ Wrote(p, l, m, r, s)
    BY CalmWrites
  <1> USE DEF Wrote
  (* The others. *)
  <1>2. ASSUME NEW q \in Procs, q # p
        PROVE  Tracks(stack, rec', q, proc[q])
    <2>1. CASE proc[q].app = m.app
      <3>1. InCharge(q, proc[q]) => /\ rec[m.app].status = "Progressing" /\ ~InCharge(p, l)
        BY <1>0, <1>1, <1>2, <2>1 DEF Aware, CalmInv, OneInCharge
      <3>2. ~InCharge(q, proc[q])
        BY <1>0, <1>1, <3>1 DEF Aware
      <3>3. q = Worker => ~ToReport(proc[q])
        <4>1. q = Worker => InCharge(p, l) /\ rec[m.app].status = "Progressing"
          BY <1>0, <1>1, <1>2 DEF Claims, Aware
        <4>2. q = Worker /\ ToReport(proc[q]) => rec[m.app].status # "Progressing"
          BY <1>0, <2>1 DEF Aware, Claims, Claimed, ToReport
        <4> QED BY <4>1, <4>2
      <3> QED BY <1>0, <3>2, <3>3 DEF Tracks
    <2>2. CASE proc[q].app # m.app
      <3>1. CASE proc[q].app \in Apps
        BY <1>0, <1>1, <2>2, <3>1 DEF Tracks
      <3>2. CASE proc[q].app \notin Apps
        <4>1. proc[q].pc \in Unassigned /\ TaskMatches(proc[q])
          BY <3>2, LocalFacts, InvFacts DEF Knows
        <4> QED BY <1>0, <4>1 DEF Tracks, Unassigned, InCharge, Reporting, ToReport, HasSeenIt,
              Holding, TaskMatches
      <3> QED BY <3>1, <3>2
    <2> QED BY <2>1, <2>2
  (* The writer itself. *)
  <1>3. /\ InCharge(p, l) \/ (p = Worker /\ ToReport(l)) => Follows(stack, l.id, r.tmpl)
        /\ p = Worker /\ Holding(l) => Follows(stack, l.id, l.want)
        /\ HasSeenIt(p, l) => stack[l.id].status \in Deployed
        /\ InCharge(p, l) => r.status = "Progressing" /\ l.id = r.sid /\ l.id # None
    BY <1>0, <1>1 DEF Tracks, Aware
  <1>4. rec'[m.app] = s
    OBVIOUS
  <1>5. Tracks(stack, rec', p, m)
    <2> HIDE DEF l, r, s
    <2> QED BY <1>0, <1>1, <1>3, <1>4 DEF Tracks, InCharge, Reporting, ToReport, Holding,
          HasSeenIt, TaskMatches
  <1>6. ReadyMeansDeployed'
    <2>1. ASSUME s.status = "Ready", s.sid # None,
                 ~(proc'[Worker].app = m.app /\ InFlight(proc'[Worker]))
          PROVE  stack[s.sid].status \in Deployed /\ stack[s.sid].tmpl = s.tmpl
      <3>1. CASE p = Worker /\ m.pc = "cuProgressing"
        BY <1>0, <2>1, <3>1 DEF InFlight, ToReport
      <3>2. CASE /\ l.pc = "setWrite" /\ l.task = "Ready" /\ s.sid = r.sid /\ s.tmpl = r.tmpl
        <4>1. p # Worker /\ InCharge(p, l) /\ HasSeenIt(p, l)
          BY <1>0, <3>2 DEF Aware, InPlace, InCharge, Reporting, HasSeenIt
        <4> QED BY <1>3, <3>2, <4>1 DEF Follows, Deployed, InDelete
      <3>3. CASE p # Worker /\ l.pc = "nameOutputs" /\ s.status = r.status
        BY <1>3, <2>1, <3>3 DEF InCharge, Reporting
      <3> QED BY <1>1, <2>1, <3>1, <3>2, <3>3
    <2>2. ASSUME NEW b \in Apps, b # m.app
          PROVE  /\ rec'[b] = rec[b]
                 /\ proc[Worker].app = b => proc'[Worker] = proc[Worker]
      BY <1>0, <1>1, <2>2
    <2> HIDE DEF InFlight, s, r, l
    <2> QED BY <1>0, <1>4, <2>1, <2>2, ReadyStays
  <1> QED BY <1>0, <1>2, <1>5, <1>6 DEF ReadyInv

(* By itself, a stack does not leave what has completed, and it changes    *)
(* its template only to be given up.                                       *)
LEMMA StackDrifts ==
  ASSUME IInv, NoConsole, RosStep, NEW i \in Ids
  PROVE  \/ stack'[i] = stack[i]
         \/ /\ stack[i].status \notin Deployed
            /\ \A t : Follows(stack, i, t) => Follows(stack', i, t)
  <1>0. stack \in [Ids -> Stacks]
    BY InvFacts DEF RosTypeOK
  <1>1. PICK j \in Ids, v \in Moves :
          /\ stack[j].status = v[1]
          /\ stack' = [stack EXCEPT ![j] = [@ EXCEPT !.status = v[2],
               !.tmpl = IF v[2] = "ROLLBACK_COMPLETE" THEN stack[j].prev ELSE stack[j].tmpl]]
    BY DEF RosStep, StackMoves
  <1> DEFINE t == IF v[2] = "ROLLBACK_COMPLETE" THEN stack[j].prev ELSE stack[j].tmpl
             w == [stack[j] EXCEPT !.status = v[2], !.tmpl = t]
  <1>2. stack' = [stack EXCEPT ![j] = w]
    BY <1>1
  <1>3. /\ w.status = v[2]
        /\ v[2] # "ROLLBACK_COMPLETE" => w.tmpl = stack[j].tmpl
    BY <1>0 DEF Stacks
  <1> HIDE DEF t, w
  <1>4. /\ v[1] \notin Deployed \cup {"ROLLBACK_COMPLETE"}
        /\ v[1] \in InDelete => v[2] \in InDelete
    BY DEF NoConsole, ServiceMoves, Deployed, InDelete
  <1>5. stack'[i] = IF i = j THEN w ELSE stack[i]
    BY <1>0, <1>2
  <1> QED BY <1>1, <1>3, <1>4, <1>5 DEF Follows

(* Users and the service. *)
LEMMA OutsideReady ==
  ASSUME IInv, IInv', CalmInv, ReadyInv, NoConsole, OutsideFlow
  PROVE  ReadyInv'
  <1>0. /\ proc' = proc /\ rec' = rec /\ rec \in [Apps -> Records]
        /\ \A q \in Procs : Tracks(stack, rec, q, proc[q]) /\ Aware(stack, rec, q, proc[q])
        /\ \A q \in Procs : TaskMatches(proc[q]) /\ (proc[q].id # None => proc[q].id \in Ids)
        /\ \A q \in Procs : app(q) = proc[q].app
    BY InvFacts DEF OutsideFlow, ReadyInv, CalmInv, Knows, Locals, app
  <1>1. ASSUME NEW i \in Ids
        PROVE  \/ stack'[i] = stack[i]
               \/ /\ stack[i].status \notin Deployed
                  /\ \A t : Follows(stack, i, t) => Follows(stack', i, t)
    BY StackDrifts DEF OutsideFlow, UserStep, SameRos, rosVars
  <1>2. ASSUME NEW q \in Procs
        PROVE  Tracks(stack', rec', q, proc'[q])
    <2>1. InCharge(q, proc[q]) \/ (q = Worker /\ ToReport(proc[q])) \/ HasSeenIt(q, proc[q])
            \/ (q = Worker /\ Holding(proc[q])) => proc[q].id \in Ids
      <3>1. HasSeenIt(q, proc[q]) => InCharge(q, proc[q])
        BY DEF HasSeenIt, InCharge, Reporting
      <3>2. Holding(proc[q]) => proc[q].id # None
        BY InvFacts DEF Knows, Holding
      <3> QED BY <1>0, <3>1, <3>2 DEF Aware
    <2>2. proc[q].id \in Ids =>
            /\ \A t : Follows(stack, proc[q].id, t) => Follows(stack', proc[q].id, t)
            /\ stack[proc[q].id].status \in Deployed => stack'[proc[q].id].status \in Deployed
      BY <1>1 DEF Follows
    <2> QED BY <1>0, <2>1, <2>2 DEF Tracks
  <1>3. ReadyMeansDeployed'
    <2>1. ASSUME NEW b \in Apps, rec[b].sid # None
          PROVE  \/ stack'[rec[b].sid] = stack[rec[b].sid]
                 \/ stack[rec[b].sid].status \notin Deployed
      <3>1. rec[b].sid \in Ids
        BY <1>0, <2>1 DEF Records
      <3> QED BY <1>1, <3>1
    <2> HIDE DEF InFlight
    <2> QED BY <1>0, <2>1, ReadyStays
  <1> QED BY <1>0, <1>2, <1>3 DEF ReadyInv

(* A watcher starts, and knows what the worker has known. *)
LEMMA StartReady ==
  ASSUME IInv, IInv', CalmInv, ReadyInv, StartFlow
  PROVE  ReadyInv'
  <1>1. PICK w \in Watchers, m \in Locals : WatcherStarts(w, m)
    BY DEF StartFlow, WatcherStarts
  <1>2. PICK v \in Locals :
          /\ proc' = [proc EXCEPT ![w] = v, ![Worker] = m]
          /\ v.pc = "wait" /\ v.app \in Apps
          /\ \/ /\ pc(Worker) \in {"spawn", "spawnRequeue"} /\ m.pc = "idle"
                /\ v.app = app(Worker) /\ v.id = proc[Worker].id
             \/ pc(Worker) = "recover"
    BY <1>1 DEF WatcherStarts
  <1>0. /\ Worker \in Procs /\ w \in Procs /\ w # Worker /\ proc \in [Procs -> Locals]
        /\ stack' = stack /\ rec' = rec
        /\ \A q \in Procs : Aware(stack, rec, q, proc[q]) /\ Tracks(stack, rec, q, proc[q])
        /\ TaskMatches(proc[Worker]) /\ TaskMatches(proc'[w]) /\ TaskMatches(proc'[Worker])
    BY InvFacts, DomainAssumption, SameRosNoBirth
       DEF ProcsOK, StartFlow, CalmInv, ReadyInv, Knows, IInv
  <1>3. /\ proc[Worker].pc \in {"spawn", "spawnRequeue"} /\ m.pc = "idle"
        /\ v.app = proc[Worker].app /\ v.id = proc[Worker].id
    BY <1>0, <1>2 DEF Aware, InPlace, pc, app
  <1>4. \A q \in Procs : proc'[q] = IF q = Worker THEN m ELSE IF q = w THEN v ELSE proc[q]
    BY <1>0, <1>2
  <1>5. Follows(stack, v.id, rec[v.app].tmpl)
    BY <1>0, <1>3 DEF Tracks, InCharge
  <1>6. Tracks(stack, rec, w, v) /\ Tracks(stack, rec, Worker, m)
    BY <1>0, <1>2, <1>3, <1>4, <1>5
       DEF Tracks, HasSeenIt, Holding, TaskMatches, InCharge, ToReport
  <1>7. ~InFlight(proc[Worker]) /\ ~InFlight(m)
    BY <1>0, <1>3, <1>4 DEF InFlight, Holding, ToReport, TaskMatches
  <1>8. ReadyMeansDeployed'
    <2> HIDE DEF InFlight
    <2> QED BY <1>0, <1>4, <1>7, ReadyStays
  <1> QED BY <1>0, <1>4, <1>6, <1>8 DEF ReadyInv

(* A request of the worker changes a stack nobody else relies on. *)
LEMMA RequestReady ==
  ASSUME IInv, IInv', CalmInv, ReadyInv, Calm, NEW m \in Locals,
         proc' = [proc EXCEPT ![Worker] = m], rec' = rec,
         RequestFlow(proc[Worker], m)
  PROVE  ReadyInv'
  <1> DEFINE l == proc[Worker]
  <1>0. /\ Worker \in Procs /\ stack \in [Ids -> Stacks] /\ rec \in [Apps -> Records]
        /\ \A q \in Procs : proc'[q] = IF q = Worker THEN m ELSE proc[q]
        /\ \A q \in Procs : Tracks(stack, rec, q, proc[q]) /\ Aware(stack, rec, q, proc[q])
        /\ \A q \in Procs : Knows(stack, accepted, proc[q]) /\ app(q) = proc[q].app
        /\ TaskMatches(m)
    BY InvFacts, DomainAssumption DEF ProcsOK, RosTypeOK, ReadyInv, CalmInv, Knows, IInv, app
  <1>1. l.pc \in {"cuCreate", "cuUpdate", "delCall"} /\ l.app \in Apps
    BY <1>0, LocalFacts DEF RequestFlow, Unassigned
  <1>2. PICK i \in Ids :
          /\ m.app = l.app /\ m.id = i /\ m.pc \in {"cuRecord", "delProgressing"}
          /\ \A j \in Ids : j # i => stack'[j] = stack[j]
          /\ m.pc = "cuRecord" => stack'[i].tmpl = m.want
          /\ m.pc = "delProgressing" => stack'[i].status \in InDelete
          /\ stack[i].app \in {l.app, None}
    <2>1. ASSUME NEW i \in Ids, StackCreated(l.app, l.want, i), m.pc = "cuRecord",
                 m.app = l.app, m.want = l.want, m.id = i
          PROVE  /\ \A j \in Ids : j # i => stack'[j] = stack[j]
                 /\ stack'[i].tmpl = m.want /\ stack[i].app = None
      BY <1>0, <2>1, InvFacts DEF StackCreated, StacksOwned
    <2>2. l.pc \in {"cuUpdate", "delCall"} => l.id \in Ids /\ stack[l.id].app = l.app
      BY <1>0 DEF Knows, Locals
    <2>3. CASE l.pc = "cuUpdate" /\ StackUpdated(l.id, l.want) /\ Reaches(l, m, "cuRecord")
      <3>1. \A j \in Ids : j # l.id => stack'[j] = stack[j]
        BY <1>0, <2>3 DEF StackUpdated
      <3>2. stack'[l.id].tmpl = l.want
        BY <1>0, <2>2, <2>3 DEF StackUpdated, Stacks
      <3> QED BY <2>2, <2>3, <3>1, <3>2 DEF Reaches, Same
    <2>4. CASE l.pc = "delCall" /\ StackDeleted(l.id) /\ Reaches(l, m, "delProgressing")
      <3>1. \A j \in Ids : j # l.id => stack'[j] = stack[j]
        BY <1>0, <2>4 DEF StackDeleted
      <3>2. stack'[l.id].status \in InDelete
        BY <1>0, <2>2, <2>4 DEF StackDeleted, Stacks, InDelete
      <3> QED BY <2>2, <2>4, <3>1, <3>2 DEF Reaches, Same
    <2>5. ~Fails
      BY CalmFacts
    <2>6. CASE \E i \in Ids : /\ StackCreated(l.app, l.want, i) /\ m.pc = "cuRecord"
                              /\ m.app = l.app /\ m.want = l.want /\ m.id = i
      BY <2>1, <2>6
    <2> HIDE DEF l
    <2> QED BY <2>3, <2>4, <2>5, <2>6 DEF RequestFlow, l
  <1>3. Tracks(stack', rec, Worker, m)
    BY <1>0, <1>2 DEF Tracks, Follows, InCharge, ToReport, Holding, HasSeenIt, TaskMatches
  <1>4. ASSUME NEW q \in Procs, q # Worker
        PROVE  Tracks(stack', rec, q, proc[q])
    <2>1. InCharge(q, proc[q]) => proc[q].id \in Ids /\ proc[q].id # i
      <3> SUFFICES ASSUME InCharge(q, proc[q]) PROVE proc[q].id \in Ids /\ proc[q].id # i
        OBVIOUS
      <3>1. /\ rec[proc[q].app].status = "Progressing"
            /\ proc[q].id \in Ids /\ stack[proc[q].id].app = proc[q].app /\ proc[q].app \in Apps
        BY <1>0 DEF Aware, Knows, Locals
      <3>2. rec[l.app].status # "Progressing"
        BY <1>0, <1>1 DEF Aware, Claims, Claimed, Templated
      <3>3. proc[q].app # l.app /\ proc[q].app # None
        BY <3>1, <3>2, DomainAssumption
      <3> QED BY <1>2, <3>1, <3>3
    <2>2. HasSeenIt(q, proc[q]) => InCharge(q, proc[q])
      BY DEF HasSeenIt, InCharge, Reporting
    <2> QED BY <1>0, <1>2, <1>4, <2>1, <2>2 DEF Tracks, Follows
  <1>5. ReadyMeansDeployed'
    <2>1. InFlight(m)
      BY <1>2 DEF InFlight, Holding, ToReport
    <2>2. ASSUME NEW b \in Apps, b # l.app, rec[b].sid # None
          PROVE  stack'[rec[b].sid] = stack[rec[b].sid]
      <3>1. rec[b].sid \in Ids /\ stack[rec[b].sid].app = b /\ b # None
        BY <1>0, <2>2, DomainAssumption DEF Records, IInv, Paired
      <3> QED BY <1>2, <2>2, <3>1
    <2> HIDE DEF InFlight
    <2> QED BY <1>0, <1>2, <2>1, <2>2, ReadyStays
  <1> QED BY <1>0, <1>3, <1>4, <1>5 DEF ReadyInv

LEMMA ReadyInvariance ==
  ASSUME Calm, NoConsole
  PROVE  Spec => []ReadyInv
  <1>1. Init => ReadyInv
    <2> SUFFICES ASSUME Init PROVE ReadyInv
      OBVIOUS
    <2>1. /\ \A q \in Procs : /\ proc[q].pc = IF q = Worker THEN "load" ELSE "idle"
                              /\ proc[q].task = "none"
          /\ \A a \in Apps : rec[a].sid = None
      BY DEF Init, Booted, At, NoRecord
    <2> QED BY <2>1 DEF ReadyInv, ReadyMeansDeployed, Tracks, InCharge, Reporting, ToReport,
          Holding, HasSeenIt
  <1>2. IInv /\ CalmInv /\ ReadyInv /\ [Next]_vars => ReadyInv'
    <2>1. ASSUME IInv, CalmInv, ReadyInv, Next PROVE ReadyInv'
      <3>1. IInv' /\ AllFlows
        BY <2>1, NextInv, NextFlows
      <3>2. CASE Flows
        <4>1. PICK p \in Procs, m \in Locals :
                proc' = [proc EXCEPT ![p] = m] /\ Flow(p, proc[p], m)
          BY <3>2 DEF Flows
        <4>2. ~FailureFlow(proc[p], m)
          BY <2>1, CalmFacts DEF FailureFlow
        <4> QED BY <2>1, <3>1, <4>1, <4>2, FlowReady, WriteReady, RequestReady DEF Flow
      <3> QED BY <2>1, <3>1, <3>2, StartReady, OutsideReady, NoEnd DEF AllFlows
    <2>2. ASSUME ReadyInv, UNCHANGED vars PROVE ReadyInv'
      BY <2>2 DEF vars, ReadyInv, ReadyMeansDeployed, MidFlight, pc, app
    <2> QED BY <2>1, <2>2
  <1>3. Spec => [](IInv /\ CalmInv)
    BY CalmInvariance
  <1> QED BY <1>1, <1>2, <1>3, PTL DEF Spec

(* An application that is Ready has its stack completed with the template  *)
(* of the record, so that the test that skips an unchanged template        *)
(* (appconf.go:93) skips nothing that is not deployed: for any users,      *)
(* refusals and roll-backs of ROS, when nobody uses its console.           *)
THEOREM ReadyIsDeployed ==
  ASSUME Calm, NoConsole
  PROVE  Spec => []ReadyMeansDeployed
  <1>1. ReadyInv => ReadyMeansDeployed
    BY DEF ReadyInv
  <1> QED BY <1>1, ReadyInvariance, PTL
=============================================================================
