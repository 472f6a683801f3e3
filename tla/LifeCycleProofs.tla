-------------------------- MODULE LifeCycleProofs ---------------------------
(***************************************************************************)
(* RosController implements LifeCycle, while its own process does not fail *)
(* and nobody uses the console of ROS: for any users, any order of events, *)
(* refused requests and operations that fail.  LifeInv is inductive, next  *)
(* to the invariants of the other modules; with all of them, every step    *)
(* begins an operation of LifeCycle, ends one, or does not show.           *)
(***************************************************************************)
EXTENDS CalmProofs, LifeCycleMapping

(* An operation on stack i of st has come to its end, and i exists. *)
HasSettled(st, i) == st[i].status \in Deployed \cup Unsuccessful

LEMMA NobodyElse == ASSUME NoConsole PROVE NobodyElseDeletes
  <1>1. \A m \in ServiceMoves : m[2] # "DELETE_IN_PROGRESS"
    BY DEF ServiceMoves
  <1> QED BY <1>1 DEF NoConsole, NobodyElseDeletes

-----------------------------------------------------------------------------
(* LifeInv is inductive.                                                   *)

(* A stack that has settled is as it was, unless the worker asks for an    *)
(* operation on it.                                                        *)
LEMMA Undisturbed ==
  ASSUME IInv, Calm, NoConsole, Next, NEW i \in Ids, HasSettled(stack, i)
  PROVE  \/ stack'[i] = stack[i]
         \/ /\ proc[Worker].pc \in {"cuUpdate", "delCall"}
            /\ proc[Worker].app = stack[i].app /\ proc'[Worker].app = stack[i].app
            /\ InFlight(proc'[Worker])
  <1> DEFINE l == proc[Worker]
             Goal == \/ stack'[i] = stack[i]
                     \/ /\ l.pc \in {"cuUpdate", "delCall"}
                        /\ l.app = stack[i].app /\ proc'[Worker].app = stack[i].app
                        /\ InFlight(proc'[Worker])
  <1>0. /\ stack \in [Ids -> Stacks] /\ Worker \in Procs /\ Knows(stack, accepted, l)
        /\ proc \in [Procs -> Locals] /\ ~Fails
    BY InvFacts, CalmFacts DEF RosTypeOK, ProcsOK
  <1>1. CASE SameRos
    BY <1>1 DEF SameRos, rosVars
  <1>2. CASE RosStep
    <2>1. PICK j \in Ids, v \in Moves : stack[j].status = v[1]
                                     /\ \A k \in Ids : k # j => stack'[k] = stack[k]
      BY <1>0, <1>2 DEF RosStep, StackMoves
    <2>2. v[1] \in InProgress
      BY DEF NoConsole, ServiceMoves, InProgress
    <2>3. j # i
      BY <2>1, <2>2 DEF HasSettled, Deployed, Unsuccessful, InProgress
    <2> QED BY <2>1, <2>3
  <1>3. ASSUME NEW m \in Locals, proc' = [proc EXCEPT ![Worker] = m], RequestFlow(l, m)
        PROVE  Goal
    <2>1. proc'[Worker] = m
      BY <1>0, <1>3
    <2>2. ASSUME NEW j \in Ids, StackCreated(l.app, l.want, j)
          PROVE  stack'[i] = stack[i]
      BY <1>0, <2>2 DEF StackCreated, HasSettled, Deployed, Unsuccessful
    <2>3. CASE l.pc = "cuUpdate" /\ StackUpdated(l.id, l.want) /\ Reaches(l, m, "cuRecord")
      <3>1. i # l.id => stack'[i] = stack[i]
        BY <1>0, <2>3 DEF StackUpdated
      <3> QED BY <1>0, <2>1, <2>3, <3>1, DomainAssumption
            DEF Knows, Reaches, Same, InFlight, Holding
    <2>4. CASE l.pc = "delCall" /\ StackDeleted(l.id) /\ Reaches(l, m, "delProgressing")
      <3>1. i # l.id => stack'[i] = stack[i]
        BY <1>0, <2>4 DEF StackDeleted
      <3> QED BY <1>0, <2>1, <2>4, <3>1, DomainAssumption
            DEF Knows, Reaches, Same, InFlight, ToReport
    <2> HIDE DEF l, Goal
    <2>5. CASE \E j \in Ids : StackCreated(l.app, l.want, j)
      BY <2>2, <2>5 DEF Goal
    <2> QED BY <1>0, <1>3, <2>3, <2>4, <2>5 DEF RequestFlow
  <1> HIDE DEF Goal
  <1>4. Goal
    BY <1>1, <1>2, <1>3, NextFlows
       DEF AllFlows, Flows, Flow, StartFlow, OutsideFlow, UserStep, Ends, Goal
  <1> QED BY <1>4 DEF Goal

(* The worker is between request and status until it has written it. *)
LEMMA FlightEnds ==
  ASSUME IInv, IInv', CalmInv, ReadyInv, Calm, Next, InFlight(proc[Worker])
  PROVE  \/ InFlight(proc'[Worker]) /\ proc'[Worker].app = proc[Worker].app
         \/ rec'[proc[Worker].app].status = "Progressing"
  <1> DEFINE l == proc[Worker]
  <1>0. /\ Worker \in Procs /\ proc \in [Procs -> Locals] /\ TaskMatches(l)
        /\ Tracks(stack, rec, Worker, l) /\ ~Fails /\ Worker \notin Watchers
        /\ pc(Worker) = l.pc
    BY InvFacts, CalmFacts, DomainAssumption DEF ProcsOK, Knows, ReadyInv, pc
  <1>1. l.pc \in {"cuRecord", "setWrite", "cuProgressing", "delProgressing"}
    BY <1>0 DEF InFlight, Holding, ToReport, TaskMatches
  <1>2. CASE proc'[Worker] = l
    BY <1>2
  <1>3. ASSUME NEW m \in Locals, proc' = [proc EXCEPT ![Worker] = m], Flow(Worker, l, m)
        PROVE  \/ InFlight(proc'[Worker]) /\ proc'[Worker].app = l.app
               \/ rec'[l.app].status = "Progressing"
    <2>1. proc'[Worker] = m
      BY <1>0, <1>3
    <2>2. CASE HandlerFlow(l, m) \/ FinalizerFlow(l, m) \/ ProcedureFlow(l, m)
      BY <1>0, <1>3, <2>1, <2>2, TracksOn
    <2>3. CASE WriteFlow(l, m)
      <3>1. l.pc = "setWrite" /\ l.task \in {"Record", "Progressing"}
        BY <1>0, <1>1, <2>3 DEF WriteFlow, InFlight, Holding, ToReport, TaskMatches
      <3>2. \/ m.pc = "cuProgressing" /\ m.app = l.app
            \/ rec'[m.app].status = "Progressing" /\ m.app = l.app
        <4>1. m.app = l.app /\ (m.pc = "cuProgressing" \/ rec'[m.app].status = "Progressing")
          BY <1>0, <1>3, <2>3, <3>1, CalmWrites DEF Wrote
        <4> QED BY <4>1
      <3> QED BY <2>1, <3>2 DEF InFlight, ToReport
    <2>4. ~RequestFlow(l, m) /\ ~FailureFlow(l, m)
      BY <1>0, <1>1 DEF RequestFlow, FailureFlow
    <2>5. ~(ConflictFlow(l, m) /\ Worker \in overtaken)
      BY <1>0, <1>1 DEF ConflictFlow, CalmInv, NoneOvertaken
    <2> QED BY <1>3, <2>2, <2>3, <2>4, <2>5 DEF Flow
  <1>4. CASE Flows
    <2>1. PICK p \in Procs, m \in Locals :
            proc' = [proc EXCEPT ![p] = m] /\ Flow(p, proc[p], m)
      BY <1>4 DEF Flows
    <2> QED BY <1>0, <1>2, <1>3, <2>1
  <1>5. ~StartFlow
    BY <1>0, <1>1 DEF StartFlow, WatcherStarts
  <1>6. CASE OutsideFlow
    BY <1>2, <1>6 DEF OutsideFlow
  <1> QED BY <1>4, <1>5, <1>6, NextFlows, NoEnd DEF AllFlows

(* While no operation is under way, the stack in the record has settled. *)
LEMMA SettledStays ==
  ASSUME IInv, IInv', CalmInv, ReadyInv, LifeInv, Calm, NoConsole, Next,
         NEW b \in Apps, rec'[b].sid # None, rec'[b].status # "Progressing",
         ~(proc'[Worker].app = b /\ InFlight(proc'[Worker]))
  PROVE  HasSettled(stack', rec'[b].sid)
  <1>0. /\ Worker \in Procs /\ proc \in [Procs -> Locals] /\ rec \in [Apps -> Records]
        /\ \A q \in Procs : TaskMatches(proc[q]) /\ Aware(stack, rec, q, proc[q])
        /\ \A q \in Procs : Tracks(stack, rec, q, proc[q])
        /\ \A q \in Procs : HasSeenFailure(q, proc[q]) =>
             stack[proc[q].id].status \in Unsuccessful
    BY InvFacts DEF ProcsOK, Knows, CalmInv, ReadyInv, LifeInv
  (* What was true of a record that has not changed is. *)
  <1>1. ASSUME rec[b].sid # None, rec[b].status # "Progressing",
               ~(proc[Worker].app = b /\ InFlight(proc[Worker]))
        PROVE  HasSettled(stack, rec[b].sid)
    <2>1. ~MidFlight(Worker, b)
      BY <1>1, InFlightIsMid
    <2> QED BY <1>1, <2>1 DEF LifeInv, HasSettled
  <1>2. ASSUME rec'[b].sid = rec[b].sid, HasSettled(stack, rec[b].sid)
        PROVE  HasSettled(stack', rec'[b].sid)
    <2>1. rec[b].sid \in Ids /\ stack[rec[b].sid].app = b
      BY <1>0, <1>2 DEF Records, IInv, Paired
    <2>2. stack'[rec[b].sid] = stack[rec[b].sid]
      BY <1>2, <2>1, Undisturbed
    <2> QED BY <1>2, <2>2 DEF HasSettled
  <1>3. CASE rec'[b] = rec[b]
    <2>1. ~(proc[Worker].app = b /\ InFlight(proc[Worker]))
      BY FlightEnds
    <2> QED BY <1>1, <1>2, <1>3, <2>1
  <1>4. ASSUME NEW p \in Procs, NEW m \in Locals, proc' = [proc EXCEPT ![p] = m],
               SameRos, WriteFlow(proc[p], m), m.app = b
        PROVE  HasSettled(stack', rec'[b].sid)
    <2> DEFINE l == proc[p]
               r == rec[m.app]
               s == rec'[m.app]
    <2>1. /\ InCharge(p, l) \/ Claims(p, l)
          /\ m.app = l.app
          /\ \/ p = Worker /\ m.pc = "cuProgressing"
             \/ s.status = "Progressing"
             \/ l.pc = "setWrite" /\ l.task \in {"Ready", "Failed"} /\ s.sid = r.sid
             \/ p # Worker /\ l.pc = "nameOutputs" /\ s.status = r.status
             \/ s.sid = None
      BY <1>4, CalmWrites DEF Wrote
    <2>2. ~(p = Worker /\ m.pc = "cuProgressing")
      <3>1. p = Worker => proc'[Worker] = m
        BY <1>0, <1>4
      <3> QED BY <1>4, <3>1 DEF InFlight, ToReport
    <2>3. ~(p # Worker /\ l.pc = "nameOutputs" /\ s.status = r.status)
      <3>1. p # Worker /\ l.pc = "nameOutputs" => r.status = "Progressing"
        BY <1>0, <2>1 DEF Aware, InCharge, Reporting
      <3> QED BY <1>4, <3>1
    <2>4. l.pc = "setWrite" /\ l.task \in {"Ready", "Failed"} /\ s.sid = r.sid
      BY <1>4, <2>1, <2>2, <2>3
    <2>5. CASE p = Worker
      <3>1. r.status # "Progressing" /\ ~InFlight(l)
        BY <1>0, <2>1, <2>4, <2>5
           DEF Aware, Claims, Claimed, InFlight, Holding, ToReport
      <3> QED BY <1>1, <1>2, <1>4, <2>4, <2>5, <3>1
    <2>6. CASE p # Worker
      <3>1. l.id = r.sid
        BY <1>0, <2>1, <2>4, <2>6 DEF Aware, InCharge, Reporting
      <3>2. HasSettled(stack, l.id)
        BY <1>0, <2>4, <2>6 DEF HasSeenIt, HasSeenFailure, Tracks, HasSettled
      <3> QED BY <1>2, <1>4, <2>4, <3>1, <3>2
    <2> QED BY <2>5, <2>6
  <1>5. CASE Flows
    <2>1. PICK p \in Procs, m \in Locals :
            proc' = [proc EXCEPT ![p] = m] /\ Flow(p, proc[p], m)
      BY <1>5 DEF Flows
    <2>2. CASE SameRos /\ WriteFlow(proc[p], m)
      <3>1. m.app # b => rec'[b] = rec[b]
        BY <2>1, <2>2, CalmWrites
      <3> QED BY <1>3, <1>4, <2>1, <2>2, <3>1
    <2> QED BY <1>3, <2>1, <2>2 DEF Flow
  <1>6. CASE StartFlow \/ OutsideFlow
    BY <1>3, <1>6 DEF StartFlow, OutsideFlow
  <1> QED BY <1>5, <1>6, NextFlows, NoEnd DEF AllFlows

(* A watcher that has seen an operation fail is not deceived. *)
LEMMA FailureStays ==
  ASSUME IInv, IInv', CalmInv, LifeInv, Calm, NoConsole, Next,
         NEW p \in Procs, HasSeenFailure(p, proc'[p])
  PROVE  stack'[proc'[p].id].status \in Unsuccessful
  <1> DEFINE l == proc[p]
             m == proc'[p]
  <1>0. /\ l \in Locals /\ m \in Locals /\ p # Worker /\ TaskMatches(l) /\ Worker \in Procs
        /\ Aware(stack, rec, p, l) /\ Aware(stack, rec, Worker, proc[Worker])
        /\ Knows(stack, accepted, l) /\ ~Fails
        /\ m.pc \in {"failed", "setWrite"} /\ (m.pc = "setWrite" => m.task = "Failed")
    BY InvFacts, CalmFacts DEF Knows, CalmInv, HasSeenFailure, IInv, TypeOK, AppStackTypeOK
  <1>1. CASE m = l
    <2>1. InCharge(p, l) /\ stack[l.id].status \in Unsuccessful
      BY <1>0, <1>1 DEF InCharge, Reporting, LifeInv
    <2>2. /\ l.id \in Ids /\ stack[l.id].app = l.app
          /\ rec[l.app].status = "Progressing"
      BY <1>0, <2>1 DEF Aware, Knows, Locals
    <2>3. proc[Worker].pc \in {"cuUpdate", "delCall"} => proc[Worker].app # l.app
      BY <1>0, <2>2 DEF Aware, Claims, Claimed, Templated
    <2>4. stack'[l.id] = stack[l.id]
      BY <2>1, <2>2, <2>3, Undisturbed DEF HasSettled
    <2> QED BY <1>1, <2>1, <2>4
  <1>2. CASE Flow(p, l, m)
    <2> HIDE DEF l, m
    <2>1. CASE /\ m.id = l.id /\ SameRos
               /\ \/ HasSeenFailure(p, l)
                  \/ stack[l.id].status \in Unsuccessful
      BY <2>1 DEF LifeInv, SameRos, rosVars, l, m
    <2>2. CASE WatcherFlow(l, m) /\ SameRos
      <3>1. CASE l.pc = "wait"
        <4>1. /\ m.id = l.id /\ m.pc \in {"saveOutputs", "failed", "drop"}
              /\ m.pc = "failed" => stack[l.id].status \in Unsuccessful
          BY <2>2, <3>1 DEF WatcherFlow, Enters
        <4> QED BY <1>0, <2>1, <2>2, <4>1
      <3>2. CASE l.pc # "wait"
        BY <1>0, <2>1, <2>2, <3>2 DEF WatcherFlow, Enters, Same, HasSeenFailure
      <3> QED BY <3>1, <3>2
    <2>3. ~WriteFlow(l, m) /\ ~FailureFlow(l, m) /\ ~FinalizerFlow(l, m)
      <3>1. ~WriteFlow(l, m)
        BY <1>0 DEF WriteFlow, Inside, Reaches, Goes, Same, Aware, InPlace, TaskMatches, Reporting
      <3> QED BY <1>0, <3>1 DEF FailureFlow, FinalizerFlow, Reaches
    <2>4. ~ProcedureFlow(l, m) /\ ~(ConflictFlow(l, m) /\ p \in overtaken)
      <3>1. p \in overtaken => l.pc # "setWrite"
        BY DEF CalmInv, NoneOvertaken, pc, l
      <3> QED BY <1>0, <3>1 DEF ProcedureFlow, ConflictFlow, Inside, Reaches, Goes, Aware,
            InPlace, Reporting
    <2> QED BY <1>0, <1>2, <2>2, <2>3, <2>4 DEF Flow
  <1> QED BY <1>0, <1>1, <1>2, NextTurns DEF Turns, Unassigned

(* The worker gets hold of a new stack by its request only. *)
LEMMA HoldingBegins ==
  ASSUME IInv, IInv', Next, Holding(proc'[Worker])
  PROVE  /\ proc'[Worker].app = proc[Worker].app
         /\ Holding(proc[Worker]) \/ proc[Worker].pc \in {"cuCreate", "cuUpdate"}
  <1> DEFINE l == proc[Worker]
             m == proc'[Worker]
  <1>0. /\ Worker \in Procs /\ TaskMatches(m) /\ l.ok \in Returns /\ l.fail \in Returns
        /\ m.pc \in {"cuRecord", "setWrite"} /\ (m.pc = "setWrite" => m.task = "Record")
    BY InvFacts DEF IInv, Knows, TaskMatches, Holding
  <1> HIDE DEF l, m
  <1>1. CASE m = l
    BY <1>1 DEF l, m
  <1>2. ASSUME Flow(Worker, l, m)
        PROVE  m.app = l.app /\ (Holding(l) \/ l.pc \in {"cuCreate", "cuUpdate"})
    <2> USE DEF Reaches, Same, Inside, Goes, Enters, Returns, Holding
    <2>1. CASE HandlerFlow(l, m)
      BY <1>0, <2>1 DEF HandlerFlow, InSuccession
    <2>2. CASE RequestFlow(l, m)
      BY <1>0, <2>2 DEF RequestFlow
    <2>3. ~FinalizerFlow(l, m) /\ ~FailureFlow(l, m) /\ ~ConflictFlow(l, m)
      BY <1>0 DEF FinalizerFlow, FailureFlow, ConflictFlow
    <2>4. ~ProcedureFlow(l, m) /\ ~WriteFlow(l, m)
      BY <1>0 DEF ProcedureFlow, WriteFlow
    <2> QED BY <1>2, <2>1, <2>2, <2>3, <2>4 DEF Flow
  <1> QED BY <1>0, <1>1, <1>2, NextTurns DEF Turns, Unassigned, l, m

(* A stack gets into the record from the hand of the worker only. *)
LEMMA SidBegins ==
  ASSUME IInv, IInv', CalmInv, Calm, Next, NEW a \in Apps, rec'[a].sid # None
  PROVE  rec[a].sid # None \/ (Holding(proc[Worker]) /\ proc[Worker].app = a)
  <1> SUFFICES ASSUME rec[a].sid = None, ~(Holding(proc[Worker]) /\ proc[Worker].app = a)
               PROVE  FALSE
    OBVIOUS
  <1>1. PICK q \in Procs, k \in Locals :
          proc' = [proc EXCEPT ![q] = k] /\ Flow(q, proc[q], k) /\ rec' # rec
    BY NextFlows, NoEnd DEF AllFlows, Flows, StartFlow, OutsideFlow
  <1>2. WriteFlow(proc[q], k)
    BY <1>1 DEF Flow
  <1>3. k.app = proc[q].app /\ Wrote(q, proc[q], k, rec[k.app], rec'[k.app])
    BY <1>1, <1>2, CalmWrites
  <1>4. k.app = a
    BY <1>1, <1>2, CalmWrites
  <1>5. ~(q = Worker /\ proc[q].task = "Record")
    BY <1>3, <1>4 DEF Holding
  <1> QED BY <1>3, <1>4, <1>5 DEF Wrote

(* Who is about to release an object has seen the record dropped, and the  *)
(* worker does not make another one.                                       *)
LEMMA ReleaseFollows ==
  ASSUME IInv, IInv', CalmInv, DeletionInv, LifeInv, Calm, Next, NEW p \in Procs,
         Leaving(proc'[p])
  PROVE  /\ rec'[proc'[p].app].sid = None
         /\ ~(Holding(proc'[Worker]) /\ proc'[Worker].app = proc'[p].app)
  <1> DEFINE l == proc[p]
             m == proc'[p]
             u == proc[Worker]
             a == l.app
  <1>0. /\ Worker \in Procs /\ m \in Locals /\ TaskMatches(l) /\ TaskMatches(u)
        /\ Aware(stack, rec, p, l) /\ Aware(stack, rec, Worker, u)
        /\ (l.pc \notin Unassigned => a \in Apps) /\ rec \in [Apps -> Records]
        /\ \A q \in Procs : pc(q) = proc[q].pc /\ app(q) = proc[q].app
        /\ u.task = "Record" => u.pc = "setWrite"
    BY InvFacts, LocalFacts
       DEF Knows, CalmInv, IInv, TypeOK, AppStackTypeOK, pc, app, TaskMatches
  <1>1. /\ m.app = a
        /\ \/ Leaving(l)
           \/ l.pc = "dropRecord" /\ Flow(p, l, m)
           \/ p = Worker /\ l.pc = "delStack" /\ rec[a].sid = None /\ Flow(p, l, m)
    <2>1. CASE Flow(p, l, m)
      BY <1>0, <2>1, LeavingBegins
    <2>2. CASE m = l
      BY <2>2
    <2> QED BY <1>0, <2>1, <2>2, NextTurns DEF Turns, Leaving, Unassigned, InProcedure
  (* The worker neither has a new stack of the application nor makes one. *)
  <1>2. ~(Holding(u) /\ u.app = a)
    <2>1. CASE Leaving(l)
      BY <1>0, <2>1 DEF LifeInv
    <2>2. CASE p # Worker /\ l.pc = "dropRecord"
      <3>1. rec[a].status = "Progressing"
        BY <1>0, <2>2 DEF Aware, InCharge, Reporting
      <3> QED BY <1>0, <3>1 DEF Aware, Claims, Claimed, Templated, Holding
    <2>3. CASE p = Worker /\ l.pc \in {"dropRecord", "delStack"}
      BY <1>0, <2>3 DEF Holding
    <2> QED BY <1>1, <2>1, <2>2, <2>3
  <1>3. ~(u.pc \in {"cuCreate", "cuUpdate"} /\ u.app = a)
    <2>1. CASE Dropping(l)
      BY <1>0, <2>1 DEF DeletionInv, Retired, Applying
    <2>2. CASE p = Worker /\ l.pc = "delStack"
      BY <2>2
    <2> QED BY <1>1, <2>1, <2>2 DEF Leaving, Dropping, DropPlaces
  <1>4. ~(Holding(proc'[Worker]) /\ proc'[Worker].app = a)
    BY <1>2, <1>3, HoldingBegins
  <1>5. rec'[a].sid = None
    <2>1. CASE Leaving(l)
      <3>1. a \in Apps /\ rec[a].sid = None
        BY <1>0, <2>1 DEF LifeInv, Leaving, Unassigned, InProcedure
      <3> QED BY <1>2, <3>1, SidBegins
    <2>2. CASE l.pc = "dropRecord" /\ Flow(p, l, m)
      <3>1. WriteFlow(l, m)
        BY <1>0, <1>1, <2>2, CalmFacts
           DEF Flow, HandlerFlow, InSuccession, FinalizerFlow, WatcherFlow, FailureFlow,
               ConflictFlow, ProcedureFlow, RequestFlow
      <3>2. rec' = [rec EXCEPT ![a] = NoRecord] /\ a \in Apps
        BY <1>0, <2>2, <3>1 DEF WriteFlow, Unassigned
      <3> QED BY <1>0, <3>2 DEF NoRecord
    <2>3. CASE p = Worker /\ l.pc = "delStack" /\ rec[a].sid = None /\ Flow(p, l, m)
      <3>1. ~WriteFlow(l, m)
        BY <2>3 DEF WriteFlow
      <3> QED BY <2>3, <3>1 DEF Flow
    <2> QED BY <1>1, <2>1, <2>2, <2>3
  <1> QED BY <1>1, <1>4, <1>5

(* The object of an application that has a stack stays held. *)
LEMMA HeldStays ==
  ASSUME IInv, IInv', CalmInv, DeletionInv, GuardInv, LifeInv, Calm, Next, NEW a \in Apps,
         rec'[a].sid # None \/ (Holding(proc'[Worker]) /\ proc'[Worker].app = a)
  PROVE  conf'[a].state \in {"live", "deleting"} /\ conf'[a].fin
  <1> DEFINE u == proc[Worker]
  <1>0. /\ Worker \in Procs
        /\ \A q \in Procs : pc(q) = proc[q].pc /\ app(q) = proc[q].app
    BY DEF Procs, pc, app
  <1>1. \/ rec[a].sid # None
        \/ Holding(u) /\ u.app = a
        \/ u.pc \in {"cuCreate", "cuUpdate"} /\ u.app = a
    BY SidBegins, HoldingBegins
  <1>2. Guarded(a)
    BY <1>0, <1>1 DEF LifeInv, GuardInv
  <1>3. ASSUME NEW q \in Procs, proc[q].pc \in {"delFinalizer", "wFinalizer"}, proc[q].app = a
        PROVE  FALSE
    <2>1. Leaving(proc[q]) /\ Dropping(proc[q])
      BY <1>3 DEF Leaving, Dropping, DropPlaces
    <2>2. rec[a].sid = None /\ ~(Holding(u) /\ u.app = a)
      BY <1>0, <1>3, <2>1 DEF LifeInv
    <2>3. ~(u.pc \in {"cuCreate", "cuUpdate"} /\ u.app = a)
      BY <1>0, <1>3, <2>1 DEF DeletionInv, Retired, Applying
    <2> QED BY <1>1, <2>2, <2>3
  <1> QED BY <1>2, <1>3, GuardedStays

LEMMA NextLife ==
  ASSUME IInv, CalmInv, DeletionInv, GuardInv, ReadyInv, LifeInv, Next, Calm, NoConsole
  PROVE  LifeInv'
  <1>1. IInv'
    BY NextInv
  <1>2. ASSUME NEW a \in Apps, rec'[a].sid # None, rec'[a].status # "Progressing",
               ~MidFlight(Worker, a)'
        PROVE  stack'[rec'[a].sid].status \in Deployed \cup Unsuccessful
    <2>1. TaskMatches(proc'[Worker])
      BY <1>1, InvFacts DEF IInv, Knows
    <2>2. ~(proc'[Worker].app = a /\ InFlight(proc'[Worker]))
      BY <1>2, <2>1 DEF MidFlight, InFlight, Holding, ToReport, TaskMatches, pc, app
    <2> QED BY <1>1, <1>2, <2>2, SettledStays DEF HasSettled
  <1>3. \A p \in Procs : HasSeenFailure(p, proc'[p]) =>
          stack'[proc'[p].id].status \in Unsuccessful
    BY <1>1, FailureStays
  <1>4. \A p \in Procs : Leaving(proc'[p]) =>
          /\ rec'[proc'[p].app].sid = None
          /\ ~(Holding(proc'[Worker]) /\ proc'[Worker].app = proc'[p].app)
    BY <1>1, ReleaseFollows
  <1>5. \A a \in Apps :
          rec'[a].sid # None \/ (Holding(proc'[Worker]) /\ proc'[Worker].app = a) =>
            conf'[a].state \in {"live", "deleting"} /\ conf'[a].fin
    BY <1>1, HeldStays
  <1> QED BY <1>2, <1>3, <1>4, <1>5 DEF LifeInv, Guarded, Present, app

LEMMA LifeInvariance ==
  ASSUME Calm, NoConsole, ~ReuseNames
  PROVE  Spec => []LifeInv
  <1>1. Init => LifeInv
    <2> SUFFICES ASSUME Init PROVE LifeInv
      OBVIOUS
    <2>1. /\ \A q \in Procs : /\ proc[q].pc = IF q = Worker THEN "load" ELSE "idle"
                              /\ proc[q].task = "none"
          /\ \A a \in Apps : rec[a].sid = None
          /\ Worker \in Procs
      BY DEF Init, Booted, At, NoRecord, Procs
    <2>2. \A q \in Procs : ~Leaving(proc[q]) /\ ~HasSeenFailure(q, proc[q])
      BY <2>1 DEF Leaving, InProcedure, HasSeenFailure
    <2> QED BY <2>1, <2>2 DEF LifeInv, Holding
  <1>2. IInv /\ CalmInv /\ DeletionInv /\ GuardInv /\ ReadyInv /\ LifeInv /\ [Next]_vars => LifeInv'
    <2>1. ASSUME LifeInv, UNCHANGED vars PROVE LifeInv'
      BY <2>1 DEF vars, LifeInv, MidFlight, Guarded, Present, pc, app
    <2> QED BY <2>1, NextLife
  <1>3. Spec => [](IInv /\ CalmInv)
    BY CalmInvariance
  <1>4. Spec => [](IInv /\ DeletionInv)
    BY NobodyElse, DeletionInvariance
  <1>5. Spec => []ReadyInv
    BY ReadyInvariance
  <1>6. Spec => []GuardInv
    BY NobodyElse, GuardInvariance
  <1> QED BY <1>1, <1>2, <1>3, <1>4, <1>5, <1>6, PTL DEF Spec

-----------------------------------------------------------------------------
(* The state as LifeCycle sees it.                                         *)

(* The record r of application a, next to the worker's local state l. *)
BookIs(l, r, a) ==
  IF l.app = a /\ InFlight(l)
  THEN [id |-> l.id, tmpl |-> IF Holding(l) THEN l.want ELSE r.tmpl, phase |-> "Progressing"]
  ELSE [id |-> r.sid, tmpl |-> r.tmpl, phase |-> r.status]

LEMMA BooksSeen ==
  ASSUME IInv
  PROVE  bookBar = [a \in Apps |-> BookIs(proc[Worker], rec[a], a)]
  <1>1. ASSUME NEW a \in Apps PROVE LifeBook(a) = BookIs(proc[Worker], rec[a], a)
    <2>1. MidFlight(Worker, a) <=> proc[Worker].app = a /\ InFlight(proc[Worker])
      BY InFlightIsMid
    <2> QED BY <2>1 DEF LifeBook, BookIs
  <1> QED BY <1>1 DEF bookBar

LEMMA BooksSeenNext ==
  ASSUME IInv'
  PROVE  bookBar' = [a \in Apps |-> BookIs(proc'[Worker], rec'[a], a)]
  <1>1. ASSUME NEW a \in Apps PROVE LifeBook(a)' = BookIs(proc'[Worker], rec'[a], a)
    <2>1. TaskMatches(proc'[Worker])
      BY DEF IInv, Knows, Procs
    <2>2. MidFlight(Worker, a)' <=> proc'[Worker].app = a /\ InFlight(proc'[Worker])
      BY <2>1 DEF MidFlight, InFlight, Holding, ToReport, TaskMatches, pc, app
    <2> QED BY <2>2 DEF LifeBook, BookIs
  <1> QED BY <1>1 DEF bookBar

(* One record changes, or none does. *)
LEMMA OneBook ==
  ASSUME IInv, IInv', NEW a \in Apps,
         \A b \in Apps : b # a =>
           BookIs(proc'[Worker], rec'[b], b) = BookIs(proc[Worker], rec[b], b)
  PROVE  bookBar' = [bookBar EXCEPT ![a] = BookIs(proc'[Worker], rec'[a], a)]
  BY BooksSeen, BooksSeenNext

LEMMA SameBooks ==
  ASSUME IInv, IInv',
         \A b \in Apps : BookIs(proc'[Worker], rec'[b], b) = BookIs(proc[Worker], rec[b], b)
  PROVE  bookBar' = bookBar
  BY BooksSeen, BooksSeenNext

(* One stack changes, or none does. *)
LEMMA OneStack ==
  ASSUME NEW i \in Ids, \A j \in Ids : j # i => stack'[j] = stack[j]
  PROVE  stacksBar' = [stacksBar EXCEPT ![i] = LifeStack(stack'[i])]
  <1>1. stacksBar' = [j \in Ids |-> LifeStack(stack'[j])]
    BY DEF stacksBar, LifeStack, Stage
  <1>2. stacksBar = [j \in Ids |-> LifeStack(stack[j])]
    BY DEF stacksBar
  <1> QED BY <1>1, <1>2

LEMMA SameStacks ==
  ASSUME SameRos
  PROVE  stacksBar' = stacksBar
  BY DEF SameRos, rosVars, stacksBar

(* One object changes, or none does. *)
LEMMA OneObject ==
  ASSUME IInv, NEW a \in Apps, NEW c, Change(a, c)
  PROVE  objectBar' = [objectBar EXCEPT ![a] = LifeObject(c)]
  <1>1. \A b \in Apps : conf'[b] = IF b = a THEN c ELSE conf[b]
    BY InvFacts DEF ConfTypeOK, Change
  <1> QED BY <1>1 DEF objectBar

LEMMA SameObjects ==
  ASSUME KeepsObjects
  PROVE  objectBar' = objectBar
  BY DEF KeepsObjects, objectBar, LifeObject

LEMMA StacksSeen ==
  ASSUME NEW i \in Ids
  PROVE  /\ stacksBar[i].stage = Stage(stack[i].status)
         /\ stacksBar[i].app = stack[i].app
         /\ stacksBar[i].tmpl = IF Stage(stack[i].status) \in {"busy", "good"}
                               THEN stack[i].tmpl ELSE None
  BY DEF stacksBar, LifeStack

LEMMA BookSeen ==
  ASSUME IInv, NEW a \in Apps
  PROVE  bookBar[a] = BookIs(proc[Worker], rec[a], a)
  BY BooksSeen

LEMMA ObjectSeen ==
  ASSUME NEW a \in Apps
  PROVE  objectBar[a] = LifeObject(conf[a])
  BY DEF objectBar

-----------------------------------------------------------------------------
(* Most steps do not show.                                                 *)

LifeIInv == /\ IInv /\ CalmInv /\ DeletionInv /\ RecordInv /\ GuardInv /\ ReadyInv /\ LifeInv

(* The worker takes a request along to the status Progressing. *)
LEMMA FlightKept ==
  ASSUME IInv, IInv', CalmInv, ReadyInv, Calm, NEW m \in Locals,
         proc' = [proc EXCEPT ![Worker] = m],
         \/ HandlerFlow(proc[Worker], m)
         \/ FinalizerFlow(proc[Worker], m)
         \/ ProcedureFlow(proc[Worker], m)
         \/ ConflictFlow(proc[Worker], m) /\ Worker \in overtaken
  PROVE  /\ InFlight(proc[Worker]) <=> InFlight(m)
         /\ InFlight(m) => /\ Same(proc[Worker], m)
                           /\ Holding(proc[Worker]) <=> Holding(m)
  <1> DEFINE l == proc[Worker]
  <1>1. /\ Worker \in Procs /\ InPlace(Worker, l) /\ TaskMatches(l) /\ TaskMatches(m)
        /\ Tracks(stack, rec, Worker, l) /\ ~Fails /\ l.ok \in Returns
    BY Situation, CalmFacts DEF Aware, Knows, ReadyInv, Procs
  <1>2. InFlight(l) => InFlight(m) /\ m.app = l.app
    BY <1>1, TracksOn
  <1>3. InFlight(m) => InFlight(l) /\ Same(l, m) /\ (Holding(l) <=> Holding(m))
    <2> HIDE DEF l
    <2> USE DEF InFlight, Holding, ToReport, TaskMatches, Reaches, Same, Inside, Goes
    <2>1. CASE HandlerFlow(l, m)
      <3>1. CASE l.pc \in {"cuError", "delError", "cuRecord", "cuProgressing",
                           "delProgressing", "delRecord"}
        BY <1>1, <2>1, <3>1 DEF HandlerFlow, InSuccession, Enters
      <3>2. CASE m.pc \in {"idle", "recover", "cuStatus", "delStatus", "cuSame", "cuFailed",
                    "cuError", "cuStack", "delWait", "delError", "cuFinalizer", "cuCreate",
                    "delStack", "delFinalizer", "delCall", "delRecord"}
        BY <1>1, <3>2
      <3> QED BY <2>1, <3>1, <3>2 DEF HandlerFlow, InSuccession
    <2>2. CASE FinalizerFlow(l, m)
      <3>1. m.pc \in {"idle", "cuCreate", "cuUpdate"}
        BY <2>2 DEF FinalizerFlow
      <3> QED BY <1>1, <3>1
    <2>3. CASE ProcedureFlow(l, m)
      <3>1. CASE l.pc \in {"listAdd", "listWrite", "condition"} /\ Goes(l, m, l.ok)
        BY <1>1, <3>1 DEF InPlace, Returns
      <3>2. CASE ~(l.pc \in {"listAdd", "listWrite", "condition"} /\ Goes(l, m, l.ok))
        BY <1>1, <2>3, <3>2 DEF ProcedureFlow
      <3> QED BY <3>1, <3>2
    <2>4. CASE ConflictFlow(l, m) /\ Worker \in overtaken
      <3>1. l.pc # "setWrite" /\ l.fail \in Returns
        BY <1>1, <2>4, InvFacts DEF CalmInv, NoneOvertaken, Knows, pc, l
      <3> QED BY <1>1, <2>4, <3>1 DEF ConflictFlow, InPlace, Returns
    <2> QED BY <1>1, <2>1, <2>2, <2>3, <2>4 DEF l
  <1> QED BY <1>2, <1>3

(* A step of a goroutine that leaves the records alone. *)
LEMMA BooksKept ==
  ASSUME IInv, IInv', CalmInv, ReadyInv, Calm, NEW p \in Procs, NEW m \in Locals,
         proc' = [proc EXCEPT ![p] = m], rec' = rec,
         \/ HandlerFlow(proc[p], m) /\ p = Worker
         \/ FinalizerFlow(proc[p], m)
         \/ ProcedureFlow(proc[p], m)
         \/ ConflictFlow(proc[p], m) /\ p \in overtaken
         \/ p # Worker
  PROVE  bookBar' = bookBar
  <1>0. Worker \in Procs /\ proc \in [Procs -> Locals]
    BY InvFacts DEF ProcsOK
  <1>1. CASE p # Worker
    <2>1. proc'[Worker] = proc[Worker]
      BY <1>0, <1>1
    <2> QED BY <2>1, SameBooks
  <1>2. CASE p = Worker
    <2>1. /\ InFlight(proc[Worker]) <=> InFlight(m)
          /\ InFlight(m) => /\ Same(proc[Worker], m)
                            /\ Holding(proc[Worker]) <=> Holding(m)
      BY <1>2, FlightKept
    <2>2. proc'[Worker] = m
      BY <1>0, <1>2
    <2>3. \A b \in Apps : BookIs(proc'[Worker], rec'[b], b) = BookIs(proc[Worker], rec[b], b)
      BY <2>1, <2>2 DEF BookIs, Same
    <2> QED BY <2>3, SameBooks
  <1> QED BY <1>1, <1>2

LEMMA Stutters ==
  ASSUME UNCHANGED <<objectBar, bookBar, stacksBar>>
  PROVE  [Life!Next]_(Life!lifeVars)
  BY DEF Life!lifeVars

-----------------------------------------------------------------------------
(* Finalizers.                                                             *)

LEMMA FinalizerStep ==
  ASSUME LifeIInv, IInv', Calm, NEW p \in Procs, NEW m \in Locals,
         proc' = [proc EXCEPT ![p] = m], rec' = rec, SameRos, FinalizerFlow(proc[p], m)
  PROVE  [Life!Next]_(Life!lifeVars)
  <1> DEFINE l == proc[p]
             a == l.app
             u == proc[Worker]
  <1>0. /\ IInv /\ CalmInv /\ DeletionInv /\ ReadyInv /\ LifeInv
        /\ Worker \in Procs /\ l.pc \in {"cuFinalizer", "delFinalizer", "wFinalizer"}
        /\ conf \in [Apps -> Confs] /\ ~Fails
        /\ pc(p) = l.pc /\ app(p) = a /\ app(Worker) = u.app
    BY InvFacts, CalmFacts DEF LifeIInv, FinalizerFlow, ConfTypeOK, Procs, pc, app
  <1>1. a \in Apps /\ conf[a] \in Confs
    BY <1>0, LocalFacts DEF Unassigned
  <1>2. bookBar' = bookBar /\ stacksBar' = stacksBar
    BY <1>0, BooksKept, SameStacks
  <1>3. objectBar[a] = LifeObject(conf[a]) /\ bookBar[a] = BookIs(u, rec[a], a)
    BY <1>0, <1>1, ObjectSeen, BookSeen
  <1>4. CASE l.pc = "cuFinalizer" /\ AddCleanUpFinalizer(a)
    <2> DEFINE c == [conf[a] EXCEPT !.fin = TRUE]
    <2>1. Change(a, c) /\ c.state = conf[a].state /\ c.fin /\ Present(a)
      BY <1>1, <1>4 DEF AddCleanUpFinalizer, Confs
    <2> HIDE DEF c
    <2>2. objectBar' = [objectBar EXCEPT ![a] = LifeObject(c)]
      BY <1>0, <1>1, <2>1, OneObject
    <2>3. CASE objectBar[a] = "live"
      <3>1. LifeObject(c) = "held"
        BY <1>3, <2>1, <2>3 DEF LifeObject
      <3>2. Life!Hold(a)
        BY <1>2, <2>2, <2>3, <3>1 DEF Life!Hold, Life!Object
      <3> QED BY <1>1, <3>2 DEF Life!Next
    <2>4. CASE objectBar[a] # "live"
      <3>1. LifeObject(c) = objectBar[a]
        BY <1>3, <2>1, <2>4 DEF LifeObject, Present
      <3>2. objectBar' = objectBar
        BY <2>2, <3>1 DEF objectBar
      <3> QED BY <1>2, <3>2, Stutters
    <2> QED BY <2>3, <2>4
  <1>5. CASE l.pc \in {"delFinalizer", "wFinalizer"} /\ RemoveCleanUpFinalizer(a)
    <2>1. conf[a].state # "live"
      <3>1. Dropping(l)
        BY <1>5 DEF Dropping, DropPlaces
      <3> QED BY <1>0, <3>1 DEF DeletionInv, Retired, Going
    <2>2. CASE conf[a].state = "deleting"
      <3>1. Leaving(l)
        BY <1>5 DEF Leaving
      <3>2. rec[a].sid = None /\ ~(Holding(u) /\ u.app = a)
        BY <1>0, <3>1 DEF LifeInv
      <3>3. ~(ToReport(u) /\ u.app = a)
        <4>1. Aware(stack, rec, Worker, u)
          BY <1>0 DEF CalmInv
        <4> QED BY <3>2, <4>1 DEF Aware
      <3>4. bookBar[a].id = None
        BY <1>3, <3>2, <3>3 DEF BookIs, InFlight
      <3>5. objectBar[a] = "deleting"
        BY <1>3, <2>2 DEF LifeObject
      <3>6. objectBar' = [objectBar EXCEPT ![a] = "gone"]
        <4>1. Change(a, GoneConf) /\ LifeObject(GoneConf) = "gone"
          BY <1>5, <2>2 DEF RemoveCleanUpFinalizer, GoneConf, NoConf, LifeObject
        <4> QED BY <1>0, <1>1, <4>1, OneObject
      <3>7. Life!Release(a)
        BY <1>2, <3>4, <3>5, <3>6 DEF Life!Release, Life!Object
      <3> QED BY <1>1, <3>7 DEF Life!Next
    <2>3. CASE conf[a].state \notin {"live", "deleting"}
      <3>1. conf' = conf
        BY <1>0, <1>5, <2>3 DEF RemoveCleanUpFinalizer, Change
      <3>2. objectBar' = objectBar
        BY <3>1 DEF objectBar, LifeObject
      <3> QED BY <1>2, <3>2, Stutters
    <2> QED BY <2>1, <2>2, <2>3
  <1> QED BY <1>0, <1>4, <1>5 DEF FinalizerFlow

-----------------------------------------------------------------------------
(* Requests.                                                               *)

(* What the worker knows when it sends one. *)
LEMMA Requesting ==
  ASSUME LifeIInv, proc[Worker].pc \in {"cuCreate", "cuUpdate", "delCall"}
  PROVE  LET l == proc[Worker]
             a == l.app IN
         /\ a \in Apps
         /\ bookBar[a] = [id |-> rec[a].sid, tmpl |-> rec[a].tmpl, phase |-> rec[a].status]
         /\ rec[a].status # "Progressing"
         /\ l.pc # "delCall" => objectBar[a] \in {"held", "deleting"} /\ l.want \in Tmpls
         /\ l.pc # "cuCreate" => l.id = rec[a].sid /\ l.id \in Ids /\ stack[l.id].app = a
         /\ l.pc = "cuCreate" => rec[a].sid = None
         /\ l.pc = "delCall" /\ Exists(l.id) =>
              objectBar[a] = "deleting" /\ HasSettled(stack, l.id)
  <1> DEFINE l == proc[Worker]
             a == l.app
  <1>0. /\ IInv /\ CalmInv /\ DeletionInv /\ RecordInv /\ GuardInv /\ LifeInv
        /\ Knows(stack, accepted, l) /\ Aware(stack, rec, Worker, l) /\ TaskMatches(l)
        /\ rec \in [Apps -> Records] /\ a \in Apps
        /\ pc(Worker) = l.pc /\ app(Worker) = a /\ (l.id # None => l.id \in Ids)
    BY LocalFacts, InvFacts DEF LifeIInv, CalmInv, Knows, Unassigned
  <1>1. ~InFlight(l)
    BY <1>0 DEF InFlight, Holding, ToReport, TaskMatches
  <1>2. bookBar[a] = [id |-> rec[a].sid, tmpl |-> rec[a].tmpl, phase |-> rec[a].status]
    BY <1>0, <1>1, BookSeen DEF BookIs
  <1>3. rec[a].status # "Progressing"
    BY <1>0 DEF Aware, Claims, Claimed, Templated
  <1>4. objectBar[a] = LifeObject(conf[a])
    BY <1>0, ObjectSeen
  <1>5. CASE l.pc = "cuCreate"
    <2>1. Known(a) = {}
      BY <1>0, <1>5 DEF RecordInv
    <2>2. rec[a].sid = None
      BY <1>0, <2>1 DEF Known, Records
    <2>3. Guarded(a)
      BY <1>0, <1>5 DEF GuardInv
    <2> QED BY <1>0, <1>2, <1>3, <1>4, <1>5, <2>2, <2>3
          DEF Guarded, Present, LifeObject, Knows, Templated
  <1>6. CASE l.pc = "cuUpdate"
    <2>1. Guarded(a)
      BY <1>0, <1>6 DEF GuardInv
    <2>2. l.id = rec[a].sid /\ l.id \in Ids /\ stack[l.id].app = a
      BY <1>0, <1>6 DEF Aware, Knows
    <2> QED BY <1>0, <1>2, <1>3, <1>4, <1>6, <2>1, <2>2
          DEF Guarded, Present, LifeObject, Knows, Templated
  <1>7. CASE l.pc = "delCall"
    <2>1. l.id = rec[a].sid /\ l.id \in Ids /\ stack[l.id].app = a
      BY <1>0, <1>7 DEF Aware, Knows
    <2>2. ASSUME Exists(l.id)
          PROVE  objectBar[a] = "deleting" /\ HasSettled(stack, l.id)
      <3>1. Going(a)
        BY <1>0, <1>7 DEF DeletionInv, OnRequest, DeletionPlaces
      <3>2. Present(a)
        BY <1>0, <2>1, <2>2 DEF GuardInv, FinalizerGuards
      <3>3. ~MidFlight(Worker, a)
        BY <1>0, <1>1, InFlightIsMid
      <3>4. l.id # None
        BY <2>1, DomainAssumption
      <3>5. HasSettled(stack, l.id)
        BY <1>0, <1>3, <2>1, <3>3, <3>4 DEF LifeInv, HasSettled
      <3> QED BY <1>4, <3>1, <3>2, <3>5 DEF Going, Present, LifeObject
    <2> QED BY <1>0, <1>2, <1>3, <1>7, <2>1, <2>2
  <1> QED BY <1>5, <1>6, <1>7

LEMMA RequestStep ==
  ASSUME LifeIInv, IInv', Calm, NEW m \in Locals, proc' = [proc EXCEPT ![Worker] = m],
         rec' = rec, KeepsObjects, RequestFlow(proc[Worker], m)
  PROVE  [Life!Next]_(Life!lifeVars)
  <1> DEFINE l == proc[Worker]
             a == l.app
  <1>0. /\ IInv /\ Worker \in Procs /\ proc'[Worker] = m /\ ~Fails
        /\ TaskMatches(m) /\ TaskMatches(l) /\ stack \in [Ids -> Stacks]
        /\ l.pc \in {"cuCreate", "cuUpdate", "delCall"} /\ objectBar' = objectBar
    BY InvFacts, CalmFacts, SameObjects
       DEF LifeIInv, RequestFlow, ProcsOK, Procs, IInv, Knows, RosTypeOK
  <1>1. /\ a \in Apps
        /\ bookBar[a] = [id |-> rec[a].sid, tmpl |-> rec[a].tmpl, phase |-> rec[a].status]
        /\ rec[a].status # "Progressing"
        /\ l.pc # "delCall" => objectBar[a] \in {"held", "deleting"} /\ l.want \in Tmpls
        /\ l.pc # "cuCreate" => l.id = rec[a].sid /\ l.id \in Ids /\ stack[l.id].app = a
        /\ l.pc = "cuCreate" => rec[a].sid = None
        /\ l.pc = "delCall" /\ Exists(l.id) =>
             objectBar[a] = "deleting" /\ HasSettled(stack, l.id)
    BY <1>0, Requesting
  <1>2. ASSUME m.app = a
        PROVE  bookBar' = [bookBar EXCEPT ![a] = BookIs(m, rec[a], a)]
    <2>1. \A b \in Apps : b # a => BookIs(m, rec[b], b) = BookIs(l, rec[b], b)
      BY <1>2 DEF BookIs
    <2> QED BY <1>0, <1>1, <2>1, OneBook
  <1>3. ASSUME NEW i \in Ids, l.pc = "cuCreate", StackCreated(a, l.want, i),
               m.pc = "cuRecord", m.app = a, m.want = l.want, m.id = i
        PROVE  Life!Next
    <2>1. bookBar' = [bookBar EXCEPT ![a] = [id |-> i, tmpl |-> l.want, phase |-> "Progressing"]]
      BY <1>2, <1>3 DEF BookIs, InFlight, Holding
    <2>2. stacksBar[i].stage = "none"
      BY <1>3, StacksSeen DEF StackCreated, Stage, Deployed, Unsuccessful
    <2>3. stacksBar' = [stacksBar EXCEPT ![i] = [stage |-> "busy", app |-> a, tmpl |-> l.want]]
      <3>1. stack'[i].status = "CREATE_IN_PROGRESS" /\ stack'[i].app = a
            /\ stack'[i].tmpl = l.want /\ \A j \in Ids : j # i => stack'[j] = stack[j]
        BY <1>0, <1>3 DEF StackCreated
      <3>2. LifeStack(stack'[i]) = [stage |-> "busy", app |-> a, tmpl |-> l.want]
        BY <3>1 DEF LifeStack, Stage, Deployed, Unsuccessful
      <3> QED BY <3>1, <3>2, OneStack
    <2>4. Life!CreateStack(a, i, l.want)
      BY <1>0, <1>1, <1>3, <2>1, <2>2, <2>3
         DEF Life!CreateStack, Life!AtRest, Life!Holds, Life!Book, Life!Stack
    <2> QED BY <1>1, <1>3, <2>4 DEF Life!Next
  <1>4. ASSUME l.pc = "cuUpdate", StackUpdated(l.id, l.want), Reaches(l, m, "cuRecord")
        PROVE  Life!Next
    <2>1. bookBar' = [bookBar EXCEPT ![a] =
                        [id |-> l.id, tmpl |-> l.want, phase |-> "Progressing"]]
      BY <1>2, <1>4 DEF BookIs, InFlight, Holding, Reaches, Same
    <2>2. stacksBar[l.id].stage \in {"good", "bad"}
      BY <1>1, <1>4, StacksSeen
         DEF StackUpdated, Stage, Exists, Settled, Succeeded, Deployed, Unsuccessful
    <2>3. stacksBar' = [stacksBar EXCEPT ![l.id] =
                          [stage |-> "busy", app |-> a, tmpl |-> l.want]]
      <3>1. PICK s : /\ s = [stack[l.id] EXCEPT !.status = "UPDATE_IN_PROGRESS",
                               !.tmpl = l.want, !.prev = stack[l.id].tmpl]
                     /\ stack' = [stack EXCEPT ![l.id] = s]
        BY <1>4 DEF StackUpdated
      <3>2. s.status = "UPDATE_IN_PROGRESS" /\ s.app = a /\ s.tmpl = l.want
        BY <1>0, <1>1, <1>4, <3>1 DEF Stacks
      <3>3. stack'[l.id] = s /\ \A j \in Ids : j # l.id => stack'[j] = stack[j]
        BY <1>0, <1>1, <1>4, <3>1
      <3>4. LifeStack(stack'[l.id]) = [stage |-> "busy", app |-> a, tmpl |-> l.want]
        BY <3>2, <3>3 DEF LifeStack, Stage, Deployed, Unsuccessful
      <3> QED BY <1>1, <1>4, <3>3, <3>4, OneStack
    <2>4. bookBar[a].id = l.id /\ bookBar[a].phase # "Progressing"
      BY <1>1, <1>4
    <2>5. Life!UpdateStack(a, l.want)
      BY <1>0, <1>1, <1>4, <2>1, <2>2, <2>3, <2>4
         DEF Life!UpdateStack, Life!AtRest, Life!Holds, Life!Book, Life!Stack
    <2> QED BY <1>1, <1>4, <2>5 DEF Life!Next
  <1>5. ASSUME l.pc = "delCall", StackDeleted(l.id), Reaches(l, m, "delProgressing")
        PROVE  Life!Next
    <2>1. bookBar' = [bookBar EXCEPT ![a] =
                        [id |-> l.id, tmpl |-> rec[a].tmpl, phase |-> "Progressing"]]
      BY <1>0, <1>2, <1>5 DEF BookIs, InFlight, Holding, ToReport, Reaches, Same, TaskMatches
    <2>2. objectBar[a] = "deleting" /\ stacksBar[l.id].stage \in {"good", "bad"}
      BY <1>1, <1>5, StacksSeen
         DEF StackDeleted, HasSettled, Stage, Deployed, Unsuccessful
    <2>3. stacksBar' = [stacksBar EXCEPT ![l.id] = [stage |-> "leaving", app |-> a, tmpl |-> None]]
      <3>1. PICK s : /\ s = [stack[l.id] EXCEPT !.status = "DELETE_IN_PROGRESS"]
                     /\ stack' = [stack EXCEPT ![l.id] = s]
        BY <1>5 DEF StackDeleted
      <3>2. s.status = "DELETE_IN_PROGRESS" /\ s.app = a
        BY <1>0, <1>1, <1>5, <3>1 DEF Stacks
      <3>3. stack'[l.id] = s /\ \A j \in Ids : j # l.id => stack'[j] = stack[j]
        BY <1>0, <1>1, <1>5, <3>1
      <3>4. LifeStack(stack'[l.id]) = [stage |-> "leaving", app |-> a, tmpl |-> None]
        BY <3>2, <3>3 DEF LifeStack, Stage, Deployed, Unsuccessful
      <3> QED BY <1>1, <1>5, <3>3, <3>4, OneStack
    <2>4. bookBar[a].id = l.id /\ bookBar[a].phase # "Progressing"
          /\ bookBar[a].tmpl = rec[a].tmpl
      BY <1>1, <1>5
    <2>5. Life!DeleteStack(a)
      BY <1>0, <1>1, <1>5, <2>1, <2>2, <2>3, <2>4
         DEF Life!DeleteStack, Life!AtRest, Life!Book, Life!Stack
    <2> QED BY <1>1, <2>5 DEF Life!Next
  <1> HIDE DEF l, a
  <1>6. CASE /\ l.pc = "cuCreate"
             /\ \E i \in Ids : /\ StackCreated(a, l.want, i) /\ m.pc = "cuRecord"
                               /\ m.app = a /\ m.want = l.want /\ m.id = i
    BY <1>3, <1>6
  <1> QED BY <1>0, <1>4, <1>5, <1>6 DEF RequestFlow, l, a

-----------------------------------------------------------------------------
(* Reports.                                                                *)

(* The worker has no operation of application a under way. *)
Unclaimed(a) == ~(proc[Worker].app = a /\ InFlight(proc[Worker]))

(* What a watcher knows when it writes the record. *)
LEMMA Watching ==
  ASSUME LifeIInv, NEW p \in Procs, p # Worker, InCharge(p, proc[p])
  PROVE  LET l == proc[p]
             r == rec[l.app] IN
         /\ l.id = r.sid /\ l.id \in Ids /\ stack[l.id].app = l.app
         /\ r.status = "Progressing" /\ Unclaimed(l.app)
         /\ bookBar[l.app] = [id |-> r.sid, tmpl |-> r.tmpl, phase |-> "Progressing"]
  <1> DEFINE l == proc[p]
             u == proc[Worker]
  <1>1. /\ IInv /\ Knows(stack, accepted, l) /\ Aware(stack, rec, p, l)
        /\ Aware(stack, rec, Worker, u) /\ TaskMatches(u) /\ Worker \in Procs
    BY LocalFacts DEF LifeIInv, CalmInv, Knows
  <1>2. /\ l.id = rec[l.app].sid /\ rec[l.app].status = "Progressing" /\ l.id # None
        /\ l.id \in Ids /\ stack[l.id].app = l.app /\ l.app \in Apps
    BY <1>1 DEF Aware, Knows, Locals
  <1>3. Unclaimed(l.app)
    BY <1>1, <1>2 DEF Unclaimed, Aware, Claims, Claimed, Templated, InFlight, Holding, ToReport,
       TaskMatches
  <1>4. bookBar[l.app] = BookIs(u, rec[l.app], l.app)
    BY <1>1, <1>2, BookSeen
  <1> QED BY <1>2, <1>3, <1>4 DEF BookIs, Unclaimed

(* A record is dropped when its stack has been deleted, of an object that *)
(* is still there to be released.                                         *)
LEMMA Forgets ==
  ASSUME LifeIInv, NEW p \in Procs, proc[p].pc = "dropRecord", NEW a \in Apps,
         proc[p].app = a, proc[p].id = rec[a].sid, bookBar[a].id = rec[a].sid,
         objectBar' = objectBar, stacksBar' = stacksBar,
         bookBar' = [bookBar EXCEPT ![a] = [id |-> NoRecord.sid, tmpl |-> NoRecord.tmpl,
                                            phase |-> NoRecord.status]]
  PROVE  [Life!Next]_(Life!lifeVars)
  <1> DEFINE l == proc[p]
  <1>0. /\ IInv /\ DeletionInv /\ LifeInv /\ StacksOwned /\ Knows(stack, accepted, l)
        /\ Aware(stack, rec, p, l) /\ pc(p) = l.pc /\ app(p) = l.app
    BY LocalFacts DEF LifeIInv, CalmInv, IInv
  <1>1. /\ l.id # None /\ ~IsThere(stack, l.id) /\ l.id \in Ids /\ stack[l.id].app = a
    BY <1>0 DEF Aware, Knows, Locals
  <1>2. stack[l.id].status = "DELETE_COMPLETE"
    BY <1>0, <1>1, DomainAssumption DEF StacksOwned, IsThere
  <1>3. stacksBar[l.id].stage = "gone"
    BY <1>1, <1>2, StacksSeen DEF Stage, Deployed, Unsuccessful
  <1>4. Going(a)
    BY <1>0 DEF DeletionInv, Dropping, DropPlaces, Retired
  <1>5. Present(a)
    BY <1>0, <1>1 DEF LifeInv, Guarded
  <1>6. objectBar[a] = "deleting"
    BY <1>4, <1>5, ObjectSeen DEF Going, Present, LifeObject
  <1>7. bookBar' = [bookBar EXCEPT ![a] = Life!NoBook]
    BY DEF Life!NoBook, NoRecord
  <1>8. Life!Forget(a)
    BY <1>1, <1>3, <1>6, <1>7 DEF Life!Forget
  <1> QED BY <1>8 DEF Life!Next

LEMMA WriteStep ==
  ASSUME LifeIInv, IInv', Calm, NEW p \in Procs, NEW m \in Locals,
         proc' = [proc EXCEPT ![p] = m], KeepsObjects, SameRos, WriteFlow(proc[p], m)
  PROVE  [Life!Next]_(Life!lifeVars)
  <1> DEFINE l == proc[p]
             a == l.app
             u == proc[Worker]
             r == rec[a]
             s == rec'[a]
  <1>0. /\ IInv /\ CalmInv /\ DeletionInv /\ ReadyInv /\ LifeInv /\ Worker \in Procs
        /\ Aware(stack, rec, p, l) /\ TaskMatches(l) /\ TaskMatches(m)
        /\ Tracks(stack, rec, p, l) /\ objectBar' = objectBar /\ stacksBar' = stacksBar
        /\ proc'[p] = m /\ (p # Worker => proc'[Worker] = u)
    BY LocalFacts, InvFacts, SameObjects, SameStacks
       DEF LifeIInv, CalmInv, ReadyInv, Knows, IInv, Procs, ProcsOK
  <1>1. /\ InCharge(p, l) \/ Claims(p, l)
        /\ a \in Apps /\ m.app = a /\ m.id = l.id
        /\ \A b \in Apps : b # a => rec'[b] = rec[b]
        /\ Wrote(p, l, m, r, s)
    BY <1>0, CalmWrites
  <1>2. bookBar' = [bookBar EXCEPT ![a] = BookIs(proc'[Worker], s, a)]
    <2>1. ASSUME NEW b \in Apps, b # a
          PROVE  BookIs(proc'[Worker], rec'[b], b) = BookIs(u, rec[b], b)
      <3>1. rec'[b] = rec[b] /\ (p = Worker => u.app # b /\ proc'[Worker].app # b)
        BY <1>0, <1>1, <2>1
      <3> QED BY <1>0, <3>1 DEF BookIs
    <2> HIDE DEF a
    <2> QED BY <1>0, <1>1, <2>1, OneBook
  <1>3. bookBar[a] = BookIs(u, r, a)
    BY <1>0, <1>1, BookSeen
  <1>4. ASSUME BookIs(proc'[Worker], s, a) = bookBar[a]
        PROVE  [Life!Next]_(Life!lifeVars)
    <2>1. bookBar' = bookBar
      BY <1>2, <1>4 DEF bookBar
    <2> QED BY <1>0, <2>1, Stutters
  (* The reports of a watcher. *)
  <1>5. CASE p # Worker
    <2>1. InCharge(p, l)
      BY <1>1, <1>5 DEF Claims
    <2>2. /\ l.id = r.sid /\ l.id \in Ids /\ stack[l.id].app = a
          /\ r.status = "Progressing" /\ Unclaimed(a)
          /\ bookBar[a] = [id |-> r.sid, tmpl |-> r.tmpl, phase |-> "Progressing"]
      BY <1>5, <2>1, Watching
    <2>3. bookBar' = [bookBar EXCEPT ![a] = [id |-> s.sid, tmpl |-> s.tmpl, phase |-> s.status]]
      BY <1>0, <1>2, <1>5, <2>2 DEF BookIs, Unclaimed
    <2>4. CASE l.pc = "setWrite" /\ l.task = "Ready"
      <3>1. stack[l.id].status \in Deployed
        BY <1>0, <1>5, <2>4 DEF HasSeenIt, Tracks
      <3>2. stack[l.id].tmpl = r.tmpl
        BY <1>0, <2>1, <3>1 DEF Tracks, Follows, InDelete, Deployed
      <3>3. stacksBar[l.id].stage = "good" /\ stacksBar[l.id].tmpl = r.tmpl
        BY <2>2, <3>1, <3>2, StacksSeen DEF Stage, Deployed, Unsuccessful
      <3>4. s.sid = r.sid /\ s.tmpl = r.tmpl /\ s.status = "Ready"
        BY <1>1, <2>4 DEF Wrote
      <3>5. Life!Succeed(a)
        BY <1>0, <1>1, <2>2, <2>3, <3>3, <3>4
           DEF Life!Succeed, Life!Ends, Life!AtRest, Life!Book
      <3> QED BY <1>1, <3>5 DEF Life!Next
    <2>5. CASE l.pc = "setWrite" /\ l.task = "Failed"
      <3>1. stack[l.id].status \in Unsuccessful
        BY <1>0, <1>5, <2>5 DEF HasSeenFailure, LifeInv
      <3>2. stacksBar[l.id].stage = "bad"
        BY <2>2, <3>1, StacksSeen DEF Stage, Deployed, Unsuccessful
      <3>3. s.sid = r.sid /\ s.tmpl = r.tmpl /\ s.status = "Failed"
        BY <1>1, <2>5 DEF Wrote
      <3>4. Life!Fail(a)
        BY <1>0, <1>1, <2>2, <2>3, <3>2, <3>3
           DEF Life!Fail, Life!Ends, Life!AtRest, Life!Book
      <3> QED BY <1>1, <3>4 DEF Life!Next
    <2>6. CASE l.pc = "nameOutputs"
      <3>1. s.status = r.status /\ s.sid = r.sid /\ s.tmpl = r.tmpl
        BY <1>1, <2>6 DEF Wrote
      <3> QED BY <1>0, <1>4, <1>5, <2>2, <3>1 DEF BookIs, Unclaimed
    <2>7. CASE l.pc = "dropRecord"
      <3>1. s = NoRecord
        BY <1>1, <2>7 DEF Wrote
      <3>2. bookBar[a].id = r.sid
        BY <2>2
      <3>3. bookBar' = [bookBar EXCEPT ![a] = [id |-> NoRecord.sid, tmpl |-> NoRecord.tmpl,
                                               phase |-> NoRecord.status]]
        BY <2>3, <3>1
      <3> QED BY <1>0, <1>1, <2>2, <2>7, <3>2, <3>3, Forgets
    <2> QED BY <1>1, <1>5, <2>4, <2>5, <2>6, <2>7 DEF Wrote
  (* The writes of the worker. *)
  <1>6. CASE p = Worker
    <2>1. proc'[Worker] = m /\ u = l
      BY <1>0, <1>6
    <2>2. CASE l.pc = "setWrite" /\ l.task = "Record"
      <3>1. m.pc = "cuProgressing" /\ s.tmpl = l.want
        BY <1>1, <2>2 DEF Wrote
      <3>2. BookIs(m, s, a) = [id |-> l.id, tmpl |-> l.want, phase |-> "Progressing"]
        BY <1>0, <1>1, <3>1 DEF BookIs, InFlight, Holding, ToReport, TaskMatches
      <3>3. bookBar[a] = [id |-> l.id, tmpl |-> l.want, phase |-> "Progressing"]
        BY <1>3, <2>1, <2>2 DEF BookIs, InFlight, Holding
      <3> QED BY <1>4, <2>1, <3>2, <3>3
    <2>3. CASE l.pc = "setWrite" /\ l.task = "Progressing"
      <3>1. m.pc = "listAdd" /\ s.status = "Progressing" /\ s.sid = r.sid /\ s.tmpl = r.tmpl
        BY <1>1, <2>3 DEF Wrote
      <3>2. BookIs(m, s, a) = [id |-> r.sid, tmpl |-> r.tmpl, phase |-> "Progressing"]
        BY <1>0, <3>1 DEF BookIs, InFlight, Holding, ToReport, TaskMatches
      <3>3. l.id = r.sid
        BY <1>0, <1>6, <2>3 DEF Aware, ToReport
      <3>4. bookBar[a] = [id |-> r.sid, tmpl |-> r.tmpl, phase |-> "Progressing"]
        BY <1>3, <2>1, <2>3, <3>3 DEF BookIs, InFlight, Holding, ToReport
      <3> QED BY <1>4, <2>1, <3>2, <3>4
    <2>4. r.status # "Progressing" \/ (l.pc = "setWrite" /\ l.task \in {"Record", "Progressing"})
      BY <1>0, <1>1, <1>6 DEF Wrote, Aware, Claims, Claimed
    <2>5. CASE l.pc = "setWrite" /\ l.task \in {"Ready", "Failed"}
      <3>1. l.task = "Failed"
        BY <1>0, <1>6, <2>5 DEF Aware, InPlace
      <3>2. m.pc = "listRead" /\ s.sid = r.sid /\ s.tmpl = r.tmpl /\ s.status = "Failed"
        BY <1>1, <2>5, <3>1 DEF Wrote
      <3>3. bookBar[a] = [id |-> r.sid, tmpl |-> r.tmpl, phase |-> r.status]
        BY <1>3, <2>1, <2>5 DEF BookIs, InFlight, Holding, ToReport
      <3>4. BookIs(m, s, a) = [id |-> r.sid, tmpl |-> r.tmpl, phase |-> "Failed"]
        BY <1>0, <3>2 DEF BookIs, InFlight, Holding, ToReport, TaskMatches
      <3>5. bookBar' = [bookBar EXCEPT ![a] = [id |-> r.sid, tmpl |-> r.tmpl, phase |-> "Failed"]]
        BY <1>2, <2>1, <3>4
      <3>6. r.status # "Progressing"
        BY <2>4, <3>1
      <3>7. /\ bookBar[a].id = r.sid /\ bookBar[a].tmpl = r.tmpl
            /\ bookBar[a].phase # "Progressing"
        BY <3>3, <3>6
      <3>8. Life!Refuse(a)
        BY <1>0, <3>5, <3>7 DEF Life!Refuse, Life!AtRest, Life!Book
      <3> QED BY <1>1, <3>8 DEF Life!Next
    <2>6. CASE l.pc = "dropRecord"
      <3>1. m.pc = "listRead" /\ s = NoRecord /\ l.id = r.sid /\ l.id # None
        BY <1>0, <1>1, <1>6, <2>6 DEF Wrote, Aware
      <3>2. bookBar[a] = [id |-> r.sid, tmpl |-> r.tmpl, phase |-> r.status]
        BY <1>0, <1>3, <2>1, <2>6 DEF BookIs, InFlight, Holding, ToReport, TaskMatches
      <3>3. bookBar' = [bookBar EXCEPT ![a] = [id |-> s.sid, tmpl |-> s.tmpl, phase |-> s.status]]
        BY <1>0, <1>2, <2>1, <3>1 DEF BookIs, InFlight, Holding, ToReport, TaskMatches
      <3>4. bookBar' = [bookBar EXCEPT ![a] = [id |-> NoRecord.sid, tmpl |-> NoRecord.tmpl,
                                               phase |-> NoRecord.status]]
        BY <3>1, <3>3
      <3>5. bookBar[a].id = r.sid
        BY <3>2
      <3> QED BY <1>0, <1>1, <2>6, <3>1, <3>4, <3>5, Forgets
    <2> QED BY <1>1, <1>6, <2>2, <2>3, <2>5, <2>6 DEF Wrote
  <1> QED BY <1>5, <1>6

-----------------------------------------------------------------------------
(* Every step.                                                             *)

LEMMA FlowStep ==
  ASSUME LifeIInv, IInv', Calm, NEW p \in Procs, NEW m \in Locals,
         proc' = [proc EXCEPT ![p] = m], Flow(p, proc[p], m)
  PROVE  [Life!Next]_(Life!lifeVars)
  <1> DEFINE l == proc[p]
  <1>0. IInv /\ CalmInv /\ ReadyInv /\ ~Fails
    BY CalmFacts DEF LifeIInv
  <1>1. CASE /\ rec' = rec /\ SameRos /\ KeepsObjects
             /\ \/ HandlerFlow(l, m) /\ p = Worker
                \/ WatcherFlow(l, m) /\ p # Worker
                \/ ProcedureFlow(l, m)
                \/ ConflictFlow(l, m) /\ p \in overtaken
    <2>1. bookBar' = bookBar
      BY <1>0, <1>1, BooksKept
    <2> QED BY <1>1, <2>1, SameObjects, SameStacks, Stutters
  <1>2. CASE rec' = rec /\ SameRos /\ FinalizerFlow(l, m)
    BY <1>2, FinalizerStep
  <1>3. CASE rec' = rec /\ KeepsObjects /\ RequestFlow(l, m) /\ p = Worker
    BY <1>3, RequestStep
  <1>4. CASE KeepsObjects /\ SameRos /\ WriteFlow(l, m)
    BY <1>4, WriteStep
  <1>5. ~FailureFlow(l, m)
    BY <1>0 DEF FailureFlow
  <1> QED BY <1>1, <1>2, <1>3, <1>4, <1>5 DEF Flow

(* A watcher starts when the operation has been recorded. *)
LEMMA StartStep ==
  ASSUME LifeIInv, IInv', StartFlow
  PROVE  [Life!Next]_(Life!lifeVars)
  <1>1. PICK w \in Watchers, m \in Locals : WatcherStarts(w, m)
    BY DEF StartFlow, WatcherStarts
  <1>2. PICK v \in Locals :
          /\ proc' = [proc EXCEPT ![w] = v, ![Worker] = m]
          /\ pc(Worker) \in {"spawn", "spawnRequeue", "recover"}
          /\ m.pc \in {"idle", "recover"}
    BY <1>1 DEF WatcherStarts
  <1>0. /\ IInv /\ Worker \in Procs /\ w \in Procs /\ w # Worker /\ proc \in [Procs -> Locals]
        /\ rec' = rec /\ KeepsObjects /\ SameRos /\ pc(Worker) = proc[Worker].pc
        /\ TaskMatches(proc[Worker]) /\ TaskMatches(proc'[Worker])
    BY InvFacts, DomainAssumption DEF LifeIInv, ProcsOK, StartFlow, Knows, IInv, pc, Procs
  <1>3. proc'[Worker] = m
    BY <1>0, <1>2
  <1>4. ~InFlight(proc[Worker]) /\ ~InFlight(m)
    BY <1>0, <1>2, <1>3 DEF InFlight, Holding, ToReport, TaskMatches
  <1>5. bookBar' = bookBar
    BY <1>0, <1>3, <1>4, SameBooks DEF BookIs
  <1> QED BY <1>0, <1>5, SameObjects, SameStacks, Stutters

(* What users do to the objects. *)
LEMMA UserLife ==
  ASSUME LifeIInv, ~ReuseNames, UserStep, bookBar' = bookBar
  PROVE  [Life!Next]_(Life!lifeVars)
  <1>0. /\ IInv /\ stacksBar' = stacksBar /\ conf \in [Apps -> Confs]
    BY InvFacts, SameStacks DEF LifeIInv, UserStep, ConfTypeOK
  <1>1. ASSUME NEW a \in Apps, UserCreates(a)
        PROVE  Life!Next
    <2>1. PICK c : /\ Change(a, c) /\ c.state = "live" /\ ~c.fin
      <3>1. PICK t \in Specs : Change(a, [NoConf EXCEPT !.state = "live", !.spec = t])
        BY <1>1 DEF UserCreates, UserDoes
      <3> DEFINE c == [NoConf EXCEPT !.state = "live", !.spec = t]
      <3>2. c.state = "live" /\ c.fin = FALSE
        BY DEF NoConf
      <3> HIDE DEF c
      <3>3. Change(a, c)
        BY <3>1 DEF c
      <3> QED BY <3>2, <3>3
    <2>2. objectBar' = [objectBar EXCEPT ![a] = "live"]
      BY <1>0, <2>1, OneObject DEF LifeObject
    <2>3. objectBar[a] = "absent"
      BY <1>1, ObjectSeen DEF UserCreates, LifeObject
    <2>4. Life!UserCreates(a)
      BY <1>0, <2>2, <2>3 DEF Life!UserCreates, Life!Object
    <2> QED BY <2>4 DEF Life!Next
  <1>2. ASSUME NEW a \in Apps, UserEdits(a)
        PROVE  objectBar' = objectBar
    <2>1. PICK c : Change(a, c) /\ c.state = conf[a].state /\ c.fin = conf[a].fin
      <3>1. PICK t \in Specs : UserDoes(a, [conf[a] EXCEPT !.spec = t])
        BY <1>2 DEF UserEdits
      <3>2. [conf[a] EXCEPT !.spec = t].state = conf[a].state
            /\ [conf[a] EXCEPT !.spec = t].fin = conf[a].fin
        BY <1>0 DEF Confs
      <3> QED BY <3>1, <3>2 DEF UserDoes
    <2>2. \A b \in Apps : conf'[b] = IF b = a THEN c ELSE conf[b]
      BY <1>0, <2>1 DEF Change
    <2> QED BY <2>1, <2>2 DEF objectBar, LifeObject
  <1>3. ASSUME NEW a \in Apps, UserDeletes(a)
        PROVE  Life!Next
    <2>1. PICK c : /\ Change(a, c)
                   /\ c.state = IF conf[a].fin THEN "deleting" ELSE "gone"
      <3> DEFINE d == [conf[a] EXCEPT !.state = "deleting"]
      <3>1. d.state = "deleting" /\ GoneConf.state = "gone"
        BY <1>0 DEF Confs, GoneConf, NoConf
      <3>2. Change(a, IF conf[a].fin THEN d ELSE GoneConf)
        BY <1>3 DEF UserDeletes, UserDoes
      <3> HIDE DEF d
      <3> QED BY <3>1, <3>2
    <2>2. objectBar' = [objectBar EXCEPT ![a] = IF conf[a].fin THEN "deleting" ELSE "gone"]
      BY <1>0, <2>1, OneObject DEF LifeObject
    <2>3. objectBar[a] = IF conf[a].fin THEN "held" ELSE "live"
      BY <1>3, ObjectSeen DEF UserDeletes, LifeObject
    <2>4. Life!UserDeletes(a)
      BY <1>0, <2>2, <2>3 DEF Life!UserDeletes, Life!Object
    <2> QED BY <2>4 DEF Life!Next
  <1>4. ASSUME InformerResyncs
        PROVE  objectBar' = objectBar
    <2>1. conf' = conf
      BY <1>4 DEF InformerResyncs
    <2> QED BY <2>1 DEF objectBar, LifeObject
  <1> QED BY <1>0, <1>1, <1>2, <1>3, <1>4, Stutters DEF UserStep

(* What the service does to a stack: it ends an operation, or goes on. *)
LEMMA ServiceLife ==
  ASSUME LifeIInv, Calm, NoConsole, RosStep, KeepsObjects, bookBar' = bookBar
  PROVE  [Life!Next]_(Life!lifeVars)
  <1>0. stack \in [Ids -> Stacks] /\ objectBar' = objectBar
    BY InvFacts, SameObjects DEF LifeIInv, RosTypeOK
  <1>1. PICK j \in Ids, v \in Moves :
          /\ stack[j].status = v[1]
          /\ stack' = [stack EXCEPT ![j] = [@ EXCEPT !.status = v[2],
               !.tmpl = IF v[2] = "ROLLBACK_COMPLETE" THEN stack[j].prev ELSE stack[j].tmpl]]
    BY DEF RosStep, StackMoves
  <1> DEFINE t == IF v[2] = "ROLLBACK_COMPLETE" THEN stack[j].prev ELSE stack[j].tmpl
             w == [stack[j] EXCEPT !.status = v[2], !.tmpl = t]
  <1>2. stack' = [stack EXCEPT ![j] = w]
    BY <1>1
  <1>3. /\ w.status = v[2] /\ w.app = stack[j].app
        /\ v[2] # "ROLLBACK_COMPLETE" => w.tmpl = stack[j].tmpl
    BY <1>0 DEF Stacks
  <1> HIDE DEF t, w
  <1>4. stack'[j] = w /\ \A i \in Ids : i # j => stack'[i] = stack[i]
    BY <1>0, <1>2
  <1>5. stacksBar' = [stacksBar EXCEPT ![j] = LifeStack(w)]
    BY <1>4, OneStack
  <1>6. \/ /\ Stage(v[1]) = "busy"
           /\ \/ Stage(v[2]) \in {"busy", "good"} /\ v[2] # "ROLLBACK_COMPLETE"
              \/ Stage(v[2]) = "bad"
        \/ Stage(v[1]) = "leaving" /\ Stage(v[2]) = "gone"
    BY DEF NoConsole, Calm, ServiceMoves, Stage, Deployed, Unsuccessful
  <1>7. stacksBar[j] = LifeStack(stack[j])
    BY DEF stacksBar
  <1>8. CASE Stage(v[1]) = "busy" /\ Stage(v[2]) = "busy"
    <2>1. LifeStack(w) = stacksBar[j]
      BY <1>1, <1>3, <1>6, <1>7, <1>8 DEF LifeStack
    <2>2. stacksBar' = stacksBar
      BY <1>5, <2>1 DEF stacksBar
    <2> QED BY <1>0, <2>2, Stutters
  <1>9. CASE ~(Stage(v[1]) = "busy" /\ Stage(v[2]) = "busy")
    <2>1. /\ stacksBar[j].stage = Stage(v[1]) /\ stacksBar[j].app = w.app
          /\ Stage(v[1]) = "busy" => stacksBar[j].tmpl = stack[j].tmpl
      BY <1>1, <1>3, <1>7 DEF LifeStack
    <2>2. LifeStack(w) = [stage |-> Stage(v[2]), app |-> w.app,
                          tmpl |-> IF Stage(v[2]) \in {"busy", "good"} THEN w.tmpl ELSE None]
      BY <1>3 DEF LifeStack
    <2>3. stacksBar' = [stacksBar EXCEPT ![j] = [stage |-> Stage(v[2]), app |-> stacksBar[j].app,
                          tmpl |-> IF Stage(v[2]) = "good" THEN stacksBar[j].tmpl ELSE None]]
      BY <1>3, <1>5, <1>6, <1>9, <2>1, <2>2
    <2> HIDE DEF Stage
    <2>4. Life!Settle(j)
      BY <1>0, <1>6, <1>9, <2>1, <2>3 DEF Life!Settle, Life!Stack
    <2> QED BY <2>4 DEF Life!Next
  <1> QED BY <1>8, <1>9

LEMMA OutsideStep ==
  ASSUME LifeIInv, IInv', Calm, NoConsole, ~ReuseNames, OutsideFlow
  PROVE  [Life!Next]_(Life!lifeVars)
  <1>1. bookBar' = bookBar
    BY SameBooks DEF LifeIInv, OutsideFlow
  <1> QED BY <1>1, UserLife, ServiceLife DEF OutsideFlow

LEMMA NextImplements ==
  ASSUME LifeIInv, Next, Calm, NoConsole, ~ReuseNames
  PROVE  [Life!Next]_(Life!lifeVars)
  <1>1. IInv /\ CalmInv /\ IInv' /\ AllFlows
    BY NextInv, NextFlows DEF LifeIInv
  <1>2. CASE Flows
    <2>1. PICK p \in Procs, m \in Locals :
            proc' = [proc EXCEPT ![p] = m] /\ Flow(p, proc[p], m)
      BY <1>2 DEF Flows
    <2> QED BY <1>1, <2>1, FlowStep
  <1> QED BY <1>1, <1>2, StartStep, OutsideStep, NoEnd DEF AllFlows

LEMMA InitImplements ==
  ASSUME Init
  PROVE  Life!Init
  <1>0. IInv /\ Worker \in Procs
    BY InitInv DEF Procs
  <1>1. proc[Worker].pc = "load" /\ proc[Worker].task = "none"
    BY <1>0 DEF Init, Booted, At
  <1>2. ~InFlight(proc[Worker])
    BY <1>1 DEF InFlight, Holding, ToReport
  <1>3. bookBar = [a \in Apps |-> Life!NoBook]
    <2>1. \A a \in Apps : BookIs(proc[Worker], rec[a], a) = Life!NoBook
      BY <1>2 DEF BookIs, Init, NoRecord, Life!NoBook
    <2> QED BY <1>0, <2>1, BooksSeen
  <1>4. objectBar = [a \in Apps |-> "absent"]
    BY DEF Init, ConfInit, NoConf, objectBar, LifeObject
  <1>5. stacksBar = [i \in Ids |-> Life!Unmade]
    <2>1. LifeStack(NoStack) = Life!Unmade
      BY DEF LifeStack, NoStack, Stage, Deployed, Unsuccessful, Life!Unmade
    <2> QED BY <2>1 DEF Init, RosInit, stacksBar
  <1> QED BY <1>3, <1>4, <1>5 DEF Life!Init

LEMMA LifeIInvariance ==
  ASSUME Calm, NoConsole, ~ReuseNames
  PROVE  Spec => []LifeIInv
  <1>1. IInv /\ CalmInv /\ DeletionInv /\ RecordInv /\ GuardInv /\ ReadyInv /\ LifeInv => LifeIInv
    BY DEF LifeIInv
  <1>2. Spec => [](IInv /\ CalmInv)
    BY CalmInvariance
  <1>3. Spec => [](IInv /\ DeletionInv /\ RecordInv)
    BY NobodyElse, RecordInvariance
  <1>4. Spec => []GuardInv
    BY NobodyElse, GuardInvariance
  <1>5. Spec => []ReadyInv
    BY ReadyInvariance
  <1>6. Spec => []LifeInv
    BY LifeInvariance
  <1> QED BY <1>1, <1>2, <1>3, <1>4, <1>5, <1>6, PTL

(* The handlers of appconf.go and the watchers they start, whose Kubernetes *)
(* and ROS calls interleave in any order with each other, with the users    *)
(* and with the service, implement LifeCycle: every operation on a stack    *)
(* appears to begin in one step (the request, appconf.go:114, :127, :135 or *)
(* :208) and to end in one (SetReady, SetError or Delete of                 *)
(* waitStackDoneAndSaveOutputs, :301, :308, :315), one at a time for an     *)
(* application.                                                             *)
THEOREM LifeCycleImplemented ==
  ASSUME Calm, NoConsole, ~ReuseNames
  PROVE  Spec => ImplementsLifeCycle
  <1>1. LifeIInv /\ [Next]_vars => [Life!Next]_(Life!lifeVars)
    <2>1. ASSUME UNCHANGED vars PROVE [Life!Next]_(Life!lifeVars)
      <3>1. UNCHANGED <<objectBar, bookBar, stacksBar>>
        BY <2>1 DEF vars, objectBar, bookBar, stacksBar, LifeBook, MidFlight, pc, app
      <3> QED BY <3>1, Stutters
    <2> QED BY <2>1, NextImplements
  <1> QED BY <1>1, InitImplements, LifeIInvariance, PTL DEF Spec, ImplementsLifeCycle, Life!Spec

(* What a user reads in the record is so (Reliable of LifeCycle): the stack *)
(* that exists is the recorded one and shows as Progressing while ROS works *)
(* on it (appconf.go:123, :154, :222), the object stays until the record    *)
(* has been dropped (:211, :315), and Ready means deployed (:301).          *)
THEOREM LifeReliable ==
  ASSUME Calm, NoConsole, ~ReuseNames
  PROVE  Spec => []LifeIsReliable
  <1>1. ASSUME LifeIInv PROVE LifeIsReliable
    <2> DEFINE u == proc[Worker]
    <2>0. /\ IInv /\ StacksHeld /\ ReadyMeansDeployed /\ LifeInv /\ Worker \in Procs
          /\ Aware(stack, rec, Worker, u) /\ app(Worker) = u.app
          /\ rec \in [Apps -> Records]
          /\ \A a \in Apps : MidFlight(Worker, a) <=> u.app = a /\ InFlight(u)
      BY <1>1, InvFacts, InFlightIsMid DEF LifeIInv, CalmInv, ReadyInv, Procs, app
    <2>1. ASSUME NEW a \in Apps
          PROVE  IF u.app = a /\ InFlight(u)
                 THEN bookBar[a].id = u.id /\ bookBar[a].phase = "Progressing"
                 ELSE /\ bookBar[a].id = rec[a].sid /\ bookBar[a].tmpl = rec[a].tmpl
                      /\ bookBar[a].phase = rec[a].status
      <3>1. bookBar[a] = BookIs(u, rec[a], a)
        BY <2>0, BookSeen
      <3> QED BY <3>1 DEF BookIs
    <2>2. ASSUME NEW i \in Ids, stacksBar[i].stage \notin {"none", "gone"}
          PROVE  LET a == stacksBar[i].app IN
                 /\ a \in Apps /\ bookBar[a].id = i
                 /\ stacksBar[i].stage \in {"busy", "leaving"} => bookBar[a].phase = "Progressing"
      <3> DEFINE a == stack[i].app
      <3>1. Exists(i) /\ IsThere(stack, i) /\ stacksBar[i].app = a
        BY <2>2, StacksSeen DEF Exists, IsThere, Stage, Deployed, Unsuccessful
      <3>2. a \in Apps /\ (rec[a].sid = i \/ (Holding(u) /\ u.id = i /\ u.app = a))
        BY <2>0, <3>1 DEF StacksHeld
      <3>3. CASE u.app = a /\ InFlight(u)
        <4>1. u.id = i
          BY <2>0, <3>1, <3>2, <3>3 DEF Aware, InFlight
        <4> QED BY <2>1, <3>1, <3>2, <3>3, <4>1
      <3>4. CASE ~(u.app = a /\ InFlight(u))
        <4>1. rec[a].sid = i /\ i # None
          BY <3>2, <3>4, DomainAssumption DEF InFlight
        <4>2. bookBar[a].id = i /\ bookBar[a].phase = rec[a].status
          BY <2>1, <3>2, <3>4, <4>1
        <4>3. rec[a].status # "Progressing" => stack[i].status \in Deployed \cup Unsuccessful
          BY <2>0, <3>2, <3>4, <4>1 DEF LifeInv
        <4>4. stack[i].status \in Deployed \cup Unsuccessful => stacksBar[i].stage \in {"good", "bad"}
          BY StacksSeen DEF Stage, Deployed, Unsuccessful
        <4> QED BY <3>1, <3>2, <4>2, <4>3, <4>4
      <3> QED BY <3>3, <3>4
    <2>3. ASSUME NEW a \in Apps, bookBar[a].id # None
          PROVE  objectBar[a] \in {"held", "deleting"}
      <3>1. rec[a].sid # None \/ (Holding(u) /\ u.app = a)
        BY <2>0, <2>1, <2>3 DEF InFlight, Aware
      <3>2. Guarded(a)
        BY <2>0, <3>1 DEF LifeInv
      <3> QED BY <3>2, ObjectSeen DEF Guarded, Present, LifeObject
    <2>4. ASSUME NEW a \in Apps, bookBar[a].phase = "Ready", bookBar[a].id # None
          PROVE  stacksBar[bookBar[a].id] =
                   [stage |-> "good", app |-> a, tmpl |-> bookBar[a].tmpl]
      <3>1. ~(u.app = a /\ InFlight(u))
        BY <2>1, <2>4
      <3>2. /\ bookBar[a].id = rec[a].sid /\ bookBar[a].tmpl = rec[a].tmpl
            /\ rec[a].status = "Ready" /\ rec[a].sid # None
        BY <2>1, <2>4, <3>1
      <3> DEFINE i == rec[a].sid
      <3>3. stack[i].status \in Deployed /\ stack[i].tmpl = rec[a].tmpl
        BY <2>0, <3>1, <3>2 DEF ReadyMeansDeployed
      <3>4. i \in Ids /\ stack[i].app = a
        BY <2>0, <3>2 DEF Records, IInv, Paired
      <3>5. Stage(stack[i].status) = "good"
        BY <3>3 DEF Stage, Deployed, Unsuccessful
      <3>6. LifeStack(stack[i]) = [stage |-> "good", app |-> a, tmpl |-> rec[a].tmpl]
        BY <3>3, <3>4, <3>5 DEF LifeStack
      <3> QED BY <3>2, <3>4, <3>6 DEF stacksBar
    <2> QED BY <2>2, <2>3, <2>4 DEF LifeIsReliable, Life!Reliable, Life!Holds
  <1> QED BY <1>1, LifeIInvariance, PTL
=============================================================================
