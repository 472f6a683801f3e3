--------------------------- MODULE CalmInvariant ----------------------------
(***************************************************************************)
(* The inductive invariant behind the guarantees RosController gives while *)
(* its own process does not fail: who is in charge of an application in    *)
(* Progressing, and which stack is in whose hand.                          *)
(***************************************************************************)
EXTENDS ControllerInvariant

(* Nothing of the process fails, and ROS deletes what it is asked to; users, *)
(* consoles, refusals and the order of events are arbitrary.                 *)
Calm == MaxFaults = 0 /\ MaxCrashes = 0 /\ \A m \in Moves : m[2] # "DELETE_FAILED"

(* The places at which a watcher has not yet reported the end of its stack. *)
Reporting == {"wait", "saveOutputs", "nameOutputs", "ready", "failed", "drop",
              "dropOutputs", "dropRecord", "setWrite"}

(* A goroutine p with local state l will report to the application's       *)
(* record, or start the watcher that will; ...                             *)
InCharge(p, l) ==
  IF p = Worker
  THEN \/ l.pc \in {"spawn", "spawnRequeue"}
       \/ l.pc \in {"listAdd", "condition"} /\ l.task = "Progressing"
  ELSE l.pc \in Reporting
(* ... or it has the application to itself until SetProgressing is done.   *)
Claims(p, l) == p = Worker /\ l.pc \in Claimed

(* The worker is about to write "Progressing". *)
ToReport(l) == \/ l.pc \in {"cuProgressing", "delProgressing"}
               \/ l.pc = "setWrite" /\ l.task = "Progressing"

(* A stack of st that is neither to be created nor deleted. *)
IsThere(st, i) == st[i].status \notin {"ABSENT", "DELETE_COMPLETE"}

(* The places, and the returns from procedures, of watchers and worker. *)
InPlace(p, l) ==
  IF p = Worker
  THEN /\ l.pc \notin {"wait", "saveOutputs", "nameOutputs", "ready", "failed", "drop",
                       "wFinalizer", "recover"}
       /\ l.pc = "setWrite" => \/ l.task = "Record" /\ l.ok = "cuProgressing"
                               \/ l.task = "Progressing" /\ l.ok = "spawn"
                               \/ l.task = "Failed" /\ l.ok = "idle"
       /\ l.pc \in {"setWrite", "listAdd", "condition"} /\ l.task = "Progressing" =>
            l.ok = "spawn" /\ l.fail \in {"spawnRequeue", "requeue"}
       /\ \/ l.pc \in {"listRead", "listWrite", "condition"} /\ l.task # "Progressing"
          \/ l.pc = "setWrite" /\ l.task = "Failed"
          => l.ok \in {"idle", "delFinalizer"} /\ l.fail = "requeue"
       /\ l.pc \in {"dropOutputs", "dropRecord"} => l.ok = "delFinalizer" /\ l.fail = "requeue"
  ELSE /\ l.pc \in {"idle", "listRead", "listWrite", "condition", "wFinalizer"} \cup Reporting
       /\ l.pc = "setWrite" => l.task \in {"Ready", "Failed"} /\ l.ok = "idle"
       /\ l.pc = "condition" => l.task # "Progressing"
       /\ l.pc \in {"setWrite", "listRead", "listWrite", "condition",
                    "dropOutputs", "dropRecord"} => l.fail = l.ok
       /\ l.pc \in {"listRead", "listWrite", "condition"} => l.ok \in {"idle", "wFinalizer"}
       /\ l.pc \in {"dropOutputs", "dropRecord"} => l.ok = "wFinalizer"
       /\ l.pc = "failed" => ~l.inDelete

(* What p knows of the record of its application, and of its stack. *)
Aware(st, rc, p, l) ==
  LET r == rc[l.app] IN
  /\ InPlace(p, l)
  /\ InCharge(p, l) => r.status = "Progressing" /\ l.id = r.sid /\ l.id # None
  /\ Claims(p, l) => r.status # "Progressing"
  /\ l.pc = "setWrite" => l.snap = r
  /\ p = Worker /\ (ToReport(l) \/ l.pc \in {"cuFinalizer", "cuUpdate", "delCall",
       "delRecord", "dropOutputs", "dropRecord"}) => l.id = r.sid
  /\ p = Worker /\ ToReport(l) => l.id # None
  /\ l.pc \in {"drop", "delRecord", "dropOutputs", "dropRecord"} =>
       l.id # None /\ ~IsThere(st, l.id)
  /\ p = Worker /\ l.pc = "cuCreate" => \A i \in Ids : IsThere(st, i) => st[i].app # l.app
  /\ p = Worker /\ Holding(l) =>
       \A i \in Ids : IsThere(st, i) /\ st[i].app = l.app => i = l.id

(* One goroutine at a time is in charge of an application. *)
OneInCharge ==
  \A p, q \in Procs :
    InCharge(p, proc[p]) /\ InCharge(q, proc[q]) /\ app(p) = app(q) => p = q

(* An application in Progressing has one, or its deletion met a conflict. *)
SomeoneInCharge ==
  \A a \in Apps : rec[a].status = "Progressing" =>
    \/ a \in abandoned
    \/ \E p \in Procs : InCharge(p, proc[p]) /\ app(p) = a

(* As nobody else writes the record, the write of set meets no conflict. *)
NoneOvertaken == \A p \in overtaken : pc(p) # "setWrite"

(* Every stack is recorded, or in the worker's hand. *)
StacksHeld ==
  \A i \in Ids : Exists(i) =>
    /\ stack[i].app \in Apps
    /\ \/ rec[stack[i].app].sid = i
       \/ Holding(proc[Worker]) /\ proc[Worker].id = i /\ app(Worker) = stack[i].app

(* The list is empty when the process starts, and nobody adds to it yet. *)
NothingToRecover ==
  pc(Worker) = "load" => infos = {} /\ \A w \in Watchers : pc(w) = "idle"

(* ROS does delete what it is asked to. *)
NoneFailed == \A i \in Ids : stack[i].status # "DELETE_FAILED"

CalmInv ==
  /\ \A p \in Procs : Aware(stack, rec, p, proc[p])
  /\ OneInCharge /\ SomeoneInCharge /\ StacksHeld /\ NothingToRecover /\ NoneFailed
  /\ NoneOvertaken

-----------------------------------------------------------------------------
(* Why FinalizerGuards holds, next to CalmInv and DeletionInv: what is left *)
(* of an application is its finalizer, and nothing needs it any more.       *)

Guarded(a) == Present(a) /\ conf[a].fin

Leaving(l) ==
  \/ l.pc \in {"delFinalizer", "wFinalizer"}
  \/ l.pc \in InProcedure \ {"dropOutputs", "dropRecord"} /\ l.ok \in {"delFinalizer", "wFinalizer"}

GuardInv ==
  /\ FinalizerGuards
  /\ pc(Worker) \in {"cuCreate", "cuUpdate"} => Guarded(app(Worker))
  /\ \A p \in Procs : Leaving(proc[p]) => \A i \in Ids : Exists(i) => stack[i].app # app(p)

-----------------------------------------------------------------------------
(* Why ReadyMeansDeployed holds, next to CalmInv, as long as nobody uses    *)
(* the console of ROS.                                                      *)

(* Stack i of st has template t, or has been given up: it cannot complete. *)
Follows(st, i, t) == \/ st[i].status \in InDelete \cup {"ROLLBACK_COMPLETE"}
                     \/ st[i].tmpl = t

(* A watcher that has seen its stack complete. *)
HasSeenIt(p, l) ==
  /\ p # Worker
  /\ \/ l.pc \in {"saveOutputs", "nameOutputs", "ready"}
     \/ l.pc = "setWrite" /\ l.task = "Ready"

(* What p knows of the template of its stack. *)
Tracks(st, rc, p, l) ==
  /\ InCharge(p, l) \/ (p = Worker /\ ToReport(l)) => Follows(st, l.id, rc[l.app].tmpl)
  /\ p = Worker /\ Holding(l) => Follows(st, l.id, l.want)
  /\ HasSeenIt(p, l) => st[l.id].status \in Deployed

ReadyInv ==
  /\ ReadyMeansDeployed
  /\ \A p \in Procs : Tracks(stack, rec, p, proc[p])

-----------------------------------------------------------------------------
(* Why LifeCycle is implemented, next to all of these, as long as nobody   *)
(* uses the console of ROS.                                                *)

(* A watcher that has seen an operation on its stack fail. *)
HasSeenFailure(p, l) ==
  /\ p # Worker
  /\ l.pc = "failed" \/ (l.pc = "setWrite" /\ l.task = "Failed")

LifeInv ==
  (* While no operation is under way, the stack in the record has settled. *)
  /\ \A a \in Apps :
       rec[a].sid # None /\ rec[a].status # "Progressing" /\ ~MidFlight(Worker, a) =>
         stack[rec[a].sid].status \in Deployed \cup Unsuccessful
  /\ \A p \in Procs : HasSeenFailure(p, proc[p]) =>
       stack[proc[p].id].status \in Unsuccessful
  (* Who is about to release an object has seen the record dropped. *)
  /\ \A p \in Procs : Leaving(proc[p]) =>
       rec[app(p)].sid = None /\ ~(Holding(proc[Worker]) /\ app(Worker) = app(p))
  (* Until then the object is held. *)
  /\ \A a \in Apps :
       rec[a].sid # None \/ (Holding(proc[Worker]) /\ app(Worker) = a) => Guarded(a)
=============================================================================
