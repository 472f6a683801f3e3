------------------------ MODULE ControllerInvariant -------------------------
(***************************************************************************)
(* The inductive invariant of RosController: what every goroutine knows    *)
(* at each of its places, in any environment, crashes and failed calls     *)
(* included.  TypeOK and TemplateAccepted follow from it (ControllerProofs).*)
(***************************************************************************)
EXTENDS ControllerProperties

(* In the service's state st with the templates ac accepted so far, a stack *)
(* id and a template, as a record or a goroutine holds them, belong to      *)
(* application a and to each other.                                         *)
Paired(st, ac, a, sid, tmpl) ==
  /\ sid = None <=> tmpl = None
  /\ sid # None => a \in Apps /\ st[sid].app = a /\ tmpl \in ac[sid]

(* The places of a goroutine that is not at work on an application, ... *)
Unassigned == {"idle", "load", "recover"}
(* ... and those of the handler that has made a template. *)
Templated == {"cuFailed", "cuSame", "cuStack", "cuFinalizer", "cuCreate",
              "cuUpdate", "cuRecord"}
(* Where the procedures of AppStack may return to. *)
Returns == {"idle", "requeue", "cuProgressing", "spawn", "spawnRequeue",
            "delFinalizer", "drop", "wFinalizer"}

(* The task of a goroutine that is inside of a procedure. *)
TaskMatches(l) ==
  /\ l.task = "Record" => l.pc = "setWrite"
  /\ l.pc = "setWrite" => l.task \in {"Record", "Progressing", "Ready", "Failed"}
  /\ l.pc = "listAdd" => l.task = "Progressing"
  /\ l.pc \in {"listRead", "listWrite"} => l.task \in {"Ready", "Failed", "Delete"}
  /\ l.pc = "condition" => l.task \in {"Progressing", "Ready", "Failed"}
  /\ l.pc \in {"dropOutputs", "dropRecord"} => l.task = "Delete"

(* What a goroutine with local state l knows of them. *)
Knows(st, ac, l) ==
  /\ l \in Locals
  /\ l.pc \notin Unassigned => l.app \in Apps
  /\ l.ok \in Returns /\ l.fail \in Returns
  /\ TaskMatches(l)
  /\ l.pc = "cuStatus" => l.want \in Specs
  /\ l.pc \in Templated => l.want \in Tmpls
  /\ l.id # None => l.app \in Apps /\ st[l.id].app = l.app
  /\ l.pc \in {"cuUpdate", "delCall"} => l.id # None
  /\ l.pc = "cuRecord" \/ l.task = "Record" =>
       l.id # None /\ l.want \in Tmpls /\ l.want \in ac[l.id]
  /\ Paired(st, ac, l.app, l.snap.sid, l.snap.tmpl)

(* No stack belongs to an application before it is created. *)
StacksOwned == \A i \in Ids : stack[i].status = "ABSENT" => stack[i].app = None

(* An object has a specification as long as it exists. *)
LiveHaveSpecs == \A a \in Apps : Present(a) => conf[a].spec \in Specs

IInv ==
  /\ TypeOK
  /\ StacksOwned
  /\ LiveHaveSpecs
  /\ \A a \in Apps : Paired(stack, accepted, a, rec[a].sid, rec[a].tmpl)
  /\ \A p \in Procs : Knows(stack, accepted, proc[p])

-----------------------------------------------------------------------------
(* What is deleted, and when it is forgotten: inductive next to IInv, in    *)
(* any environment, as long as names are not used again and nobody deletes  *)
(* stacks at the console.                                                   *)

(* The object of a is marked for deletion, or gone. *)
Going(a) == conf[a].state \in {"deleting", "gone"}

(* Where the worker is in Delete, as far as its request to ROS; it is there *)
(* only for an application that is going.                                   *)
DeletionPlaces == {"delStatus", "delWait", "delStack", "delCall"}
OnRequest == pc(Worker) \in DeletionPlaces => Going(app(Worker))

(* Where it is in CreateOrUpdate, as far as its request to ROS. *)
Applying == {"cuStatus", "cuFailed", "cuSame", "cuStack", "cuFinalizer", "cuCreate",
             "cuUpdate"}

(* Nothing will ever be done for a but to delete it. *)
Retired(a) == Going(a) /\ ~(pc(Worker) \in Applying /\ app(Worker) = a)

(* Where a goroutine forgets an application, or is bound to. *)
InProcedure == {"setWrite", "listAdd", "listRead", "listWrite", "condition",
                "dropOutputs", "dropRecord"}
DropPlaces == {"drop", "delRecord", "dropOutputs", "dropRecord", "delFinalizer", "wFinalizer"}
Dropping(l) == \/ l.pc \in DropPlaces
               \/ l.pc = "failed" /\ l.inDelete
               \/ l.pc \in InProcedure /\ {l.ok, l.fail} \cap DropPlaces # {}
(* Its record is still to be dropped. *)
Erasing(l) == \/ l.pc \in {"drop", "delRecord", "dropOutputs", "dropRecord"}
              \/ l.pc = "failed" /\ l.inDelete
              \/ l.pc \in InProcedure /\ "drop" \in {l.ok, l.fail}

DeletionInv ==
  /\ OnRequest
  /\ \A i \in Ids : stack[i].status \in InDelete => stack[i].app \in Apps /\ Retired(stack[i].app)
  /\ \A p \in Procs : Dropping(proc[p]) => app(p) \in Apps /\ Retired(app(p))

(* The worker holds a new stack id that is not in the record yet. *)
Holding(l) == l.pc = "cuRecord" \/ l.task = "Record"

(* A goroutine has stack id i at hand, or in the data set will write back. *)
Carries(l, i) == /\ l.pc \notin Unassigned
                 /\ l.id = i \/ (l.pc = "setWrite" /\ l.snap.sid = i)
(* The stack ids known of application a. *)
Known(a) == {i \in Ids : rec[a].sid = i \/ \E p \in Procs : app(p) = a /\ Carries(proc[p], i)}

RecordInv ==
  (* An application has one stack id at most, until it is retired. *)
  /\ \A a \in Apps : \A i, j \in Known(a) : i = j
  /\ \A p \in Procs, i \in Ids : Carries(proc[p], i) /\ rec[app(p)].sid = None =>
       Retired(app(p)) \/ (p = Worker /\ Holding(proc[p]))
  (* The worker creates a stack when none is known. *)
  /\ pc(Worker) = "cuCreate" => proc[Worker].id = None
  /\ pc(Worker) \in {"cuFinalizer", "cuCreate"} /\ proc[Worker].id = None =>
       Known(app(Worker)) = {}
  /\ \A p \in Procs :
       pc(p) = "setWrite" /\ proc[p].task = "Record" => proc[p].fail = "requeue"
  (* Who is to drop a record has the id of a deleted stack. *)
  /\ \A p \in Procs : Erasing(proc[p]) =>
       proc[p].id # None /\ stack[proc[p].id].status \in InDelete
-----------------------------------------------------------------------------
(* Why PanicsOnlyForDeleted holds, next to DeletionInv: what is listed, or *)
(* about to be, has a stack in its record until it is going.               *)
Backed(a) == rec[a].sid # None \/ Going(a)

(* A goroutine is about to write "Progressing", or to hand the application *)
(* in Progressing to a watcher.                                            *)
Handing(l) ==
  \/ l.pc \in {"cuProgressing", "delProgressing", "spawn", "spawnRequeue"}
  \/ l.pc \in {"setWrite", "listAdd", "condition"} /\ l.task = "Progressing"

(* Nobody comes to hand over but along the way. *)
Straight(l) ==
  l.pc \in InProcedure =>
    /\ {l.ok, l.fail} \cap {"spawn", "spawnRequeue"} # {} => l.task = "Progressing"
    /\ l.ok = "cuProgressing" => l.task = "Record"
    /\ {l.ok, l.fail} \cap {"delProgressing", "wait"} = {} /\ l.fail # "cuProgressing"

BackedInv ==
  /\ \A a \in infos : Backed(a)
  /\ \A p \in Procs :
       /\ pc(p) \in {"listWrite", "recover"} => \A a \in proc[p].list : Backed(a)
       /\ Handing(proc[p]) => proc[p].id # None /\ Backed(app(p))
       /\ Straight(proc[p])
  /\ PanicsOnlyForDeleted
-----------------------------------------------------------------------------
(* Why ListedRecovered holds, next to all of these: as long as no call     *)
(* fails, whoever is given an application in Progressing keeps it until    *)
(* the outcome is recorded or it is abandoned, and what a crash interrupts *)
(* is recovered from the list, or else is not in it and never comes to be. *)

(* The worker is where it comes to only with an application that is not in *)
(* Progressing.                                                            *)
Claimed == Templated \cup {"cuProgressing", "cuError", "delStack", "delCall",
  "delError", "delProgressing", "delRecord", "setWrite", "dropOutputs", "dropRecord"}

(* What goroutine p at l relies on while no call fails. *)
OnCourse(rc, p, l) ==
  /\ Handing(l) => l.id # None
  /\ l.pc \in InProcedure => /\ l.ok = "spawn" <=> l.task = "Progressing"
                             /\ l.ok = "cuProgressing" => l.task = "Record"
                             /\ l.ok # "spawnRequeue"
                             /\ \/ l.fail \in {"idle", "requeue", "drop", "wFinalizer"}
                                \/ l.fail = "spawnRequeue" /\ l.task = "Progressing"
                             /\ l.task = "Progressing" =>
                                  p = Worker /\ l.fail \in {"requeue", "spawnRequeue"}
  /\ l.pc \in {"saveOutputs", "nameOutputs"} => l.id # None
  /\ l.pc = "setWrite" /\ p # Worker => l.task \in {"Ready", "Failed"}
  /\ l.pc = "setWrite" /\ l.task = "Record" => l.snap.status # "Progressing"
  /\ p = Worker /\ l.pc \in Claimed => rc[l.app].status # "Progressing"

(* Everything listed, or at work on, has been an object once; ... *)
Seen(a) == conf[a].state # "absent"
SeenInv ==
  /\ \A a \in infos : Seen(a)
  /\ \A p \in Procs : /\ pc(p) \notin Unassigned => Seen(app(p))
                      /\ pc(p) \in {"listWrite", "recover"} => \A a \in proc[p].list : Seen(a)
(* ... and a new process begins with its recovery. *)
LoadsFirst == pc(Worker) = "load" => \A w \in Watchers : pc(w) = "idle"

(* The recovery has not come to a yet. *)
Pending(a) == pc(Worker) = "load" \/ (pc(Worker) = "recover" /\ a \in proc[Worker].list)

(* Nobody will report the end of the operation on the stack of a, unless    *)
(* somebody whose write may be refused.                                    *)
Unwatched(a) ==
  /\ rec[a].status = "Progressing" /\ rec[a].sid # None /\ a \notin abandoned
  /\ \A p \in Procs : Watches(p, a, rec[a].sid) => pc(p) = "setWrite" /\ p \in overtaken

(* a is in the list, or in one that is about to replace it. *)
Listing(a) == a \in infos \/ \E p \in Procs : pc(p) = "listWrite" /\ a \in proc[p].list

AllRecovered == \A a \in Apps : Unwatched(a) /\ ~Pending(a) => ~Listing(a)

(* The recovery has failed: an application in the list is gone, and as     *)
(* nobody works on it any more, it stays in the list.                      *)
NoneRecovered ==
  /\ pc(Worker) \notin {"load", "recover"}
  /\ \E b \in infos :
       /\ conf[b].state = "gone"
       /\ \A p \in Procs : /\ pc(p) \notin Unassigned => app(p) # b
                           /\ pc(p) = "listWrite" => b \in proc[p].list

RecoveryInv ==
  faults = 0 =>
    /\ \A p \in Procs : OnCourse(rec, p, proc[p])
    /\ SeenInv /\ LoadsFirst
    /\ AllRecovered \/ NoneRecovered
=============================================================================
