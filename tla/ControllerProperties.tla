------------------------ MODULE ControllerProperties ------------------------
(***************************************************************************)
(* What the controller is expected to guarantee, and the fairness of its   *)
(* scheduling.  Which of these hold in which environment (crashes, failed  *)
(* calls, names used again) is for the runs to say.                        *)
(***************************************************************************)
EXTENDS RosController

(* p is between the request that changed a stack of a and the write that   *)
(* makes a Progressing.                                                    *)
MidFlight(p, a) ==
  /\ app(p) = a
  /\ \/ pc(p) \in {"cuRecord", "cuProgressing", "delProgressing"}
     \/ pc(p) = "setWrite" /\ proc[p].task \in {"Record", "Progressing"}

(* p will report the end of stack i to the record of a: it is a watcher    *)
(* that has not yet written the outcome, or the worker about to start one. *)
Watches(p, a, i) ==
  /\ app(p) = a /\ proc[p].id = i
  /\ \/ pc(p) \in {"spawn", "spawnRequeue", "wait", "saveOutputs",
                   "nameOutputs", "ready", "failed", "drop"}
     \/ pc(p) = "setWrite" /\ proc[p].task \in {"Ready", "Failed"}
     \/ pc(p) \in {"listAdd", "condition"} /\ proc[p].task = "Progressing"
     \/ pc(p) \in {"dropOutputs", "dropRecord"}
-----------------------------------------------------------------------------
(* Every stack that exists in ROS is the one in the record of its          *)
(* application, or its id is still in the worker's hand (appconf.go:113-   *)
(* 127): no stack is left that nobody will ever update or delete.          *)
StackKnown ==
  \A i \in Ids : Exists(i) =>
    LET a == stack[i].app IN
    rec[a].sid = i \/ (proc[Worker].id = i /\ MidFlight(Worker, a))

(* An application that is Ready, and that the worker is not changing, has  *)
(* its stack completed with the very template of the record: the test      *)
(* that skips an unchanged template (appconf.go:93) skips nothing that is  *)
(* not deployed.                                                           *)
ReadyMeansDeployed ==
  \A a \in Apps :
    (rec[a].status = "Ready" /\ rec[a].sid # None /\ ~MidFlight(Worker, a)) =>
      /\ stack[rec[a].sid].status \in Deployed
      /\ stack[rec[a].sid].tmpl = rec[a].tmpl

(* As long as a stack exists, the object of its application exists and     *)
(* carries the finalizer (appconf.go:106): it cannot vanish from the       *)
(* cluster before the stack is deleted.                                    *)
FinalizerGuards ==
  \A i \in Ids : Exists(i) =>
    LET a == stack[i].app IN Present(a) /\ conf[a].fin

(* README.md:83-92: when the object has been deleted, so have the          *)
(* resources of its stack.                                                 *)
GoneMeansDeleted ==
  \A i \in Ids : Exists(i) => Present(stack[i].app)

(* An application recorded as Progressing has a goroutine that will report *)
(* the end of its stack, whatever conflicts worker, watchers and users make*)
(* for each other; without one it is stuck, as CreateOrUpdate skips it     *)
(* (appconf.go:67) and Delete waits for it (appconf.go:186).  There is one *)
(* exception, an application whose deletion met a conflict behind the write*)
(* of Progressing (appconf.go:222-225).                                    *)
ProgressingWatched ==
  \A a \in Apps \ abandoned :
    rec[a].status = "Progressing" => \E p \in Procs : Watches(p, a, rec[a].sid)

(* It has only one: another one would report the end of an operation that  *)
(* is over as that of the next, or drop the record under it.               *)
WatchedOnce ==
  \A a \in Apps, p, q \in Procs :
    /\ rec[a].status = "Progressing"
    /\ Watches(p, a, rec[a].sid) /\ Watches(q, a, rec[a].sid)
    => p = q

(* appstack.go:532-544: when set writes back all the data it has read, the *)
(* record still says the same: no other goroutine has written it since.    *)
NothingOverwritten ==
  \A p \in Procs : pc(p) = "setWrite" => proc[p].snap = rec[app(p)]

(* appconf.go:233-251: what the list holds is recovered.  While no call    *)
(* fails and no listed object is gone, an application in Progressing that  *)
(* has a stack and is listed is watched, by the process that put it there  *)
(* or by one that started after a crash at any point since, once its       *)
(* recovery has come to that application.                                  *)
ListedRecovered ==
  (\A a \in infos : Present(a)) => \A a \in infos :
    /\ rec[a].status = "Progressing" /\ rec[a].sid # None
    /\ faults = 0 /\ a \notin abandoned
    /\ pc(Worker) # "load" /\ ~(pc(Worker) = "recover" /\ a \in proc[Worker].list)
    => \E p \in Procs : Watches(p, a, rec[a].sid)

(* appstack.go:35: the list holds every application in Progressing, but    *)
(* for one that SetProgressing is about to add.                            *)
ProgressingListed ==
  \A a \in Apps :
    rec[a].status = "Progressing" =>
      a \in infos \/ \E p \in Procs : app(p) = a /\ pc(p) = "listAdd"

(* appconf.go:249 does not ask whether the stack is nil.  A recovery that  *)
(* gives a watcher a nil stack, and so panics and restarts the process, is *)
(* about an application that a user has deleted: no live application can   *)
(* have the process fail again and again, at whatever step a crash, a lost *)
(* answer or a conflict left the list and the record behind.               *)
PanicsOnlyForDeleted ==
  \A w \in Watchers :
    pc(w) = "wait" /\ proc[w].id = None => conf[app(w)].state \in {"deleting", "gone"}

(* A stack is deleted only for an application that a user deleted.         *)
DeleteOnlyOnRequest ==
  [][\A i \in Ids :
       stack'[i].status = "DELETE_IN_PROGRESS" /\ stack[i].status # "DELETE_IN_PROGRESS" =>
         conf[stack[i].app].state \in {"deleting", "gone"}]_vars

(* The record names a stack of its own application together with a         *)
(* template ROS accepted for that very stack, in spite of set writing back *)
(* whatever it has read (appstack.go:532-544).                             *)
TemplateAccepted ==
  \A a \in Apps :
    /\ rec[a].sid = None <=> rec[a].tmpl = None
    /\ rec[a].sid # None => /\ stack[rec[a].sid].app = a
                            /\ rec[a].tmpl \in accepted[rec[a].sid]

(* A record that names a stack is dropped only when ROS is deleting, has   *)
(* deleted or has failed to delete that stack (appconf.go:210, 314).       *)
RecordOutlivesStack ==
  [][\A a \in Apps :
       rec[a].sid # None /\ rec'[a].sid = None =>
         stack[rec[a].sid].status \in InDelete]_vars
-----------------------------------------------------------------------------
(* Goroutines that can take a step take one; the workqueue of the          *)
(* reconciler is first-in first-out, so every event gets its turn; the     *)
(* service finishes what it has begun; the informer resynchronises.        *)
Runs(p) ==
  /\ AppStackStep(p) \/ Conflict(p) \/ IF p = Worker THEN WorkerStep ELSE WatcherStep(p)
  /\ Alive

Settles(i) ==
  /\ stack[i].status \in InProgress /\ StackMoves(i)
  /\ UNCHANGED <<conf, due, edits, proc>> /\ SameStore /\ Alive

Fairness ==
  /\ \A p \in Procs : WF_vars(Runs(p))
  /\ \A a \in Apps : SF_vars(Dispatch(a) /\ Alive)
  /\ \A i \in Ids : WF_vars(Settles(i))
  /\ WF_vars(UserStep /\ UNCHANGED <<conf, edits>> /\ Alive)

FairSpec == Spec /\ Fairness

(* A recorded operation comes to an end.                                   *)
ProgressingEnds ==
  \A a \in Apps :
    rec[a].status = "Progressing" ~> rec[a].status # "Progressing" \/ a \in abandoned

(* An application a user has deleted does go away.                         *)
DeletionCompletes ==
  \A a \in Apps : conf[a].state = "deleting" ~> ~Present(a) \/ abandoned # {}

(* appstack.go:503: "WaitUntilDone waits app stack until done": the worker  *)
(* gets out of the wait of a deletion.                                     *)
WaitEnds == pc(Worker) = "delWait" ~> pc(Worker) # "delWait"

(* The last specification a user gives ends up deployed and recorded,      *)
(* although an event that finds the application Progressing is dropped     *)
(* (appconf.go:67-70), unless the application keeps failing.               *)
LastEditDeployed ==
  \A a \in Apps, t \in Tmpls :
    <>[](conf[a].state = "live" /\ conf[a].spec = t /\ rec[a].status # "Failed")
      => <>[](/\ rec[a].sid # None /\ rec[a].tmpl = t
              /\ stack[rec[a].sid].tmpl = t
              /\ stack[rec[a].sid].status \in Deployed)
=============================================================================
