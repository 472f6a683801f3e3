------------------------------ MODULE AppStack ------------------------------
(***************************************************************************)
(* pkg/appstack/appstack.go: what the controller remembers of an           *)
(* application in Secrets, and the procedures on it.  A procedure is a     *)
(* sequence of Kubernetes calls, one action each, so that goroutines       *)
(* interleave between any two of them.  A caller starts a procedure with   *)
(* its first call and names the two places it continues at:                *)
(*                                                                         *)
(*   SetIdAndTemplate  GetData, UpdateData                                 *)
(*   SetProgressing    GetData, UpdateData, list the app, condition        *)
(*   SetReady/SetError GetData, UpdateData, unlist the app, condition      *)
(*   SaveOutputs       SetData of the output Secrets, UpdateData           *)
(*   Delete            GetData, delete outputs, delete record, unlist      *)
(*                                                                         *)
(* UpdateData, SetData and DeleteData are atomic or fail (AtomicSecret).   *)
(* UpdateData, and the update of an object, are a Get and an update that   *)
(* carries its version; both come after the goroutine's call before.  Here *)
(* is the update that succeeds; RosController!Conflict is the one that is  *)
(* refused, for what others wrote in between.                              *)
(* To unlist an app is a GetData and a SetData of the whole list.          *)
(***************************************************************************)
EXTENDS AppConfs

CONSTANT MaxFaults   \* bound: Kubernetes or ROS calls that fail

ASSUME FaultAssumption == MaxFaults \in Nat

VARIABLES
  rec,     \* rec[a]: the data of a's Secret: stack id, template, status and
           \* whether it names output Secrets; an absent key is None
  infos,   \* the ProgressingAppStackInfos Secret: the applications listed
  outsec,  \* the applications that have an output Secret
  proc,    \* proc[p]: the local state of goroutine p
  faults   \* calls that have failed so far

appStackVars == <<rec, infos, outsec>>

RecStatuses == {"Progressing", "Ready", "Failed"}
Records == [sid : Ids \cup {None}, tmpl : Tmpls \cup {None},
            status : RecStatuses \cup {None},
            outs : {"empty", "named", None}]
(* An absent key is none of the values a key may have. *)
ASSUME RecordAssumption == None \notin RecStatuses \cup {"empty", "named"}

NoRecord == [sid |-> None, tmpl |-> None, status |-> None, outs |-> None]

Tasks == {"none", "Record", "Progressing", "Ready", "Failed", "Delete"}

(* Where a goroutine is: in a procedure of this module (the first line), in *)
(* the handlers, in the recovery or in waitStackDoneAndSaveOutputs; a       *)
(* "requeue" is only ever a place to return to.                             *)
PCs == {"setWrite", "listAdd", "listRead", "listWrite", "condition",
          "nameOutputs", "dropOutputs", "dropRecord",
        "idle", "requeue",
        "cuStatus", "cuError", "cuFailed", "cuSame", "cuStack", "cuFinalizer",
          "cuCreate", "cuUpdate", "cuRecord", "cuProgressing", "spawn",
          "spawnRequeue",
        "delStatus", "delWait", "delStack", "delCall", "delError",
          "delProgressing", "delRecord", "delFinalizer",
        "load", "recover",
        "wait", "saveOutputs", "ready", "failed", "drop", "wFinalizer"}

(* A goroutine: its place, application, stack id, wanted template, whether *)
(* it saw the stack in deletion, the record and the list it read last, its *)
(* task and where the procedure returns.                                   *)
Locals == [pc : PCs, app : Apps \cup {None}, id : Ids \cup {None},
           want : Specs \cup {None}, inDelete : BOOLEAN,
           snap : Records, list : SUBSET Apps,
           task : Tasks, ok : PCs, fail : PCs]
At(l) == [pc |-> l, app |-> None, id |-> None, want |-> None, inDelete |-> FALSE,
          snap |-> NoRecord, list |-> {},
          task |-> "none", ok |-> "idle", fail |-> "idle"]

AppStackTypeOK ==
  /\ rec \in [Apps -> Records]
  /\ infos \subseteq Apps
  /\ outsec \subseteq Apps
  /\ proc \in [Procs -> Locals]
  /\ faults \in 0..MaxFaults

pc(p)  == proc[p].pc
app(p) == proc[p].app
-----------------------------------------------------------------------------
(* Local control of a goroutine. *)
Becomes(p, locals) == proc' = [proc EXCEPT ![p] = locals]

(* p goes on to the next call of its procedure. *)
Goto(p, l) == Becomes(p, [proc[p] EXCEPT !.pc = l]) /\ UNCHANGED due

(* What p remembers when it leaves a procedure, or a step of a handler,    *)
(* for l; a goroutine that has come to the end forgets everything.         *)
Unwound(p, l) ==
  IF l \in {"idle", "requeue"} THEN At("idle")
  ELSE [proc[p] EXCEPT !.pc = l, !.snap = NoRecord, !.list = {},
                       !.task = "none", !.ok = "idle", !.fail = "idle"]

(* p continues at l.  When a handler returns an error (l is "requeue"),    *)
(* oam-go-sdk queues the event again.                                      *)
ReturnTo(p, l) ==
  /\ Becomes(p, Unwound(p, l))
  /\ due' = IF l = "requeue" THEN due \cup {app(p)} ELSE due

(* The next call of p fails before it has any effect: p continues at l. *)
FaultTo(p, l) ==
  /\ faults < MaxFaults
  /\ faults' = faults + 1
  /\ ReturnTo(p, l)

(* A call that writes is answered and p goes on as next says; or its       *)
(* answer is lost: the write has happened, and the procedure still fails.  *)
Written(p, next) ==
  \/ next /\ UNCHANGED faults
  \/ FaultTo(p, proc[p].fail)
-----------------------------------------------------------------------------
(* GetData, the first call of a procedure. *)
Begin(p, task, ok, fail) ==
  /\ Becomes(p, [proc[p] EXCEPT
       !.pc = IF task # "Delete" THEN "setWrite"
              ELSE IF rec[app(p)].outs = "named" THEN "dropOutputs" ELSE "dropRecord",
       !.task = task, !.ok = ok, !.fail = fail, !.snap = rec[app(p)]])
  /\ UNCHANGED <<rec, infos, outsec, due, faults>>

(* What set writes: the data as read, with the procedure's keys on top. *)
NewData(p) ==
  LET read == proc[p].snap IN
  IF proc[p].task = "Record"
  THEN [read EXCEPT !.sid = proc[p].id, !.tmpl = proc[p].want]
  ELSE [read EXCEPT !.status = proc[p].task]

(* UpdateData: the keys of new over the keys of old. *)
Merge(old, new) ==
  [k \in DOMAIN old |-> IF new[k] = None THEN old[k] ELSE new[k]]

(* set's second call: everything read by Begin is written back. *)
SetWrite(p) ==
  /\ pc(p) = "setWrite"
  /\ rec' = [rec EXCEPT ![app(p)] = Merge(@, NewData(p))]
  /\ Written(p,
       CASE proc[p].task = "Record"      -> ReturnTo(p, proc[p].ok)
         [] proc[p].task = "Progressing" -> Goto(p, "listAdd")
         [] OTHER                        -> Goto(p, "listRead"))
  /\ UNCHANGED <<infos, outsec>>

(* Variant: AppStack.Delete sets a condition, too. *)
Listed_Always(p) ==
  IF UpdateApp THEN Goto(p, "condition") ELSE ReturnTo(p, proc[p].ok)

(* The list has been updated: the object's condition comes next, except    *)
(* after AppStack.Delete.                                                  *)
Listed(p) ==
  IF UpdateApp /\ proc[p].task # "Delete" THEN Goto(p, "condition")
                                          ELSE ReturnTo(p, proc[p].ok)

(* addProgressingAppStackInfoToSecret, unless there is a Conflict. *)
ListAdd(p) ==
  /\ pc(p) = "listAdd"
  /\ infos' = infos \cup {app(p)}
  /\ Written(p, Listed(p))
  /\ UNCHANGED <<rec, outsec>>

(* removeProgressingAppStackInfoToSecret: the list is read ... *)
ListRead(p) ==
  /\ pc(p) = "listRead"
  /\ Becomes(p, [proc[p] EXCEPT !.pc = "listWrite", !.list = infos])
  /\ UNCHANGED <<rec, infos, outsec, due, faults>>

(* ... and the list as read, without the app, replaces the whole Secret. *)
ListWrite(p) ==
  /\ pc(p) = "listWrite"
  /\ infos' = proc[p].list \ {app(p)}
  /\ Written(p, Listed(p))
  /\ UNCHANGED <<rec, outsec>>

(* maybeSetAppCondition, unless there is a Conflict; what it changes is an *)
(* event of its own.                                                       *)
Condition(p) ==
  /\ pc(p) = "condition"
  /\ SetAppCondition(app(p), proc[p].task)
  /\ \/ Becomes(p, Unwound(p, proc[p].ok)) /\ UNCHANGED faults
     \/ /\ Present(app(p)) /\ faults < MaxFaults /\ faults' = faults + 1
        /\ Becomes(p, Unwound(p, proc[p].fail))
  /\ UNCHANGED <<rec, infos, outsec>>
-----------------------------------------------------------------------------
(* SaveOutputs, its first part: the output Secrets of the outputs the      *)
(* watcher read are written, or writing one fails, which is only logged.   *)
SaveOutputs(p) ==
  /\ pc(p) = "saveOutputs"
  /\ \/ /\ outsec' = IF proc[p].snap.outs = "named" THEN outsec \cup {app(p)}
                                                    ELSE outsec
        /\ Becomes(p, [proc[p] EXCEPT !.pc = "nameOutputs"])
        /\ UNCHANGED faults
     \/ /\ proc[p].snap.outs = "named" /\ faults < MaxFaults /\ faults' = faults + 1
        /\ outsec' \in {outsec, outsec \cup {app(p)}}
        /\ Becomes(p, [proc[p] EXCEPT !.pc = "nameOutputs", !.snap.outs = "empty"])
  /\ UNCHANGED <<rec, infos, due>>

(* Its second part, UpdateData: the names of the Secrets just written      *)
(* replace those named before; a failure is only logged.                   *)
NameOutputs(p) ==
  /\ pc(p) = "nameOutputs"
  /\ \/ rec' = [rec EXCEPT ![app(p)].outs = proc[p].snap.outs] /\ UNCHANGED faults
     \/ /\ faults < MaxFaults /\ faults' = faults + 1
        /\ rec' \in {rec, [rec EXCEPT ![app(p)].outs = proc[p].snap.outs]}
  /\ ReturnTo(p, "ready")
  /\ UNCHANGED <<infos, outsec>>

(* AppStack.Delete: the output Secrets named by the data Begin read, ... *)
DropOutputs(p) ==
  /\ pc(p) = "dropOutputs"
  /\ outsec' = outsec \ {app(p)}
  /\ Written(p, Goto(p, "dropRecord"))
  /\ UNCHANGED <<rec, infos>>

(* ... then the application's own Secret. *)
DropRecord(p) ==
  /\ pc(p) = "dropRecord"
  /\ rec' = [rec EXCEPT ![app(p)] = NoRecord]
  /\ Written(p, Goto(p, "listRead"))
  /\ UNCHANGED <<infos, outsec>>

(* A call of a procedure fails without effect: the procedure returns. *)
ProcedureFails(p) ==
  /\ pc(p) \in {"setWrite", "listAdd", "listRead", "listWrite", "condition",
                "dropOutputs", "dropRecord"}
  /\ FaultTo(p, proc[p].fail)
  /\ UNCHANGED <<rec, infos, outsec>>

ProcedureStep(p) ==
  \/ SetWrite(p) \/ ListAdd(p) \/ ListRead(p) \/ ListWrite(p)
  \/ SaveOutputs(p) \/ NameOutputs(p) \/ DropOutputs(p) \/ DropRecord(p) \/ ProcedureFails(p)
=============================================================================
