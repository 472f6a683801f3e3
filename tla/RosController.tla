--------------------------- MODULE RosController ----------------------------
(***************************************************************************)
(* The ROS controller: pkg/handlers/appconf.go on top of AppStack and the  *)
(* ROS service.  One goroutine, Worker, runs RecoverProgressingAppStacks   *)
(* when the process starts and then the handlers, one event at a time      *)
(* (oam-go-sdk's reconciler has a single worker); each started             *)
(* waitStackDoneAndSaveOutputs is a goroutine of its own, a watcher.  The  *)
(* process may crash between any two calls and starts again.               *)
(***************************************************************************)
EXTENDS AppStack, RosService

CONSTANT MaxCrashes   \* bound: crashes that are not the program's own panic

ASSUME CrashAssumption == MaxCrashes \in Nat

VARIABLES
  crashes,     \* crashes so far
  panics,      \* nil dereferences of a watcher so far, counted up to 1
  overtaken,   \* history: the goroutines behind whose back the object or Secret
               \* they write next has been written since their last call
  abandoned    \* history: the applications in Progressing whose deletion gave up
               \* in SetProgressing, behind the write of the status

vars == <<conf, due, edits, stack, accepted, rec, infos, outsec, proc, faults,
          crashes, panics, overtaken, abandoned>>

(* Variant: a process starts without the recovery. *)
Booted_Idle == [p \in Procs |-> At("idle")]

Booted == [p \in Procs |-> At(IF p = Worker THEN "load" ELSE "idle")]

Init ==
  /\ ConfInit /\ RosInit
  /\ rec = [a \in Apps |-> NoRecord]
  /\ infos = {} /\ outsec = {}
  /\ proc = Booted
  /\ faults = 0 /\ crashes = 0 /\ panics = 0
  /\ overtaken = {} /\ abandoned = {}

TypeOK ==
  /\ ConfTypeOK /\ RosTypeOK /\ AppStackTypeOK
  /\ crashes \in 0..MaxCrashes /\ panics \in 0..1
  /\ overtaken \subseteq Procs /\ abandoned \subseteq Apps

(* A goroutine's step that neither writes a Secret nor calls ROS ... *)
SameStore == UNCHANGED <<rec, infos, outsec, faults>>
(* ... and one that leaves the applications' objects alone. *)
SameRos == UNCHANGED rosVars
SameConf == UNCHANGED <<conf, edits>>

W == Worker

(* A step writes what p writes next, to the list, to the object of its     *)
(* application (the time in a condition is a change, too) or to its record.*)
Overtakes(p) ==
  CASE pc(p) = "listAdd" -> infos' # infos
    [] pc(p) \in {"condition", "cuFinalizer", "delFinalizer", "wFinalizer"} ->
         \/ conf'[app(p)] # conf[app(p)]
         \/ \E q \in Procs : pc(q) = "condition" /\ app(q) = app(p) /\ proc'[q] # proc[q]
    [] pc(p) \in {"setWrite", "nameOutputs"} -> rec'[app(p)] # rec[app(p)]
    [] OTHER -> FALSE

(* Delete's SetProgressing returns an error behind the write of the status *)
(* (appconf.go:222-225).                                                   *)
Abandons(a) ==
  /\ app(W) = a /\ pc(W) \in {"listAdd", "condition"} /\ proc[W].task = "Progressing"
  /\ proc'[W].pc = "idle" /\ (W \in overtaken \/ faults' # faults)

(* The process goes on, and the histories with it. *)
Alive ==
  /\ UNCHANGED <<crashes, panics>>
  /\ overtaken' = {p \in Procs : proc'[p] = proc[p] /\ (p \in overtaken \/ Overtakes(p))}
  /\ abandoned' = {a \in Apps : rec'[a].status = "Progressing" /\ (a \in abandoned \/ Abandons(a))}
-----------------------------------------------------------------------------
(* Handle: the worker takes an event and calls the handler for the object  *)
(* as it is now; an object that is gone needs none.                        *)
Dispatch(a) ==
  /\ pc(W) = "idle" /\ a \in due
  /\ due' = due \ {a}
  /\ Becomes(W, CASE conf[a].state = "live" ->
                       [At("cuStatus") EXCEPT !.app = a, !.want = conf[a].spec]
                  [] conf[a].state = "deleting" ->
                       [At("delStatus") EXCEPT !.app = a]
                  [] OTHER -> At("idle"))
  /\ SameStore /\ SameConf /\ SameRos

(* Variant: no check whether the application is still Progressing. *)
CuStatus_Unchecked ==
  /\ pc(W) = "cuStatus"
  /\ IF proc[W].want = BadSpec THEN ReturnTo(W, "cuError")
     ELSE ReturnTo(W, IF rec[app(W)].status = None THEN "cuSame" ELSE "cuFailed")
  /\ SameStore /\ SameConf /\ SameRos

(* CreateOrUpdate: IsProgressing (an application without a status counts   *)
(* as Deleted from now on), then NewTemplate.                              *)
CuStatus ==
  /\ pc(W) = "cuStatus"
  /\ LET status == rec[app(W)].status IN
     IF status = "Progressing" THEN ReturnTo(W, "idle")
     ELSE IF proc[W].want = BadSpec THEN ReturnTo(W, "cuError")
     ELSE ReturnTo(W, IF status = None THEN "cuSame" ELSE "cuFailed")
  /\ SameStore /\ SameConf /\ SameRos

(* Variant: a failed application's stack is deleted to be made anew. *)
CuFailed_Replace ==
  /\ pc(W) = "cuFailed"
  /\ ReturnTo(W, IF rec[app(W)].status = "Failed" THEN "delStack" ELSE "cuSame")
  /\ SameStore /\ SameConf /\ SameRos

(* IsFailed reads the status again. *)
CuFailed ==
  /\ pc(W) = "cuFailed"
  /\ ReturnTo(W, IF rec[app(W)].status = "Failed" THEN "cuStack" ELSE "cuSame")
  /\ SameStore /\ SameConf /\ SameRos

(* Variant: whatever template has been recorded is good enough. *)
CuSame_Any ==
  /\ pc(W) = "cuSame"
  /\ ReturnTo(W, IF rec[app(W)].tmpl # None THEN "idle" ELSE "cuStack")
  /\ SameStore /\ SameConf /\ SameRos

(* The template is the one recorded: nothing to do. *)
CuSame ==
  /\ pc(W) = "cuSame"
  /\ ReturnTo(W, IF rec[app(W)].tmpl = proc[W].want THEN "idle" ELSE "cuStack")
  /\ SameStore /\ SameConf /\ SameRos

(* GetStack: the stack of the recorded id, or nil. *)
GetStack(next) ==
  Becomes(W, [proc[W] EXCEPT !.id = rec[app(W)].sid, !.pc = next])

(* Variant: the finalizer is only added by an update. *)
CuStack_NoFinalizer ==
  /\ pc(W) = "cuStack"
  /\ GetStack(IF rec[app(W)].sid = None THEN "cuCreate" ELSE "cuFinalizer")
  /\ UNCHANGED due /\ SameStore /\ SameConf /\ SameRos

CuStack ==
  /\ pc(W) = "cuStack"
  /\ GetStack("cuFinalizer")
  /\ UNCHANGED due /\ SameStore /\ SameConf /\ SameRos

(* addCleanUpFinalizer; its answer may be lost, and the change it made is  *)
(* the event that brings the handler back.                                 *)
CuFinalizer ==
  /\ pc(W) = "cuFinalizer"
  /\ AddCleanUpFinalizer(app(W))
  /\ \/ /\ Becomes(W, Unwound(W, IF proc[W].id = None THEN "cuCreate" ELSE "cuUpdate"))
        /\ UNCHANGED faults
     \/ /\ ~conf[app(W)].fin /\ faults < MaxFaults /\ faults' = faults + 1
        /\ Becomes(W, At("idle"))
  /\ UNCHANGED appStackVars /\ SameRos

(* The object vanished since the event. *)
CuFinalizerNotFound ==
  /\ pc(W) = "cuFinalizer" /\ ~Present(app(W))
  /\ ReturnTo(W, "requeue")
  /\ SameStore /\ SameConf /\ SameRos

(* NewStack: created; refused; or created, but the answer is lost. *)
CuCreate ==
  /\ pc(W) = "cuCreate"
  /\ \E i \in Ids :
       /\ StackCreated(app(W), proc[W].want, i)
       /\ \/ /\ Becomes(W, [proc[W] EXCEPT !.id = i, !.pc = "cuRecord"])
             /\ UNCHANGED <<due, faults>>
          \/ FaultTo(W, "cuError")
  /\ UNCHANGED appStackVars /\ SameConf

CuCreateRefused ==
  /\ pc(W) = "cuCreate" /\ CreateRefused
  /\ ReturnTo(W, "cuError")
  /\ SameStore /\ SameConf /\ SameRos

(* Stack.Update: accepted, or accepted and the answer lost. *)
CuUpdate ==
  /\ pc(W) = "cuUpdate"
  /\ StackUpdated(proc[W].id, proc[W].want)
  /\ \/ ReturnTo(W, "cuRecord") /\ UNCHANGED faults
     \/ FaultTo(W, "cuError")
  /\ UNCHANGED appStackVars /\ SameConf

(* Variant: every error of Stack.Update leads to a new stack. *)
CuUpdateRefused_Recreate ==
  /\ pc(W) = "cuUpdate"
  /\ \/ IsStackSame(proc[W].id, proc[W].want) /\ ReturnTo(W, "idle")
     \/ IsStackNotFound(proc[W].id) /\ ReturnTo(W, "cuCreate")
     \/ UpdateRefused(proc[W].id) /\ ReturnTo(W, "cuCreate")
  /\ SameStore /\ SameConf /\ SameRos

(* Variant: a refused template is recorded like an accepted one. *)
CuUpdateRefused_Recorded ==
  /\ pc(W) = "cuUpdate"
  /\ \/ IsStackSame(proc[W].id, proc[W].want) /\ ReturnTo(W, "idle")
     \/ IsStackNotFound(proc[W].id) /\ ReturnTo(W, "cuCreate")
     \/ UpdateRefused(proc[W].id) /\ ReturnTo(W, "cuRecord")
  /\ SameStore /\ SameConf /\ SameRos

(* Stack.Update answers with an error: the same stack is a success, a      *)
(* missing one is created, anything else is the application's error.       *)
CuUpdateRefused ==
  /\ pc(W) = "cuUpdate"
  /\ \/ IsStackSame(proc[W].id, proc[W].want) /\ ReturnTo(W, "idle")
     \/ IsStackNotFound(proc[W].id) /\ ReturnTo(W, "cuCreate")
     \/ UpdateRefused(proc[W].id) /\ ReturnTo(W, "cuError")
  /\ SameStore /\ SameConf /\ SameRos

(* SetError; the handler returns what it returns. *)
CuError ==
  /\ pc(W) = "cuError"
  /\ Begin(W, "Failed", "idle", "requeue")
  /\ SameConf /\ SameRos

(* Variant: an error of SetIdAndTemplate is only logged. *)
CuRecord_Logged ==
  /\ pc(W) = "cuRecord"
  /\ Begin(W, "Record", "cuProgressing", "cuProgressing")
  /\ SameConf /\ SameRos

(* SetIdAndTemplate *)
CuRecord ==
  /\ pc(W) = "cuRecord"
  /\ Begin(W, "Record", "cuProgressing", "requeue")
  /\ SameConf /\ SameRos

(* SetProgressing, whose error does not keep the watcher from starting. *)
CuProgressing ==
  /\ pc(W) = "cuProgressing"
  /\ Begin(W, "Progressing", "spawn", "spawnRequeue")
  /\ SameConf /\ SameRos

(* go waitStackDoneAndSaveOutputs(...), in a free slot; the handler ends. *)
Starts(w, a, i) ==
  /\ pc(w) = "idle"
  /\ proc' = [proc EXCEPT ![w] = [At("wait") EXCEPT !.app = a, !.id = i],
                          ![W] = At("idle")]

Spawn ==
  /\ pc(W) \in {"spawn", "spawnRequeue"}
  /\ \E w \in Watchers : Starts(w, app(W), proc[W].id)
  /\ due' = IF pc(W) = "spawnRequeue" THEN due \cup {app(W)} ELSE due
  /\ SameStore /\ SameConf /\ SameRos
-----------------------------------------------------------------------------
(* Variant: Delete does not wait for the operation under way. *)
DelStatus_Unchecked ==
  /\ pc(W) = "delStatus"
  /\ ReturnTo(W, "delStack")
  /\ SameStore /\ SameConf /\ SameRos

(* Delete: IsProgressing *)
DelStatus ==
  /\ pc(W) = "delStatus"
  /\ ReturnTo(W, IF rec[app(W)].status = "Progressing" THEN "delWait" ELSE "delStack")
  /\ SameStore /\ SameConf /\ SameRos

(* AppStack.WaitUntilDone blocks the worker while the status is            *)
(* Progressing.  For a vanished status it returns "", not Deleted, so the  *)
(* early return of the handler is never taken.                             *)
DelWait ==
  /\ pc(W) = "delWait"
  /\ rec[app(W)].status # "Progressing"
  /\ ReturnTo(W, "delStack")
  /\ SameStore /\ SameConf /\ SameRos

(* Variant: an application without a stack keeps its finalizer. *)
DelStack_Nothing ==
  /\ pc(W) = "delStack"
  /\ GetStack(IF rec[app(W)].sid = None THEN "idle" ELSE "delCall")
  /\ UNCHANGED due /\ SameStore /\ SameConf /\ SameRos

DelStack ==
  /\ pc(W) = "delStack"
  /\ GetStack(IF rec[app(W)].sid = None THEN "delFinalizer" ELSE "delCall")
  /\ UNCHANGED due /\ SameStore /\ SameConf /\ SameRos

(* Stack.Delete: accepted, or accepted and the answer lost. *)
DelCall ==
  /\ pc(W) = "delCall"
  /\ StackDeleted(proc[W].id)
  /\ \/ ReturnTo(W, "delProgressing") /\ UNCHANGED faults
     \/ FaultTo(W, "delError")
  /\ UNCHANGED appStackVars /\ SameConf

(* Variant: every error of Stack.Delete passes for StackNotFound. *)
DelCallRefused_AnyError ==
  /\ pc(W) = "delCall"
  /\ IsStackNotFound(proc[W].id) \/ DeleteRefused(proc[W].id)
  /\ ReturnTo(W, "delRecord")
  /\ SameStore /\ SameConf /\ SameRos

DelCallRefused ==
  /\ pc(W) = "delCall"
  /\ \/ IsStackNotFound(proc[W].id) /\ ReturnTo(W, "delRecord")
     \/ DeleteRefused(proc[W].id) /\ ReturnTo(W, "delError")
  /\ SameStore /\ SameConf /\ SameRos

DelError ==
  /\ pc(W) = "delError"
  /\ Begin(W, "Failed", "idle", "requeue")
  /\ SameConf /\ SameRos

(* Variant: no watcher is started for the deletion. *)
DelProgressing_Unwatched ==
  /\ pc(W) = "delProgressing"
  /\ Begin(W, "Progressing", "idle", "requeue")
  /\ SameConf /\ SameRos

(* SetProgressing, whose error does keep the watcher from starting. *)
DelProgressing ==
  /\ pc(W) = "delProgressing"
  /\ Begin(W, "Progressing", "spawn", "requeue")
  /\ SameConf /\ SameRos

(* AppStack.Delete, when there is no stack to delete. *)
DelRecord ==
  /\ pc(W) = "delRecord"
  /\ Begin(W, "Delete", "delFinalizer", "requeue")
  /\ SameConf /\ SameRos

DelFinalizer ==
  /\ pc(W) = "delFinalizer"
  /\ RemoveCleanUpFinalizer(app(W))
  /\ Becomes(W, At("idle"))
  /\ SameStore /\ SameRos
-----------------------------------------------------------------------------
(* RecoverProgressingAppStacks: LoadProgressingAppStacks reads the list    *)
(* and the object of every application in it; when one is gone, or cannot  *)
(* be read, no application is recovered.                                   *)
Load ==
  /\ pc(W) = "load"
  /\ Becomes(W, IF infos # {} /\ \A a \in infos : Present(a)
                THEN [At("recover") EXCEPT !.list = infos]
                ELSE At("idle"))
  /\ UNCHANGED due /\ SameStore /\ SameConf /\ SameRos

(* GetStack and a watcher for each of them, in any order.  A nil stack     *)
(* gets a watcher, too.                                                    *)
Recover(a) ==
  /\ pc(W) = "recover" /\ a \in proc[W].list
  /\ \E w \in Watchers :
       /\ pc(w) = "idle"
       /\ proc' = [proc EXCEPT
            ![w] = [At("wait") EXCEPT !.app = a, !.id = rec[a].sid],
            ![W] = IF proc[W].list = {a} THEN At("idle")
                   ELSE [proc[W] EXCEPT !.list = @ \ {a}]]
  /\ UNCHANGED due /\ SameStore /\ SameConf /\ SameRos

(* GetStack failed: the application is skipped. *)
RecoverFails(a) ==
  /\ pc(W) = "recover" /\ a \in proc[W].list
  /\ faults < MaxFaults /\ faults' = faults + 1
  /\ Becomes(W, IF proc[W].list = {a} THEN At("idle")
                ELSE [proc[W] EXCEPT !.list = @ \ {a}])
  /\ UNCHANGED due /\ UNCHANGED appStackVars /\ SameConf /\ SameRos
-----------------------------------------------------------------------------
(* Stack.WaitUntilDone: polling ends with a final status, and the outputs  *)
(* are those of that moment.  A poll that fails, or finds another status,  *)
(* changes nothing.                                                        *)
Poll(w) ==
  /\ pc(w) = "wait" /\ proc[w].id # None
  /\ LET status == stack[proc[w].id].status IN
     /\ status \in Settled
     /\ Becomes(w, [proc[w] EXCEPT
          !.inDelete = status \in InDelete,
          !.snap.outs = IF status \notin Deployed THEN None
                        ELSE IF stack[proc[w].id].tmpl \in WithOutputs THEN "named"
                        ELSE "empty",
          !.pc = CASE status \in Deployed     -> "saveOutputs"
                   [] status \in Unsuccessful -> "failed"
                   [] OTHER                   -> "drop"])
  /\ UNCHANGED due /\ SameStore /\ SameConf /\ SameRos

(* SetReady; its error is only logged. *)
WReady(w) ==
  /\ pc(w) = "ready"
  /\ Begin(w, "Ready", "idle", "idle")
  /\ SameConf /\ SameRos

(* SetError; after it a stack that could not be deleted is forgotten, too. *)
WFailed(w) ==
  /\ pc(w) = "failed"
  /\ LET next == IF proc[w].inDelete THEN "drop" ELSE "idle" IN
     Begin(w, "Failed", next, next)
  /\ SameConf /\ SameRos

(* AppStack.Delete; its error is only logged. *)
WDrop(w) ==
  /\ pc(w) = "drop"
  /\ Begin(w, "Delete", "wFinalizer", "wFinalizer")
  /\ SameConf /\ SameRos

WFinalizer(w) ==
  /\ pc(w) = "wFinalizer"
  /\ RemoveCleanUpFinalizer(app(w))
  /\ Becomes(w, At("idle"))
  /\ SameStore /\ SameRos

(* The calls outside of the procedures that may fail: a handler returns    *)
(* the error, except those of NewTemplate and of ROS, which it records     *)
(* with SetError, and that of WaitUntilDone, which it takes for the end.   *)
(* A watcher goes on.                                                      *)
CallFails(p) ==
  /\ \/ /\ pc(p) \in {"cuStatus", "cuFailed", "cuSame", "cuStack", "cuFinalizer",
                      "cuError", "cuRecord", "delStatus", "delStack", "delError",
                      "delProgressing", "delRecord", "delFinalizer"}
        /\ FaultTo(p, "requeue")
     \/ /\ pc(p) = "cuStatus" /\ rec[app(p)].status # "Progressing"
        /\ FaultTo(p, "cuError")
     \/ pc(p) = "cuProgressing" /\ FaultTo(p, "spawnRequeue")
     \/ pc(p) \in {"cuCreate", "cuUpdate"} /\ FaultTo(p, "cuError")
     \/ pc(p) = "delCall" /\ FaultTo(p, "delError")
     \/ pc(p) = "delWait" /\ FaultTo(p, "delStack")
     \/ pc(p) = "failed" /\ FaultTo(p, IF proc[p].inDelete THEN "drop" ELSE "idle")
     \/ pc(p) = "drop" /\ FaultTo(p, "wFinalizer")
     \/ pc(p) \in {"load", "ready", "wFinalizer"} /\ FaultTo(p, "idle")
  /\ UNCHANGED appStackVars /\ SameConf /\ SameRos

(* Updates carry the resourceVersion of a Get that comes after p's last    *)
(* call: if the object or Secret has been written since, by whomever, the  *)
(* Get may be the older one, and the write is refused.  Nothing fails for  *)
(* that.  (SetData and DeleteData carry no version.)                       *)
Conflict(p) ==
  /\ p \in overtaken
  /\ \/ pc(p) \in {"setWrite", "listAdd", "condition"} /\ ReturnTo(p, proc[p].fail)
     \/ pc(p) \in {"cuFinalizer", "delFinalizer"} /\ ReturnTo(p, "requeue")
     \/ pc(p) = "wFinalizer" /\ ReturnTo(p, "idle")
     \/ pc(p) = "nameOutputs" /\ ReturnTo(p, "ready")
  /\ SameStore /\ SameConf /\ SameRos
-----------------------------------------------------------------------------
(* The process ends: every goroutine is lost, and the informer of the next *)
(* process delivers every object.                                          *)
Restart ==
  /\ proc' = Booted
  /\ due' = {a \in Apps : Present(a)}
  /\ overtaken' = {} /\ abandoned' = {}
  /\ UNCHANGED appStackVars /\ UNCHANGED faults /\ SameConf /\ SameRos

Crash ==
  /\ crashes < MaxCrashes
  /\ crashes' = crashes + 1
  /\ Restart /\ UNCHANGED panics

(* Refresh dereferences the nil stack the recovery gave the watcher. *)
Panic(w) ==
  /\ pc(w) = "wait" /\ proc[w].id = None
  /\ panics' = 1
  /\ Restart /\ UNCHANGED crashes

WorkerStep ==
  \/ CuStatus \/ CuFailed \/ CuSame \/ CuStack
  \/ CuFinalizer \/ CuFinalizerNotFound
  \/ CuCreate \/ CuCreateRefused \/ CuUpdate \/ CuUpdateRefused
  \/ CuError \/ CuRecord \/ CuProgressing \/ Spawn
  \/ DelStatus \/ DelWait \/ DelStack \/ DelCall \/ DelCallRefused
  \/ DelError \/ DelProgressing \/ DelRecord \/ DelFinalizer
  \/ Load \/ \E a \in Apps : Recover(a) \/ RecoverFails(a)

WatcherStep(w) ==
  \/ Poll(w)  \/ WReady(w) \/ WFailed(w)
  \/ WDrop(w) \/ WFinalizer(w)

(* The steps of AppStack's procedures, for any goroutine. *)
AppStackStep(p) ==
  \/ ProcedureStep(p) /\ SameConf /\ SameRos
  \/ Condition(p) /\ SameRos

UserStep ==
  /\ \/ \E a \in Apps : UserCreates(a) \/ UserEdits(a) \/ UserDeletes(a)
     \/ InformerResyncs
  /\ UNCHANGED proc /\ SameStore /\ SameRos

RosStep ==
  /\ \E i \in Ids : StackMoves(i)
  /\ UNCHANGED <<conf, due, edits, proc>> /\ SameStore

Next ==
  \/ /\ \/ UserStep
        \/ RosStep
        \/ \E a \in Apps : Dispatch(a)
        \/ WorkerStep
        \/ \E w \in Watchers : WatcherStep(w)
        \/ \E p \in Procs : AppStackStep(p) \/ CallFails(p) \/ Conflict(p)
     /\ Alive
  \/ Crash
  \/ \E w \in Watchers : Panic(w)

Spec == Init /\ [][Next]_vars
=============================================================================
