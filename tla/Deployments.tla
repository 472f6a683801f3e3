----------------------------- MODULE Deployments -----------------------------
(***************************************************************************)
(* The controller as its operators see it: applications that move between  *)
(* accounts and regions, output Secrets, and processes that start, lead,   *)
(* stop and may run with -dry-run.  A handler and the end of a watcher are *)
(* one step each; RosController has their calls one by one.                *)
(*                                                                         *)
(* A template is a version and the instances that have outputs.  Every     *)
(* instance has two: one whose value is a string and one whose is not.     *)
(* A Secret is the function of its keys, empty when there is none.         *)
(***************************************************************************)
EXTENDS Contexts, Integers

CONSTANTS
  Apps,       \* names of applications
  Scopes,     \* the scopes users choose from, for each application
  Templates,  \* the templates of each application: [version, outs]
  Procs,      \* processes: more than one while a rollout replaces one
  Ids,        \* ROS: the stack ids it hands out
  Fake,       \* DryRunFakeStack, the id of every stack of a dry run
  None,
  MaxEdits, MaxBoots, MaxFaults   \* bounds

(* No stack id is empty or that of a dry run, no application is nameless. *)
ASSUME IdAssumption == {Fake, None} \cap Ids = {} /\ Fake # None /\ None \notin Apps

(* A name is a sequence of parts; a user can choose a scope, or none. *)
ASSUME AppAssumption ==
  \A a \in Apps : a \in Seq({a[k] : k \in DOMAIN a}) /\ Scopes[a] # {}

VARIABLES
  obj,       \* the applications' objects: state, scope, tmpl, fin, moved
  due,       \* applications with an event in the queue
  secrets,   \* all Secrets but credentials, by name
  infos,     \* the list of progressing applications: name -> app, region, uid
  stack,     \* ROS: place, name, tmpl and state of each stack
  proc,      \* up, mode, leader, worker, watchers, and its charge: the records
             \* it loaded when it started or put in Progressing itself, and
             \* that no other process put in Progressing since
  edits, boots, faults,
  past       \* history: "dry" after a dry run

vars == <<obj, due, secrets, infos, stack, proc, edits, boots, faults, past>>

Nothing == [key \in {} |-> None]

(* f with one more or another value. *)
With(f, key, value) == [x \in DOMAIN f \cup {key} |-> IF x = key THEN value ELSE f[x]]

Contexts == UNION {{NewContext(a, s, mode) : s \in Scopes[a], mode \in Modes} : a \in Apps}
Outs(a) == UNION {t.outs : t \in Templates[a]}
OutputSecretNames == UNION {{OutputSecretName(c, i) : i \in Outs(c.app)} : c \in Contexts}
Names == {SecretName(c) : c \in Contexts}
  \cup OutputSecretNames

NoStack == [place |-> NoClient, name |-> <<>>, tmpl |-> None, state |-> "absent"]
Down == [up |-> FALSE, mode |-> "real", leader |-> FALSE, worker |-> None,
         watchers |-> {}, charge |-> {}]

Init ==
  /\ obj = [a \in Apps |-> [state |-> "none", scope |-> NoScope, tmpl |-> None,
                            fin |-> FALSE, moved |-> FALSE]]
  /\ due = {}
  /\ secrets = [n \in Names |-> Nothing]
  /\ infos = Nothing
  /\ stack = [i \in Ids |-> NoStack]
  /\ proc = [p \in Procs |-> Down]
  /\ edits = 0 /\ boots = 0 /\ faults = 0
  /\ past = {}

Get(n, key) == IF key \in DOMAIN secrets[n] THEN secrets[n][key] ELSE None
Status(n) == Get(n, "AppStackStatus")
Live(i) == stack[i].state \notin {"absent", "deleted"}

(* Variant: a failed stack is not found. *)
Found_Ok(ctx, id) == id \in Ids /\ stack[id].state = "ok" /\ stack[id].place = ctx.client

(* What a client finds of a stack id: a stack of its own account. *)
Found(ctx, id) == id \in Ids /\ Live(id) /\ stack[id].place = ctx.client
-----------------------------------------------------------------------------
(* Users. *)
Create(a) ==
  /\ obj[a].state = "none"
  /\ \E s \in Scopes[a], t \in Templates[a] :
       obj' = [obj EXCEPT ![a] = [@ EXCEPT !.state = "live", !.scope = s, !.tmpl = t]]
  /\ due' = due \cup {a}
  /\ UNCHANGED <<secrets, infos, stack, proc, edits, boots, faults, past>>

(* One edit changes the scope or the template (a bound). *)
Edit(a) ==
  /\ obj[a].state = "live" /\ edits < MaxEdits
  /\ \E s \in Scopes[a], t \in Templates[a] :
       /\ s = obj[a].scope <=> t # obj[a].tmpl
       /\ obj' = [obj EXCEPT ![a] = [@ EXCEPT !.scope = s, !.tmpl = t,
                                              !.moved = obj[a].moved \/ s # obj[a].scope]]
  /\ edits' = edits + 1
  /\ due' = due \cup {a}
  /\ UNCHANGED <<secrets, infos, stack, proc, boots, faults, past>>

Delete(a) ==
  /\ obj[a].state = "live"
  /\ obj' = [obj EXCEPT ![a].state = IF obj[a].fin THEN "deleting" ELSE "gone"]
  /\ due' = IF obj[a].fin THEN due \cup {a} ELSE due \ {a}
  /\ UNCHANGED <<secrets, infos, stack, proc, edits, boots, faults, past>>

(* removeCleanUpFinalizer *)
Unfinalized(a) ==
  [obj EXCEPT ![a].fin = FALSE, ![a].state = IF @ = "deleting" THEN "gone" ELSE @]
-----------------------------------------------------------------------------
(* Variant: the client is that of the configuration. *)
Loaded_Config(n, mode) ==
  [NewContext(infos[n].app, NoScope, mode)
     EXCEPT !.uid = infos[n].uid, !.region = infos[n].region]

(* LoadProgressingAppStacks: the client is that of the scope the object    *)
(* has now, account and region are those listed.                           *)
Loaded(n, mode) ==
  [NewContext(infos[n].app, obj[infos[n].app].scope, mode)
     EXCEPT !.uid = infos[n].uid, !.region = infos[n].region]

(* One application that is gone, or whose credential is not there, and     *)
(* nothing is loaded.                                                      *)
Loads(mode) ==
  \A n \in DOMAIN infos :
    /\ obj[infos[n].app].state \notin {"none", "gone"}
    /\ ~ContextFails(obj[infos[n].app].scope, mode)

Watcher(ctx, id, handler) == [ctx |-> ctx, id |-> id, handler |-> handler]

(* main: recovery when the process starts, long before it may lead.  The   *)
(* second guard is a bound: one dry run.                                   *)
Boot(p, mode) ==
  /\ ~proc[p].up /\ boots < MaxBoots
  /\ mode = "dry" => "dry" \notin past
  /\ proc' = [proc EXCEPT ![p] = [Down EXCEPT
       !.up = TRUE, !.mode = mode, !.charge = IF Loads(mode) THEN DOMAIN infos ELSE {},
       !.watchers = IF ~Loads(mode) THEN {}
                    ELSE {Watcher(Loaded(n, mode), Get(SecretName(Loaded(n, mode)), "StackId"), FALSE)
                            : n \in DOMAIN infos}]]
  /\ boots' = boots + 1
  /\ past' = past \cup ({mode} \ {"real"})
  /\ UNCHANGED <<obj, due, secrets, infos, stack, edits, faults>>

(* The manager starts its worker; every object is an event again. *)
Lead(p) ==
  /\ proc[p].up /\ \A q \in Procs : ~proc[q].leader
  /\ proc' = [proc EXCEPT ![p].leader = TRUE]
  /\ due' = {a \in Apps : obj[a].state \in {"live", "deleting"}}
  /\ UNCHANGED <<obj, secrets, infos, stack, edits, boots, faults, past>>

(* A process ends, but (a bound) not the last one that may start. *)
Stop(p) ==
  /\ proc[p].up
  /\ boots < MaxBoots \/ \E q \in Procs \ {p} : proc[q].up
  /\ proc' = [proc EXCEPT ![p] = Down]
  /\ UNCHANGED <<obj, due, secrets, infos, stack, edits, boots, faults, past>>

Panic(p) ==
  /\ proc' = [proc EXCEPT ![p] = Down]
  /\ UNCHANGED <<secrets, infos, stack, edits, boots, faults, past>>
-----------------------------------------------------------------------------
Context(p, a) == NewContext(a, obj[a].scope, proc[p].mode)
Record(p, a) == SecretName(Context(p, a))
StackId(p, a) == Get(Record(p, a), "StackId")

(* The worker of the leader takes an event for which a context can be made. *)
Takes(p, a) ==
  /\ proc[p].leader /\ proc[p].worker = None /\ a \in due
  /\ due' = due \ {a}
  /\ ~ContextFails(obj[a].scope, proc[p].mode)

(* Variant: a failed record is written anew. *)
SetError_Fresh(n) ==
  /\ secrets' = [secrets EXCEPT ![n] = With(Nothing, "AppStackStatus", "Failed")]
  /\ infos' = [m \in DOMAIN infos \ {n} |-> infos[m]]

SetError(n) ==
  /\ secrets' = [secrets EXCEPT ![n] = With(@, "AppStackStatus", "Failed")]
  /\ infos' = [m \in DOMAIN infos \ {n} |-> infos[m]]

(* Variant: the region of the configuration is listed. *)
Info_Config(ctx) == [app |-> ctx.app, region |-> ConfigRegion, uid |-> ctx.uid]

(* addProgressingAppStackInfoToSecret *)
Info(ctx) == [app |-> ctx.app, region |-> ctx.region, uid |-> ctx.uid]

(* SetIdAndTemplate, SetProgressing and the watcher. *)
SetProgressing(p, a, id, tmpl, handler) ==
  LET ctx == Context(p, a)  n == Record(p, a) IN
  /\ secrets' = [secrets EXCEPT ![n] =
       With(With(With(@, "StackId", id), "TemplateBody", tmpl), "AppStackStatus", "Progressing")]
  /\ infos' = With(infos, n, Info(ctx))
  /\ proc' = [q \in Procs |->
       IF q = p THEN [proc[p] EXCEPT !.worker = None, !.charge = @ \cup {n},
                                     !.watchers = @ \cup {Watcher(ctx, id, handler)}]
       ELSE [proc[q] EXCEPT !.charge = @ \ {n}]]

(* addCleanUpFinalizer *)
Finalized(a) == [obj EXCEPT ![a].fin = TRUE]

(* CreateOrUpdate goes on: not in Progressing, and another template than   *)
(* the one recorded, or the one that failed.                               *)
Deploys(p, a) ==
  /\ Takes(p, a) /\ obj[a].state = "live"
  /\ Status(Record(p, a)) # "Progressing"
  /\ \/ Status(Record(p, a)) = "Failed"
     \/ Get(Record(p, a), "TemplateBody") # obj[a].tmpl

CuNothing(p, a) ==
  /\ Takes(p, a)
  /\ \/ obj[a].state \notin {"live", "deleting"}
     \/ obj[a].state = "live" /\ Status(Record(p, a)) = "Progressing"
     \/ /\ obj[a].state = "live" /\ Status(Record(p, a)) # "Failed"
        /\ Get(Record(p, a), "TemplateBody") = obj[a].tmpl
  /\ UNCHANGED <<obj, secrets, infos, stack, proc, edits, boots, faults, past>>

(* There is no stack, or none that the client finds. *)
Creates(p, a) ==
  /\ Deploys(p, a)
  /\ StackId(p, a) # Fake
  /\ StackId(p, a) = None \/ (proc[p].mode = "real" /\ ~Found(Context(p, a), StackId(p, a)))
  /\ obj' = Finalized(a)
  /\ UNCHANGED <<edits, boots, faults, past>>

NameTaken(p, a) ==
  \E i \in Ids : Live(i) /\ stack[i].place = Context(p, a).client
                         /\ stack[i].name = Record(p, a)

CuCreate(p, a) ==
  /\ Creates(p, a) /\ proc[p].mode = "real" /\ ~NameTaken(p, a)
  /\ \E i \in Ids :
       /\ stack[i].state = "absent"
       /\ stack' = [stack EXCEPT ![i] =
            [place |-> Context(p, a).client, name |-> Record(p, a),
             tmpl |-> obj[a].tmpl, state |-> "busy"]]
       /\ SetProgressing(p, a, i, obj[a].tmpl, TRUE)

CuCreateRefused(p, a) ==
  /\ Creates(p, a) /\ proc[p].mode = "real" /\ NameTaken(p, a)
  /\ SetError(Record(p, a))
  /\ UNCHANGED <<stack, proc>>

(* A dry run's stack: the only one with a dryRunHandler. *)
CuCreateDry(p, a) ==
  /\ Creates(p, a) /\ proc[p].mode = "dry"
  /\ SetProgressing(p, a, Fake, obj[a].tmpl, TRUE)
  /\ UNCHANGED stack

(* Stack.Update of a stack the client finds: updated, the same, or busy. *)
Updates(p, a) ==
  /\ Deploys(p, a)
  /\ proc[p].mode = "real" /\ Found(Context(p, a), StackId(p, a))
  /\ obj' = Finalized(a)
  /\ UNCHANGED <<edits, boots, faults, past>>

CuUpdate(p, a) ==
  /\ Updates(p, a) /\ stack[StackId(p, a)].state \in {"ok", "failed"}
  /\ stack[StackId(p, a)].tmpl # obj[a].tmpl \/ stack[StackId(p, a)].state = "failed"
  /\ stack' = [stack EXCEPT ![StackId(p, a)] = [@ EXCEPT !.tmpl = obj[a].tmpl, !.state = "busy"]]
  /\ SetProgressing(p, a, StackId(p, a), obj[a].tmpl, FALSE)

CuSame(p, a) ==
  /\ Updates(p, a) /\ stack[StackId(p, a)].state = "ok"
  /\ stack[StackId(p, a)].tmpl = obj[a].tmpl
  /\ UNCHANGED <<secrets, infos, stack, proc>>

CuBusy(p, a) ==
  /\ Updates(p, a) /\ stack[StackId(p, a)].state \in {"busy", "deleting"}
  /\ SetError(Record(p, a))
  /\ UNCHANGED <<stack, proc>>

(* Only NewStack gives a stack a dryRunHandler: Update, Delete and Refresh *)
(* of a fake stack from GetStack call nil.  What a call with a client that *)
(* was never initialised does is the SDK's: it panics or is an error.      *)
Handlerless(p, id) == id = Fake \/ (proc[p].mode = "dry" /\ id \in Ids)

CuPanic(p, a) ==
  /\ Deploys(p, a) /\ Handlerless(p, StackId(p, a))
  /\ obj' = Finalized(a)
  /\ Panic(p)

CuDryError(p, a) ==
  /\ Deploys(p, a) /\ proc[p].mode = "dry" /\ StackId(p, a) \in Ids
  /\ obj' = Finalized(a)
  /\ SetError(Record(p, a))
  /\ UNCHANGED <<stack, proc, edits, boots, faults, past>>
-----------------------------------------------------------------------------
(* Delete: the worker waits for an application in Progressing, whatever    *)
(* else is in the queue.                                                   *)
DelWait(p, a) ==
  /\ Takes(p, a) /\ obj[a].state = "deleting"
  /\ Status(Record(p, a)) = "Progressing"
  /\ proc' = [proc EXCEPT ![p].worker = a]
  /\ UNCHANGED <<obj, secrets, infos, stack, edits, boots, faults, past>>

Deletes(p, a) ==
  /\ Takes(p, a) \/ (proc[p].leader /\ proc[p].worker = a /\ UNCHANGED due)
  /\ obj[a].state \in {"deleting", "gone"}
  /\ obj[a].state = "deleting" \/ proc[p].worker = a
  /\ Status(Record(p, a)) # "Progressing"
  /\ UNCHANGED <<edits, boots>>
Idle(p) == [proc EXCEPT ![p].worker = None]

DelNothing(p, a) ==
  /\ Deletes(p, a) /\ StackId(p, a) = None
  /\ obj' = Unfinalized(a) /\ proc' = Idle(p)
  /\ UNCHANGED <<secrets, infos, stack, faults, past>>

(* AppStack.Delete: the output Secrets that are named, then the record.    *)
Dropped(n, names) ==
  [m \in Names |-> IF m \in names \cup {n} THEN Nothing ELSE secrets[m]]
OutputNames(n) == IF Get(n, "Outputs") = None THEN {} ELSE Get(n, "Outputs")

DelGone(p, a) ==
  /\ Deletes(p, a) /\ proc[p].mode = "real"
  /\ StackId(p, a) \in Ids /\ ~Found(Context(p, a), StackId(p, a))
  /\ secrets' = Dropped(Record(p, a), OutputNames(Record(p, a)))
  /\ infos' = [m \in DOMAIN infos \ {Record(p, a)} |-> infos[m]]
  /\ obj' = Unfinalized(a) /\ proc' = Idle(p)
  /\ UNCHANGED <<stack, faults, past>>

DelStack(p, a) ==
  /\ Deletes(p, a) /\ proc[p].mode = "real" /\ Found(Context(p, a), StackId(p, a))
  /\ stack' = [stack EXCEPT ![StackId(p, a)].state = "deleting"]
  /\ SetProgressing(p, a, StackId(p, a), Get(Record(p, a), "TemplateBody"), FALSE)
  /\ UNCHANGED <<obj, faults, past>>

DelPanic(p, a) ==
  /\ Deletes(p, a) /\ Handlerless(p, StackId(p, a))
  /\ Panic(p) /\ UNCHANGED obj

DelDryError(p, a) ==
  /\ Deletes(p, a) /\ proc[p].mode = "dry" /\ StackId(p, a) \in Ids
  /\ SetError(Record(p, a)) /\ proc' = Idle(p)
  /\ UNCHANGED <<obj, stack, faults, past>>
-----------------------------------------------------------------------------
(* waitStackDoneAndSaveOutputs: Refresh finds the watcher's stack ...      *)
Sees(p, w, states) ==
  /\ proc[p].mode = "real" /\ w \in proc[p].watchers /\ w.id \in Ids
  /\ stack[w.id].state \in states
  /\ stack[w.id].place = w.ctx.client
  /\ proc' = [proc EXCEPT ![p].watchers = @ \ {w}]
  /\ UNCHANGED <<due, stack, edits, boots, past>>

(* The second guard is a bound: a write fails before the last start.       *)
Counted(failures) ==
  /\ faults' = faults + failures /\ faults' <= MaxFaults
  /\ failures > 0 => boots < MaxBoots

(* Variant: outputs are added to those already in the Secret. *)
OutputData_Old(version, old) ==
  [key \in DOMAIN old \cup {"Attr", "List"} |->
     IF key \in DOMAIN old THEN old[key] ELSE [Attr |-> version, List |-> ""][key]]

(* An output whose value is not a string is saved as an empty one.         *)
OutputData(version, old) == [Attr |-> version, List |-> ""]

(* SaveOutputs and SetReady.  A Secret that cannot be written is not named *)
(* in the record; nor is any when the record cannot be.  (The writes of    *)
(* one watcher's outputs count as one failure.)                            *)
WReady(p, w) ==
  LET n    == SecretName(w.ctx)
      tmpl == stack[w.id].tmpl
      outs == {OutputSecretName(w.ctx, i) : i \in tmpl.outs}
  IN /\ Sees(p, w, {"ok"})
     /\ \E failed \in SUBSET outs, unnamed \in BOOLEAN :
          /\ Counted((IF failed # {} THEN 1 ELSE 0) + (IF unnamed THEN 1 ELSE 0))
          /\ LET saved == [m \in Names |-> IF m \in outs \ failed
                                           THEN OutputData(tmpl.version, secrets[m])
                                           ELSE secrets[m]]
                 ready == With(saved[n], "AppStackStatus", "Ready")
             IN secrets' = [saved EXCEPT ![n] = IF unnamed THEN ready
                                                ELSE With(ready, "Outputs", outs \ failed)]
     /\ infos' = [m \in DOMAIN infos \ {n} |-> infos[m]]
     /\ UNCHANGED obj

WFailed(p, w) ==
  /\ Sees(p, w, {"failed"})
  /\ SetError(SecretName(w.ctx))
  /\ UNCHANGED <<obj, faults>>

(* The stack is deleted.  Delete stops at a Secret that it cannot delete,  *)
(* or at the list, and the finalizer goes all the same.                    *)
WDeleted(p, w) ==
  LET n == SecretName(w.ctx) IN
  /\ Sees(p, w, {"deleted"})
  /\ obj' = Unfinalized(w.ctx.app)
  /\ \/ /\ secrets' = Dropped(n, OutputNames(n))
        /\ \/ infos' = [m \in DOMAIN infos \ {n} |-> infos[m]] /\ UNCHANGED faults
           \/ UNCHANGED infos /\ Counted(1)
     \/ /\ \E some \in SUBSET OutputNames(n) :
             secrets' = [m \in Names |-> IF m \in some THEN Nothing ELSE secrets[m]]
        /\ Counted(1)
        /\ UNCHANGED infos

(* A watcher without a stack, or with a fake one that GetStack made. *)
WPanic(p, w) ==
  /\ w \in proc[p].watchers
  /\ w.id = None \/ (Handlerless(p, w.id) /\ ~w.handler)
  /\ Panic(p) /\ UNCHANGED <<obj, due>>

(* ROS carries out what it was asked to; RosController has what else it     *)
(* may do.                                                                 *)
StackMoves(i) ==
  /\ \E move \in {<<"busy", "ok">>, <<"busy", "failed">>, <<"deleting", "deleted">>} :
       stack[i].state = move[1] /\ stack' = [stack EXCEPT ![i].state = move[2]]
  /\ UNCHANGED <<obj, due, secrets, infos, proc, edits, boots, faults, past>>

(* An operator deletes a stack at the console, or mends one (bounded with  *)
(* the edits).                                                             *)
Console(i) ==
  /\ \E move \in {<<"failed", "busy">>, <<"ok", "deleting">>} :
       stack[i].state = move[1] /\ stack' = [stack EXCEPT ![i].state = move[2]]
  /\ edits < MaxEdits /\ edits' = edits + 1
  /\ UNCHANGED <<obj, due, secrets, infos, proc, boots, faults, past>>
-----------------------------------------------------------------------------
CreateOrUpdate(p, a) ==
  \/ CuNothing(p, a) \/ CuCreate(p, a) \/ CuCreateRefused(p, a) \/ CuCreateDry(p, a)
  \/ CuUpdate(p, a) \/ CuSame(p, a) \/ CuBusy(p, a) \/ CuPanic(p, a) \/ CuDryError(p, a)
DeleteApp(p, a) ==
  \/ DelWait(p, a) \/ DelNothing(p, a) \/ DelGone(p, a) \/ DelStack(p, a)
  \/ DelPanic(p, a) \/ DelDryError(p, a)

Next ==
  \/ \E a \in Apps : Create(a) \/ Edit(a) \/ Delete(a)
  \/ \E p \in Procs : (\E mode \in Modes : Boot(p, mode)) \/ Lead(p) \/ Stop(p)
  \/ \E p \in Procs, a \in Apps : CreateOrUpdate(p, a) \/ DeleteApp(p, a)
  \/ \E p \in Procs : \E w \in proc[p].watchers :
        WReady(p, w) \/ WFailed(p, w) \/ WDeleted(p, w) \/ WPanic(p, w)
  \/ \E i \in Ids : StackMoves(i) \/ Console(i)

Spec == Init /\ [][Next]_vars
-----------------------------------------------------------------------------
Here(a) == NewContext(a, obj[a].scope, "real")
Of(a, i) == \E s \in Scopes[a] : stack[i].name = SecretName(NewContext(a, s, "real"))
StacksOf(a) == {i \in Ids : Live(i) /\ Of(a, i)}
Deleted == {i \in Ids : stack[i].state = "deleted"}

(* An output of one application is named like the record of another.       *)
Clash(n) == n \in OutputSecretNames

(* Types; and that a list entry leads back to the record it is of. *)
TypeOK ==
  /\ \A a \in Apps : obj[a].state \in {"none", "live", "deleting", "gone"}
  /\ due \subseteq Apps /\ DOMAIN infos \subseteq Names
  /\ \A n \in DOMAIN infos : SecretName(infos[n]) = n
  /\ \A p \in Procs, w \in UNION {proc[q].watchers : q \in Procs} :
       w.id \in Ids \cup {Fake, None} /\ proc[p].worker \in Apps \cup {None}

(* What Ready says of outputs (appstack.go:391-452): unless a write        *)
(* failed, each instance of the deployed template has the Secret of its    *)
(* account and region, with this version's string outputs; an output of    *)
(* another type is there but empty (appstack.go:413).                      *)
OutputsSaved ==
  \A a \in Apps :
    LET n == SecretName(Here(a))  id == Get(n, "StackId") IN
    Status(n) = "Ready" /\ faults = 0 /\ id \in Ids =>
      \A i \in Get(n, "TemplateBody").outs :
        ~(\E c \in Contexts : SecretName(c) = OutputSecretName(Here(a), i)) =>
          secrets[OutputSecretName(Here(a), i)]
            = [Attr |-> Get(n, "TemplateBody").version, List |-> ""]

(* The record of a stack that exists keeps its id, through edits of the    *)
(* scope, restarts, dry runs and failures.  The ways out: an output of     *)
(* another application has the record's name (appstack.go:266, 275); a     *)
(* watcher of the stack before it, deleted at the console, is late.        *)
RecordsKept ==
  [][\A n \in Names :
       Get(n, "StackId") \in Ids /\ Live(Get(n, "StackId")) /\ ~Clash(n)
       /\ (\A i \in Deleted : stack[i].name # n) =>
         "StackId" \in DOMAIN secrets'[n] /\ secrets'[n]["StackId"] = Get(n, "StackId")]_vars

(* An application that did not move has one stack.  One that did has, in   *)
(* each account and region, at most one made without a scope and one made  *)
(* for a scope: two when the scope names the configured account, since the *)
(* name of the record has the account only then (appstack.go:267).         *)
OneStackPerPlace ==
  \A a \in Apps : \A i, j \in StacksOf(a) :
    i # j => /\ obj[a].moved
             /\ stack[i].place = stack[j].place => (stack[i].name = a <=> stack[j].name # a)

(* An object that is gone left a stack only where its scope no longer      *)
(* points, or where it was made without a scope and the scope now names    *)
(* the configured account, or the other way round (appstack.go:267); unless*)
(* its record was overwritten, a dry run let it go, or the deletion of the *)
(* stack it had before the edit of its scope did.                          *)
GoneFromHere ==
  \A a \in Apps : \A i \in StacksOf(a) :
    obj[a].state = "gone" /\ stack[i].place = Here(a).client =>
      \/ obj[a].moved /\ (stack[i].name = a <=> SecretName(Here(a)) # a)
      \/ Clash(SecretName(Here(a))) \/ "dry" \in past
      \/ \E j \in Deleted : Of(a, j)

(* Every application in Progressing is watched, with a client that finds   *)
(* its stack, while a process leads.  The ways out: another process put it *)
(* in Progressing after the leader had started (main.go:131); the leader   *)
(* did not load the list, for one application on it that was gone or had   *)
(* no credential (appstack.go:238, 244); its scope had been edited         *)
(* (appstack.go:242-247); its stack was deleted and the record could not   *)
(* be, when the watcher ends all the same (handlers/appconf.go:315).       *)
LeaderWatches ==
  \A p \in Procs, n \in DOMAIN infos :
    LET id == Get(n, "StackId")
        watched == \E q \in Procs : \E w \in proc[q].watchers :
                     w.id = id /\ SecretName(w.ctx) = n /\ w.ctx.client = stack[id].place
    IN /\ proc[p].leader /\ proc[p].mode = "real" /\ n \in proc[p].charge
       /\ Status(n) = "Progressing" /\ id \in Ids
       /\ stack[id].state # "deleted" \/ faults = 0
       /\ ~obj[infos[n].app].moved
       => watched
=============================================================================
