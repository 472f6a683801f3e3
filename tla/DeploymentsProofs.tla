------------------------- MODULE DeploymentsProofs --------------------------
(***************************************************************************)
(* What Deployments says of stacks and their records, proved for all       *)
(* applications, scopes, templates, processes and bounds.  What a step     *)
(* does to objects, stacks, records, the list and processes is said once   *)
(* (ObjectStep, StackStep, SecretStep, ListStep, ProcStep); the parts of   *)
(* the invariant follow from that.                                         *)
(***************************************************************************)
EXTENDS DeploymentsInvariant, SequenceTheorems, TLAPS

-----------------------------------------------------------------------------
(* Names, and functions with one more value.                               *)

LEMMA SameName ==
  ASSUME NEW ctx PROVE SecretName(Info(ctx)) = SecretName(ctx)
BY DEF SecretName, Info

LEMMA ContextFacts ==
  ASSUME NEW a \in Apps, NEW s \in Scopes[a], NEW mode \in Modes
  PROVE  /\ NewContext(a, s, mode) \in Contexts \cap AppContexts
         /\ NewContext(a, s, mode).app = a
         /\ SecretName(NewContext(a, s, mode)) \in Names
<1>1. NewContext(a, s, mode) \in Contexts
  BY DEF Contexts
<1>2. NewContext(a, s, mode).app = a
  BY DEF NewContext
<1>3. NewContext(a, s, mode) \in AppContexts
  <2> DEFINE c == NewContext(a, s, mode)
  <2>1. c = [app |-> c.app, uid |-> c.uid, region |-> c.region, client |-> c.client]
    BY DEF NewContext
  <2>2. c.uid \in Uids /\ c.region \in Regions /\ c.client \in Clients
    BY <1>1 DEF Uids, Regions, Clients
  <2> HIDE DEF c
  <2> QED BY <1>2, <2>1, <2>2 DEF AppContexts, c
<1> QED BY <1>1, <1>2, <1>3 DEF Names, OutputSecretNames
-----------------------------------------------------------------------------
(* Objects.                                                                *)

LEMMA FinalizedFields ==
  ASSUME AppsInv, NEW a \in Apps, NEW b \in Apps
  PROVE  /\ Finalized(a) \in [Apps -> Objects]
         /\ Finalized(a)[b].state = obj[b].state
         /\ Finalized(a)[b].scope = obj[b].scope
         /\ Finalized(a)[b].tmpl = obj[b].tmpl
         /\ Finalized(a)[b].moved = obj[b].moved
         /\ obj[b].fin \/ b = a => Finalized(a)[b].fin
BY DEF AppsInv, Finalized, Objects

LEMMA UnfinalizedFields ==
  ASSUME AppsInv, NEW a \in Apps, NEW b \in Apps
  PROVE  /\ Unfinalized(a) \in [Apps -> Objects]
         /\ Unfinalized(a)[b].state =
              IF b = a /\ obj[b].state = "deleting" THEN "gone" ELSE obj[b].state
         /\ Unfinalized(a)[b].scope = obj[b].scope
         /\ Unfinalized(a)[b].tmpl = obj[b].tmpl
         /\ Unfinalized(a)[b].moved = obj[b].moved
         /\ b # a => Unfinalized(a)[b].fin = obj[b].fin
BY DEF AppsInv, Unfinalized, Objects

Works(p, a) == CreateOrUpdate(p, a) \/ DeleteApp(p, a)
Watches(p, w) == WReady(p, w) \/ WFailed(p, w) \/ WDeleted(p, w) \/ WPanic(p, w)

(* What the steps of the worker and of watchers do to objects.             *)
LEMMA WorkObjects ==
  ASSUME NEW p \in Procs, NEW a \in Apps, Works(p, a)
  PROVE  /\ due' \subseteq due
         /\ \/ obj' = obj
            \/ obj' = Finalized(a) /\ obj[a].state = "live"
            \/ obj' = Unfinalized(a) /\ obj[a].state \in {"deleting", "gone"}
               /\ (DelNothing(p, a) \/ DelGone(p, a))
<1>1. CASE CuNothing(p, a)
  BY <1>1 DEF CuNothing, Takes
<1>2. CASE CuCreate(p, a) \/ CuCreateRefused(p, a) \/ CuCreateDry(p, a)
  BY <1>2 DEF CuCreate, CuCreateRefused, CuCreateDry, Creates, Deploys, Takes
<1>3. CASE CuUpdate(p, a) \/ CuSame(p, a) \/ CuBusy(p, a)
  BY <1>3 DEF CuUpdate, CuSame, CuBusy, Updates, Deploys, Takes
<1>4. CASE CuPanic(p, a) \/ CuDryError(p, a)
  BY <1>4 DEF CuPanic, CuDryError, Deploys, Takes
<1>5. CASE DelWait(p, a)
  BY <1>5 DEF DelWait, Takes
<1>6. CASE DelNothing(p, a) \/ DelGone(p, a)
  BY <1>6 DEF DelNothing, DelGone, Deletes, Takes
<1>7. CASE DelStack(p, a) \/ DelPanic(p, a) \/ DelDryError(p, a)
  BY <1>7 DEF DelStack, DelPanic, DelDryError, Deletes, Takes
<1> QED BY <1>1, <1>2, <1>3, <1>4, <1>5, <1>6, <1>7
     DEF Works, CreateOrUpdate, DeleteApp

LEMMA WatchObjects ==
  ASSUME NEW p \in Procs, NEW w \in proc[p].watchers, Watches(p, w)
  PROVE  /\ due' = due
         /\ obj' = obj \/ (WDeleted(p, w) /\ obj' = Unfinalized(w.ctx.app))
BY DEF Watches, WReady, WFailed, WDeleted, WPanic, Sees

(* The other steps, and no step at all. *)
Others ==
  \/ \E p \in Procs : (\E mode \in Modes : Boot(p, mode)) \/ Lead(p) \/ Stop(p)
  \/ \E i \in Ids : StackMoves(i) \/ Console(i)
  \/ UNCHANGED vars

LEMMA OtherObjects ==
  ASSUME Others
  PROVE  /\ obj' = obj
         /\ due' = due \/ due' = {a \in Apps : obj[a].state \in {"live", "deleting"}}
BY DEF Others, Boot, Lead, Stop, StackMoves, Console, vars

LEMMA StepCases ==
  ASSUME [Next]_vars
  PROVE  \/ \E a \in Apps : Create(a) \/ Edit(a) \/ Delete(a)
         \/ \E p \in Procs, a \in Apps : Works(p, a)
         \/ \E p \in Procs : \E w \in proc[p].watchers : Watches(p, w)
         \/ Others
BY DEF Next, Works, Watches, Others

(* What a step does to an object. *)
LetGo(a) ==
  \/ \E p \in Procs : DelNothing(p, a) \/ DelGone(p, a)
  \/ \E p \in Procs : \E w \in proc[p].watchers : WDeleted(p, w) /\ w.ctx.app = a

ObjectStep(a) ==
  /\ obj[a].state # "none" => obj'[a].state # "none"
  /\ obj'[a].state = "none" => obj'[a].scope = obj[a].scope
  /\ obj[a].moved => obj'[a].moved
  /\ obj[a].state # "none" => obj'[a].scope = obj[a].scope \/ obj'[a].moved
  /\ obj[a].state = "gone" => obj'[a].state = "gone" /\ obj'[a].scope = obj[a].scope
  /\ obj'[a].state = "gone" => obj'[a].scope = obj[a].scope
  /\ obj[a].state # "gone" /\ obj'[a].state = "gone" => ~obj[a].fin \/ LetGo(a)
  /\ obj[a].state # "none" /\ obj[a].fin =>
       \/ obj'[a].fin \/ obj'[a].state = "gone"
       \/ \E p \in Procs : \E w \in proc[p].watchers : WDeleted(p, w) /\ w.ctx.app = a

LEMMA ObjectKept ==
  ASSUME NEW a \in Apps, obj'[a] = obj[a] PROVE ObjectStep(a)
BY DEF ObjectStep

LEMMA UserStep ==
  ASSUME AppsInv, NEW a \in Apps, Create(a) \/ Edit(a) \/ Delete(a)
  PROVE  AppsInv' /\ \A b \in Apps : ObjectStep(b)
<1>1. obj[a] \in Objects
  BY DEF AppsInv
<1> DEFINE Result(o) == /\ o \in Objects
                        /\ o.state # "none" => o.scope \in Scopes[a] /\ o.tmpl \in Templates[a]
                        /\ obj' = [obj EXCEPT ![a] = o]
                        /\ due' \subseteq due \cup {a}
                        /\ a \in due' => o.state # "none"
<1>2. ASSUME NEW o, Result(o) PROVE AppsInv' /\ \A b \in Apps \ {a} : ObjectStep(b)
  BY <1>2 DEF AppsInv, ObjectStep
<1>3. CASE Create(a)
  <2>1. PICK s \in Scopes[a], t \in Templates[a] :
          obj' = [obj EXCEPT ![a] = [obj[a] EXCEPT !.state = "live", !.scope = s, !.tmpl = t]]
    BY <1>3 DEF Create
  <2> DEFINE o == [obj[a] EXCEPT !.state = "live", !.scope = s, !.tmpl = t]
  <2>2. o \in Objects /\ o.state = "live" /\ o.scope = s /\ o.tmpl = t /\ o.moved = obj[a].moved
    BY <1>1 DEF Objects
  <2>3. obj' = [obj EXCEPT ![a] = o]
    BY <2>1
  <2> HIDE DEF o
  <2>4. Result(o)
    BY <1>3, <2>2, <2>3 DEF Create
  <2>5. obj'[a] = o
    BY <2>3 DEF AppsInv
  <2>6. ObjectStep(a)
    BY <1>3, <2>2, <2>5 DEF ObjectStep, Create
  <2> QED BY <1>2, <2>4, <2>6
<1>4. CASE Edit(a)
  <2>1. PICK s \in Scopes[a], t \in Templates[a] :
          obj' = [obj EXCEPT ![a] = [obj[a] EXCEPT !.scope = s, !.tmpl = t,
                                       !.moved = obj[a].moved \/ s # obj[a].scope]]
    BY <1>4 DEF Edit
  <2> DEFINE o == [obj[a] EXCEPT !.scope = s, !.tmpl = t,
                                 !.moved = obj[a].moved \/ s # obj[a].scope]
  <2>2. /\ o \in Objects /\ o.state = obj[a].state /\ o.scope = s /\ o.tmpl = t
        /\ o.fin = obj[a].fin /\ (obj[a].moved \/ s # obj[a].scope => o.moved)
    BY <1>1 DEF Objects
  <2>3. obj' = [obj EXCEPT ![a] = o]
    BY <2>1
  <2> HIDE DEF o
  <2>4. Result(o)
    BY <1>4, <2>2, <2>3 DEF Edit
  <2>5. obj'[a] = o
    BY <2>3 DEF AppsInv
  <2>6. ObjectStep(a)
    BY <1>4, <2>2, <2>5 DEF ObjectStep, Edit
  <2> QED BY <1>2, <2>4, <2>6
<1>5. CASE Delete(a)
  <2> DEFINE state == IF obj[a].fin THEN "deleting" ELSE "gone"
             o == [obj[a] EXCEPT !.state = state]
  <2>2. /\ o \in Objects /\ o.state = state /\ o.scope = obj[a].scope /\ o.tmpl = obj[a].tmpl
        /\ o.fin = obj[a].fin /\ o.moved = obj[a].moved
    BY <1>1 DEF Objects
  <2>3. obj' = [obj EXCEPT ![a] = o]
    BY <1>5 DEF Delete
  <2> HIDE DEF o
  <2>4. Result(o)
    BY <1>5, <2>2, <2>3 DEF Delete, AppsInv
  <2>5. obj'[a] = o
    BY <2>3 DEF AppsInv
  <2>6. ObjectStep(a)
    BY <1>5, <2>2, <2>5 DEF ObjectStep, Delete
  <2> QED BY <1>2, <2>4, <2>6
<1> QED BY <1>3, <1>4, <1>5

LEMMA AppsStep ==
  ASSUME AppsInv, ProcsInv, [Next]_vars
  PROVE  AppsInv' /\ \A a \in Apps : ObjectStep(a)
<1>1. ASSUME NEW a \in Apps, Create(a) \/ Edit(a) \/ Delete(a)
      PROVE  AppsInv' /\ \A b \in Apps : ObjectStep(b)
  BY <1>1, UserStep
<1>2. ASSUME due' \subseteq {a \in Apps : obj[a].state # "none"}, obj' = obj
      PROVE  AppsInv' /\ \A b \in Apps : ObjectStep(b)
  BY <1>2, ObjectKept DEF AppsInv
<1>3. ASSUME due' \subseteq due, NEW a \in Apps, obj' = Finalized(a), obj[a].state # "none"
      PROVE  AppsInv' /\ \A b \in Apps : ObjectStep(b)
  BY <1>3, FinalizedFields DEF AppsInv, ObjectStep
<1>4. ASSUME due' \subseteq due, NEW a \in Apps, obj' = Unfinalized(a), LetGo(a),
             (\/ obj[a].state \in {"deleting", "gone"}
              \/ \E p \in Procs : \E w \in proc[p].watchers : WDeleted(p, w) /\ w.ctx.app = a)
      PROVE  AppsInv' /\ \A b \in Apps : ObjectStep(b)
  <2>1. AppsInv'
    BY <1>4, UnfinalizedFields DEF AppsInv
  <2>2. ASSUME NEW b \in Apps \ {a} PROVE ObjectStep(b)
    <3>1. /\ obj'[b].state = obj[b].state /\ obj'[b].scope = obj[b].scope
          /\ obj'[b].moved = obj[b].moved /\ obj'[b].fin = obj[b].fin
      BY <1>4, <2>2, UnfinalizedFields
    <3> QED BY <3>1 DEF ObjectStep
  <2>3. ObjectStep(a)
    <3>1. /\ obj'[a].state = IF obj[a].state = "deleting" THEN "gone" ELSE obj[a].state
          /\ obj'[a].scope = obj[a].scope /\ obj'[a].moved = obj[a].moved
      BY <1>4, UnfinalizedFields
    <3> QED BY <1>4, <3>1 DEF ObjectStep
  <2> QED BY <2>1, <2>2, <2>3
<1>5. ASSUME NEW p \in Procs, NEW a \in Apps, Works(p, a)
      PROVE  AppsInv' /\ \A b \in Apps : ObjectStep(b)
  <2>1. due' \subseteq due /\ due' \subseteq {b \in Apps : obj[b].state # "none"}
    BY <1>5, WorkObjects DEF AppsInv
  <2>2. CASE obj' = obj
    BY <2>1, <2>2, <1>2
  <2>3. CASE obj' = Finalized(a) /\ obj[a].state = "live"
    BY <2>1, <2>3, <1>3
  <2>4. CASE /\ obj' = Unfinalized(a) /\ obj[a].state \in {"deleting", "gone"}
             /\ DelNothing(p, a) \/ DelGone(p, a)
    BY <2>1, <2>4, <1>4 DEF LetGo
  <2> QED BY <1>5, <2>2, <2>3, <2>4, WorkObjects
<1>6. ASSUME NEW p \in Procs, NEW w \in proc[p].watchers, Watches(p, w)
      PROVE  AppsInv' /\ \A b \in Apps : ObjectStep(b)
  <2>1. due' = due /\ due' \subseteq {b \in Apps : obj[b].state # "none"}
    BY <1>6, WatchObjects DEF AppsInv
  <2>2. w.ctx.app \in Apps
    BY <1>6 DEF ProcsInv, Processes, AppContexts
  <2>3. CASE obj' = obj
    BY <2>1, <2>3, <1>2
  <2>4. CASE WDeleted(p, w) /\ obj' = Unfinalized(w.ctx.app)
    BY <1>6, <2>1, <2>2, <2>4, <1>4 DEF LetGo
  <2> QED BY <1>6, <2>3, <2>4, WatchObjects
<1>7. ASSUME Others PROVE AppsInv' /\ \A b \in Apps : ObjectStep(b)
  BY <1>7, <1>2, OtherObjects DEF AppsInv
<1> QED BY <1>1, <1>5, <1>6, <1>7, StepCases
-----------------------------------------------------------------------------
(* Stacks.                                                                 *)

Updated(i) ==
  \E a \in Apps : /\ obj[a].state = "live" /\ stack'[i].tmpl = obj[a].tmpl
                  /\ stack[i].name = RealName(a, obj[a].scope)
                  /\ stack[i].place = RealContext(a, obj[a].scope).client

StackKept(i) ==
  /\ stack'[i] \in Stacks
  /\ stack'[i].name = stack[i].name /\ stack'[i].place = stack[i].place
  /\ stack[i].state = "absent" <=> stack'[i].state = "absent"
  /\ stack[i].state = "deleted" => stack'[i].state = "deleted"
  /\ stack'[i].tmpl = stack[i].tmpl \/ Updated(i)

Created(p, a, i) ==
  /\ Creates(p, a) /\ proc[p].mode = "real" /\ ~NameTaken(p, a)
  /\ stack[i].state = "absent"
  /\ stack'[i] = [place |-> Context(p, a).client, name |-> Record(p, a),
                  tmpl |-> obj[a].tmpl, state |-> "busy"]
  /\ \A j \in Ids \ {i} : stack'[j] = stack[j]
  /\ stack' \in [Ids -> Stacks]
  /\ SetProgressing(p, a, i, obj[a].tmpl, TRUE)

StackStep ==
  /\ stack' \in [Ids -> Stacks]
  /\ \/ \A i \in Ids : StackKept(i)
     \/ \E p \in Procs, a \in Apps, i \in Ids : Created(p, a, i)

LEMMA NoStackChange ==
  ASSUME StacksInv, stack' = stack PROVE StackStep
BY DEF StacksInv, StackStep, StackKept

(* A stack that changes its state, and maybe its template. *)
LEMMA StackChange ==
  ASSUME AppsInv, StacksInv, NEW i \in Ids, NEW state \in States \ {"absent"}, NEW tmpl,
         stack[i].state \notin {"absent", "deleted"},
         stack' = [stack EXCEPT ![i] = [@ EXCEPT !.tmpl = tmpl, !.state = state]],
         tmpl = stack[i].tmpl \/
           \E a \in Apps : /\ obj[a].state = "live" /\ tmpl = obj[a].tmpl
                           /\ stack[i].name = RealName(a, obj[a].scope)
                           /\ stack[i].place = RealContext(a, obj[a].scope).client
  PROVE  StackStep
<1> DEFINE r == [stack[i] EXCEPT !.tmpl = tmpl, !.state = state]
<1>1. stack[i] \in Stacks /\ tmpl \in {None} \cup UNION {Templates[a] : a \in Apps}
  BY DEF StacksInv, AppsInv, Stacks
<1>2. /\ r \in Stacks /\ r.place = stack[i].place /\ r.name = stack[i].name
      /\ r.tmpl = tmpl /\ r.state = state
  BY <1>1 DEF Stacks
<1>3. stack' = [stack EXCEPT ![i] = r]
  OBVIOUS
<1> HIDE DEF r
<1>4. stack' \in [Ids -> Stacks] /\ stack'[i] = r /\ \A j \in Ids \ {i} : stack'[j] = stack[j]
  BY <1>2, <1>3 DEF StacksInv
<1>5. \A j \in Ids \ {i} : StackKept(j)
  BY <1>4 DEF StacksInv, StackKept
<1>6. StackKept(i)
  BY <1>2, <1>4 DEF StackKept, Updated
<1> QED BY <1>4, <1>5, <1>6 DEF StackStep

LEMMA SameRecord ==
  ASSUME StacksInv, NEW i \in Ids, NEW state \in States
  PROVE  [stack EXCEPT ![i].state = state]
           = [stack EXCEPT ![i] = [@ EXCEPT !.tmpl = stack[i].tmpl, !.state = state]]
<1>1. stack[i] \in Stacks
  BY DEF StacksInv
<1>2. [stack[i] EXCEPT !.state = state]
        = [stack[i] EXCEPT !.tmpl = stack[i].tmpl, !.state = state]
  BY <1>1 DEF Stacks
<1> QED BY <1>2

(* What the record of an application holds. *)
LEMMA IdFacts ==
  ASSUME SecretsInv, NEW n \in Names
  PROVE  /\ Get(n, "StackId") \in Ids \cup {Fake, None} /\ IsOf(Get(n, "StackId"), n)
         /\ Get(n, "StackId") = None <=> "StackId" \notin DOMAIN secrets[n]
BY IdAssumption DEF SecretsInv, Get, IsOf

LEMMA RecordFacts ==
  ASSUME AppsInv, ProcsInv, SecretsInv,
         NEW p \in Procs, NEW a \in Apps, obj[a].state # "none"
  PROVE  /\ Context(p, a) \in Contexts \cap AppContexts /\ Context(p, a).app = a
         /\ Record(p, a) \in Names
         /\ StackId(p, a) \in Ids \cup {Fake, None} /\ IsOf(StackId(p, a), Record(p, a))
         /\ proc[p].mode = "real" =>
              /\ Context(p, a) = RealContext(a, obj[a].scope)
              /\ Record(p, a) = RealName(a, obj[a].scope)
<1>1. obj[a].scope \in Scopes[a] /\ proc[p].mode \in Modes
  BY DEF AppsInv, ProcsInv, Processes
<1>2. /\ Context(p, a) \in Contexts \cap AppContexts /\ Context(p, a).app = a
      /\ Record(p, a) \in Names
  BY <1>1, ContextFacts DEF Context, Record
<1>3. StackId(p, a) \in Ids \cup {Fake, None} /\ IsOf(StackId(p, a), Record(p, a))
  BY <1>2, IdFacts DEF StackId
<1> QED BY <1>2, <1>3 DEF Context, Record, RealContext, RealName

LEMMA WorkedApps ==
  ASSUME AppsInv, NEW p \in Procs, NEW a \in Apps, Works(p, a)
  PROVE  obj[a].state # "none"
<1>1. Takes(p, a) => obj[a].state # "none"
  BY DEF Takes, AppsInv
<1> QED BY <1>1 DEF Works, CreateOrUpdate, DeleteApp, CuNothing, CuCreate, CuCreateRefused,
      CuCreateDry, CuUpdate, CuSame, CuBusy, CuPanic, CuDryError, Creates, Updates, Deploys,
      DelWait, DelNothing, DelGone, DelStack, DelPanic, DelDryError, Deletes

LEMMA CreateIsCreated ==
  ASSUME AppsInv, ProcsInv, StacksInv, SecretsInv,
         NEW p \in Procs, NEW a \in Apps, CuCreate(p, a)
  PROVE  \E i \in Ids : Created(p, a, i)
<1> DEFINE r == [place |-> Context(p, a).client, name |-> Record(p, a),
                 tmpl |-> obj[a].tmpl, state |-> "busy"]
<1>1. PICK i \in Ids : /\ stack[i].state = "absent"
                       /\ stack' = [stack EXCEPT ![i] = r]
                       /\ SetProgressing(p, a, i, obj[a].tmpl, TRUE)
  BY DEF CuCreate
<1>2. Creates(p, a) /\ proc[p].mode = "real" /\ ~NameTaken(p, a)
  BY DEF CuCreate
<1>3. obj[a].state # "none" /\ obj[a].tmpl \in Templates[a]
  BY WorkedApps DEF AppsInv, Works, CreateOrUpdate
<1>4. Context(p, a).client \in Clients /\ Record(p, a) \in Names
  BY <1>3, RecordFacts DEF Clients
<1>5. r \in Stacks
  BY <1>3, <1>4 DEF Stacks, States
<1>6. /\ stack' \in [Ids -> Stacks] /\ stack'[i] = r
      /\ \A j \in Ids \ {i} : stack'[j] = stack[j]
  BY <1>1, <1>5 DEF StacksInv
<1> QED BY <1>1, <1>2, <1>6 DEF Created

LEMMA StacksStep ==
  ASSUME AppsInv, ProcsInv, StacksInv, SecretsInv, [Next]_vars
  PROVE  StackStep
<1>1. ASSUME NEW a \in Apps, Create(a) \/ Edit(a) \/ Delete(a) PROVE StackStep
  BY <1>1, NoStackChange DEF Create, Edit, Delete
<1>2. ASSUME NEW p \in Procs, NEW a \in Apps, Works(p, a) PROVE StackStep
  <2>1. CASE CuCreate(p, a)
    <3>1. PICK i \in Ids : Created(p, a, i)
      BY <2>1, CreateIsCreated
    <3> QED BY <3>1 DEF StackStep, Created
  <2>2. ASSUME StackId(p, a) \in Ids, proc[p].mode = "real",
               Found(Context(p, a), StackId(p, a))
        PROVE  /\ stack[StackId(p, a)].name = RealName(a, obj[a].scope)
               /\ stack[StackId(p, a)].place = RealContext(a, obj[a].scope).client
    BY <1>2, <2>2, WorkedApps, RecordFacts DEF Found, IsOf
  <2>3. CASE CuUpdate(p, a)
    <3> DEFINE id == StackId(p, a)
    <3>1. /\ id \in Ids /\ Found(Context(p, a), id) /\ proc[p].mode = "real"
          /\ obj[a].state = "live" /\ stack[id].state \in {"ok", "failed"}
      BY <2>3 DEF CuUpdate, Updates, Found, Deploys
    <3>2. /\ stack[id].name = RealName(a, obj[a].scope)
          /\ stack[id].place = RealContext(a, obj[a].scope).client
      BY <2>2, <3>1
    <3>3. stack' = [stack EXCEPT ![id] = [@ EXCEPT !.tmpl = obj[a].tmpl, !.state = "busy"]]
      BY <2>3 DEF CuUpdate
    <3> HIDE DEF id
    <3> QED BY <3>1, <3>2, <3>3, StackChange DEF States
  <2>4. CASE DelStack(p, a)
    <3> DEFINE id == StackId(p, a)
    <3>1. id \in Ids /\ Live(id)
      BY <2>4 DEF DelStack, Found
    <3>2. stack' = [stack EXCEPT ![id].state = "deleting"]
      BY <2>4 DEF DelStack
    <3> HIDE DEF id
    <3>3. stack' = [stack EXCEPT ![id] = [@ EXCEPT !.tmpl = stack[id].tmpl, !.state = "deleting"]]
      BY <3>1, <3>2, SameRecord
    <3> QED BY <3>1, <3>3, StackChange DEF States, Live
  <2>5. CASE UNCHANGED stack
    BY <2>5, NoStackChange
  <2> QED BY <1>2, <2>1, <2>3, <2>4, <2>5
       DEF Works, CreateOrUpdate, DeleteApp, CuNothing, CuCreateRefused, CuCreateDry, CuSame,
           CuBusy, CuPanic, CuDryError, DelWait, DelNothing, DelGone, DelPanic, DelDryError, Panic
<1>3. ASSUME NEW p \in Procs, NEW w \in proc[p].watchers, Watches(p, w) PROVE StackStep
  BY <1>3, NoStackChange DEF Watches, WReady, WFailed, WDeleted, WPanic, Sees, Panic
<1>4. ASSUME Others PROVE StackStep
  <2>1. CASE \E i \in Ids : StackMoves(i) \/ Console(i)
    <3>1. PICK i \in Ids, state \in States \ {"absent"} :
            /\ stack[i].state \notin {"absent", "deleted"}
            /\ stack' = [stack EXCEPT ![i].state = state]
      BY <2>1 DEF StackMoves, Console, States
    <3>2. stack' = [stack EXCEPT ![i] = [@ EXCEPT !.tmpl = stack[i].tmpl, !.state = state]]
      BY <3>1, SameRecord
    <3> QED BY <3>1, <3>2, StackChange
  <2>2. CASE UNCHANGED stack
    BY <2>2, NoStackChange
  <2> QED BY <1>4, <2>1, <2>2 DEF Others, Boot, Lead, Stop, vars
<1> QED BY <1>1, <1>2, <1>3, <1>4, StepCases

(* What a new stack is. *)
LEMMA CreatedFacts ==
  ASSUME AppsInv, ProcsInv, SecretsInv,
         NEW p \in Procs, NEW a \in Apps, NEW i \in Ids, Created(p, a, i)
  PROVE  /\ obj[a].state = "live" /\ obj[a].scope \in Scopes[a]
         /\ stack[i].state = "absent" /\ stack'[i].state = "busy"
         /\ stack'[i].name = RealName(a, obj[a].scope)
         /\ stack'[i].place = RealContext(a, obj[a].scope).client
         /\ stack'[i].tmpl \in Templates[a]
         /\ \A j \in Ids \ {i} : stack'[j] = stack[j]
         /\ \A j \in Ids : Live(j) /\ stack[j].name = RealName(a, obj[a].scope) =>
              stack[j].place # RealContext(a, obj[a].scope).client
         /\ obj' = Finalized(a)
<1>1. obj[a].state = "live" /\ proc[p].mode = "real" /\ obj' = Finalized(a)
  BY DEF Created, Creates, Deploys
<1>2. obj[a].scope \in Scopes[a] /\ obj[a].tmpl \in Templates[a]
  BY <1>1 DEF AppsInv
<1>3. Context(p, a) = RealContext(a, obj[a].scope) /\ Record(p, a) = RealName(a, obj[a].scope)
  BY <1>1, RecordFacts
<1>4. \A j \in Ids : Live(j) /\ stack[j].name = RealName(a, obj[a].scope) =>
        stack[j].place # RealContext(a, obj[a].scope).client
  BY <1>3 DEF Created, NameTaken
<1> QED BY <1>1, <1>2, <1>3, <1>4 DEF Created

LEMMA StacksKept ==
  ASSUME AppsInv, ProcsInv, StacksInv, SecretsInv, [Next]_vars
  PROVE  StacksInv'
<1>1. AppsInv' /\ \A a \in Apps : obj[a].state # "none" => obj'[a].state # "none"
  BY AppsStep DEF ObjectStep
<1>2. stack' \in [Ids -> Stacks]
  BY StacksStep DEF StackStep
<1> DEFINE Owned(i) == \E a \in Apps : \E s \in Scopes[a] :
             /\ stack'[i].name = RealName(a, s) /\ stack'[i].place = RealContext(a, s).client
             /\ stack'[i].tmpl \in Templates[a] /\ obj'[a].state # "none"
<1>3. ASSUME NEW i \in Ids, StackKept(i), stack'[i].state # "absent" PROVE Owned(i)
  <2>1. PICK a \in Apps : \E s \in Scopes[a] : OwnedBy(i, a, s)
    BY <1>3 DEF StackKept, StacksInv
  <2>2. CASE stack'[i].tmpl = stack[i].tmpl
    BY <1>1, <1>3, <2>1, <2>2 DEF StackKept, OwnedBy
  <2>3. CASE Updated(i)
    <3>1. PICK b \in Apps : /\ obj[b].state = "live" /\ stack'[i].tmpl = obj[b].tmpl
                            /\ stack[i].name = RealName(b, obj[b].scope)
                            /\ stack[i].place = RealContext(b, obj[b].scope).client
      BY <2>3 DEF Updated
    <3>2. obj[b].scope \in Scopes[b] /\ obj[b].tmpl \in Templates[b]
      BY <3>1 DEF AppsInv
    <3> QED BY <1>1, <1>3, <3>1, <3>2 DEF StackKept
  <2> QED BY <1>3, <2>2, <2>3 DEF StackKept
<1>4. ASSUME NEW p \in Procs, NEW a \in Apps, NEW i \in Ids, Created(p, a, i),
             NEW j \in Ids, stack'[j].state # "absent"
      PROVE  Owned(j)
  <2>1. CASE j = i
    BY <1>1, <1>4, <2>1, CreatedFacts
  <2>2. CASE j # i
    <3>1. stack'[j] = stack[j]
      BY <1>4, <2>2, CreatedFacts
    <3>2. PICK b \in Apps : \E s \in Scopes[b] : OwnedBy(j, b, s)
      BY <1>4, <3>1 DEF StacksInv
    <3> QED BY <1>1, <3>1, <3>2 DEF OwnedBy
  <2> QED BY <2>1, <2>2
<1>5. \A i \in Ids : stack'[i].state # "absent" => Owned(i)
  BY <1>3, <1>4, StacksStep DEF StackStep
<1> QED BY <1>2, <1>5 DEF StacksInv, OwnedBy

LEMMA OneOfNameKept ==
  ASSUME AppsInv, ProcsInv, StacksInv, SecretsInv, OneOfName, [Next]_vars
  PROVE  OneOfName'
<1>1. CASE \A i \in Ids : StackKept(i)
  BY <1>1 DEF StackKept, OneOfName, Live
<1>2. ASSUME NEW p \in Procs, NEW a \in Apps, NEW i \in Ids, Created(p, a, i)
      PROVE  OneOfName'
  BY <1>2, CreatedFacts DEF OneOfName, Live
<1> QED BY <1>1, <1>2, StacksStep DEF StackStep

(* A stack is of one application, that of its name. *)
LEMMA OwnerIsOne ==
  ASSUME NamesApart, NEW a \in Apps, NEW s \in Scopes[a], NEW b \in Apps, NEW i \in Ids,
         stack[i].name = RealName(a, s)
  PROVE  Of(b, i) => a = b
BY DEF Of, NamesApart, RealName, RealContext

LEMMA StayedKept ==
  ASSUME NamesApart, AppsInv, ProcsInv, StacksInv, SecretsInv, StayedInv, [Next]_vars
  PROVE  StayedInv'
<1> DEFINE Stays(a, i) ==
             stack'[i].state # "absent" /\ ~obj'[a].moved =>
               \A s \in Scopes[a] : stack'[i].name = RealName(a, s) =>
                 stack'[i].name = RealName(a, obj'[a].scope)
<1>1. \A a \in Apps : ObjectStep(a)
  BY AppsStep
<1>2. ASSUME NEW a \in Apps, NEW i \in Ids, StackKept(i), stack[i].state # "absent"
      PROVE  Stays(a, i)
  <2> SUFFICES ASSUME stack'[i].state # "absent", ~obj'[a].moved,
                      NEW s \in Scopes[a], stack'[i].name = RealName(a, s)
               PROVE  stack'[i].name = RealName(a, obj'[a].scope)
    OBVIOUS
  <2>1. PICK b \in Apps : \E t \in Scopes[b] : stack[i].name = RealName(b, t) /\ obj[b].state # "none"
    BY <1>2 DEF StacksInv, OwnedBy
  <2>2. b = a
    <3>1. PICK t \in Scopes[b] : stack[i].name = RealName(b, t)
      BY <2>1
    <3>2. stack[i].name = RealName(a, s)
      BY <1>2 DEF StackKept
    <3> QED BY <3>1, <3>2 DEF NamesApart
  <2>3. ~obj[a].moved /\ obj'[a].scope = obj[a].scope
    BY <1>1, <2>1, <2>2 DEF ObjectStep
  <2>4. Of(a, i)
    BY <1>2 DEF StackKept, Of, RealName, RealContext
  <2> QED BY <1>2, <2>3, <2>4 DEF StayedInv, StackKept, Here, RealName, RealContext
<1>3. ASSUME NEW p \in Procs, NEW a \in Apps, NEW i \in Ids, Created(p, a, i), NEW b \in Apps
      PROVE  Stays(b, i)
  <2>1. /\ obj[a].scope \in Scopes[a] /\ stack'[i].name = RealName(a, obj[a].scope)
        /\ obj' = Finalized(a)
    BY <1>3, CreatedFacts
  <2>2. obj'[a].scope = obj[a].scope
    BY <2>1, FinalizedFields
  <2>3. \A s \in Scopes[b] : stack'[i].name = RealName(b, s) => b = a
    BY <2>1 DEF NamesApart
  <2> HIDE DEF Stays
  <2>4. CASE b = a
    BY <2>1, <2>2, <2>4 DEF Stays
  <2>5. CASE b # a
    BY <2>3, <2>5 DEF Stays
  <2> QED BY <2>4, <2>5
<1>4. ASSUME NEW p \in Procs, NEW a \in Apps, NEW i \in Ids, Created(p, a, i),
             NEW b \in Apps, NEW j \in Ids \ {i}, stack'[j].state # "absent"
      PROVE  Stays(b, j)
  <2>1. stack'[j] = stack[j]
    BY <1>4, CreatedFacts
  <2>2. StackKept(j) /\ stack[j].state # "absent"
    BY <1>4, <2>1 DEF StackKept, StacksInv
  <2> QED BY <1>2, <2>2
<1>5. \A a \in Apps, i \in Ids : Stays(a, i)
  <2>1. CASE \A i \in Ids : StackKept(i)
    BY <1>2, <2>1 DEF StackKept
  <2>2. ASSUME NEW p \in Procs, NEW a \in Apps, NEW i \in Ids, Created(p, a, i)
        PROVE  \A b \in Apps, j \in Ids : Stays(b, j)
    BY <1>3, <1>4, <2>2
  <2> QED BY <2>1, <2>2, StacksStep DEF StackStep
<1> QED BY <1>5 DEF StayedInv, Of, Here, RealName, RealContext
-----------------------------------------------------------------------------
(* Records and the list of those in Progressing.                           *)

(* SetProgressing: the id is that of a new stack, or of a dry run's, or    *)
(* the one recorded.                                                       *)
Progresses(p, a, id) ==
  /\ \E tmpl \in {obj[a].tmpl, Get(Record(p, a), "TemplateBody")}, handler \in BOOLEAN :
       SetProgressing(p, a, id, tmpl, handler)
  /\ \/ id \in Ids /\ Created(p, a, id)
     \/ id = Fake /\ StackId(p, a) = None
     \/ id = StackId(p, a) /\ id \in Ids

LEMMA WorkCases ==
  ASSUME AppsInv, ProcsInv, StacksInv, SecretsInv,
         NEW p \in Procs, NEW a \in Apps, Works(p, a)
  PROVE  \/ \E id \in Ids \cup {Fake} : Progresses(p, a, id) /\ past' = past
         \/ /\ proc' \in {proc, [proc EXCEPT ![p] = Down], Idle(p), [proc EXCEPT ![p].worker = a]}
            /\ past \subseteq past'
            /\ \/ SetError(Record(p, a))
               \/ UNCHANGED <<secrets, infos>>
               \/ DelGone(p, a)
<1>1. CASE CuCreate(p, a)
  <2>1. PICK i \in Ids : Created(p, a, i)
    BY <1>1, CreateIsCreated
  <2>2. Progresses(p, a, i)
    BY <2>1 DEF Progresses, Created
  <2>3. past' = past
    BY <1>1 DEF CuCreate, Creates
  <2> QED BY <2>2, <2>3
<1>2. CASE CuCreateDry(p, a)
  <2>1. StackId(p, a) = None
    BY <1>2 DEF CuCreateDry, Creates
  <2>2. Progresses(p, a, Fake)
    BY <1>2, <2>1 DEF CuCreateDry, Progresses
  <2> QED BY <1>2, <2>2 DEF CuCreateDry, Creates
<1>3. CASE CuUpdate(p, a)
  <2>1. StackId(p, a) \in Ids
    BY <1>3 DEF CuUpdate, Updates, Found
  <2>2. Progresses(p, a, StackId(p, a))
    BY <1>3, <2>1 DEF CuUpdate, Progresses
  <2> QED BY <1>3, <2>1, <2>2 DEF CuUpdate, Updates
<1>4. CASE DelStack(p, a)
  <2>1. StackId(p, a) \in Ids
    BY <1>4 DEF DelStack, Found
  <2>2. Progresses(p, a, StackId(p, a))
    BY <1>4, <2>1 DEF DelStack, Progresses
  <2> QED BY <1>4, <2>1, <2>2 DEF DelStack, Deletes
<1>5. CASE CuNothing(p, a)
  BY <1>5 DEF CuNothing
<1>6. CASE CuCreateRefused(p, a)
  BY <1>6 DEF CuCreateRefused, Creates
<1>7. CASE CuSame(p, a) \/ CuBusy(p, a)
  BY <1>7 DEF CuSame, CuBusy, Updates
<1>8. CASE CuPanic(p, a) \/ CuDryError(p, a)
  BY <1>8 DEF CuPanic, CuDryError, Panic
<1>9. CASE DelWait(p, a)
  BY <1>9 DEF DelWait
<1>10. CASE DelNothing(p, a) \/ DelGone(p, a)
  BY <1>10 DEF DelNothing, DelGone
<1>11. CASE DelPanic(p, a) \/ DelDryError(p, a)
  BY <1>11 DEF DelPanic, DelDryError, Panic
<1> QED BY <1>1, <1>2, <1>3, <1>4, <1>5, <1>6, <1>7, <1>8, <1>9, <1>10, <1>11
     DEF Works, CreateOrUpdate, DeleteApp

(* What a step does to the record of a name. *)
IdKept(n) ==
  /\ "StackId" \in DOMAIN secrets[n] <=> "StackId" \in DOMAIN secrets'[n]
  /\ "StackId" \in DOMAIN secrets[n] => secrets'[n]["StackId"] = secrets[n]["StackId"]

IdLost(n) ==
  /\ "StackId" \notin DOMAIN secrets'[n]
  /\ \/ Clash(n)
     \/ \E p \in Procs, a \in Apps : Works(p, a) /\ DelGone(p, a) /\ n = Record(p, a)
     \/ \E p \in Procs : \E w \in proc[p].watchers : WDeleted(p, w) /\ n = SecretName(w.ctx)

IdSet(n) ==
  \E p \in Procs, a \in Apps :
    /\ Works(p, a) /\ n = Record(p, a) /\ "StackId" \in DOMAIN secrets'[n]
    /\ \/ \E i \in Ids : Created(p, a, i) /\ secrets'[n]["StackId"] = i
       \/ StackId(p, a) = None /\ secrets'[n]["StackId"] = Fake

OutputsKept(n) ==
  "Outputs" \in DOMAIN secrets'[n] =>
    \/ "Outputs" \in DOMAIN secrets[n] /\ secrets'[n]["Outputs"] = secrets[n]["Outputs"]
    \/ \A m \in secrets'[n]["Outputs"] : Clash(m) /\ OutputOf(n, m)

SecretStep ==
  /\ DOMAIN secrets' = Names
  /\ \A n \in Names : (IdKept(n) \/ IdLost(n) \/ IdSet(n)) /\ OutputsKept(n)

LEMMA NoSecretChange ==
  ASSUME SecretsInv, secrets' = secrets PROVE SecretStep
BY DEF SecretsInv, SecretStep, IdKept, OutputsKept

LEMMA SetErrorStep ==
  ASSUME SecretsInv, NEW n \in Names, SetError(n) PROVE SecretStep
<1>1. secrets' = [secrets EXCEPT ![n] = With(secrets[n], "AppStackStatus", "Failed")]
  BY DEF SetError
<1>2. /\ DOMAIN secrets' = Names
      /\ secrets'[n] = With(secrets[n], "AppStackStatus", "Failed")
      /\ \A m \in Names \ {n} : secrets'[m] = secrets[m]
  BY <1>1 DEF SecretsInv
<1>3. \A m \in Names \ {n} : IdKept(m) /\ OutputsKept(m)
  BY <1>2 DEF IdKept, OutputsKept
<1>4. IdKept(n) /\ OutputsKept(n)
  BY <1>2 DEF With, IdKept, OutputsKept
<1> QED BY <1>2, <1>3, <1>4 DEF SecretStep

LEMMA ProgressStep ==
  ASSUME AppsInv, ProcsInv, SecretsInv,
         NEW p \in Procs, NEW a \in Apps, Works(p, a), NEW id, Progresses(p, a, id)
  PROVE  /\ SecretStep
         /\ "StackId" \in DOMAIN secrets'[Record(p, a)]
         /\ secrets'[Record(p, a)]["StackId"] = id
<1> DEFINE n == Record(p, a)
<1>1. n \in Names /\ IsOf(StackId(p, a), n)
  BY WorkedApps, RecordFacts
<1>2. PICK tmpl \in {obj[a].tmpl, Get(n, "TemplateBody")} :
        secrets' = [secrets EXCEPT ![n] =
          With(With(With(secrets[n], "StackId", id), "TemplateBody", tmpl),
               "AppStackStatus", "Progressing")]
  BY DEF Progresses, SetProgressing
<1> DEFINE f == With(With(With(secrets[n], "StackId", id), "TemplateBody", tmpl),
                     "AppStackStatus", "Progressing")
<1>3. /\ "StackId" \in DOMAIN f /\ f["StackId"] = id
      /\ "Outputs" \in DOMAIN f <=> "Outputs" \in DOMAIN secrets[n]
      /\ "Outputs" \in DOMAIN secrets[n] => f["Outputs"] = secrets[n]["Outputs"]
  <2> DEFINE g == With(secrets[n], "StackId", id)
             h == With(g, "TemplateBody", tmpl)
  <2>1. /\ DOMAIN g = DOMAIN secrets[n] \cup {"StackId"} /\ g["StackId"] = id
        /\ \A x \in DOMAIN secrets[n] \ {"StackId"} : g[x] = secrets[n][x]
    BY DEF With
  <2> HIDE DEF g
  <2>2. /\ DOMAIN h = DOMAIN g \cup {"TemplateBody"}
        /\ \A x \in DOMAIN g \ {"TemplateBody"} : h[x] = g[x]
    BY DEF With
  <2> HIDE DEF h
  <2>3. /\ DOMAIN With(h, "AppStackStatus", "Progressing") = DOMAIN h \cup {"AppStackStatus"}
        /\ \A x \in DOMAIN h \ {"AppStackStatus"} :
             With(h, "AppStackStatus", "Progressing")[x] = h[x]
    BY DEF With
  <2>4. f = With(h, "AppStackStatus", "Progressing")
    BY DEF g, h
  <2> HIDE DEF f
  <2> QED BY <2>1, <2>2, <2>3, <2>4
<1>4. /\ DOMAIN secrets' = Names /\ secrets'[n] = f
      /\ \A m \in Names \ {n} : secrets'[m] = secrets[m]
  BY <1>1, <1>2 DEF SecretsInv
<1> HIDE DEF f
<1>5. \A m \in Names \ {n} : IdKept(m) /\ OutputsKept(m)
  BY <1>4 DEF IdKept, OutputsKept
<1>6. OutputsKept(n)
  BY <1>3, <1>4 DEF OutputsKept
<1>7. IdKept(n) \/ IdSet(n)
  <2>1. CASE id \in Ids /\ Created(p, a, id)
    BY <1>3, <1>4, <2>1 DEF IdSet
  <2>2. CASE id = Fake /\ StackId(p, a) = None
    BY <1>3, <1>4, <2>2 DEF IdSet
  <2>3. CASE id = StackId(p, a) /\ id \in Ids
    <3>1. "StackId" \in DOMAIN secrets[n] /\ secrets[n]["StackId"] = id
      BY <2>3, IdAssumption DEF StackId, Get
    <3> QED BY <1>3, <1>4, <3>1 DEF IdKept
  <2> QED BY <2>1, <2>2, <2>3 DEF Progresses
<1> QED BY <1>3, <1>4, <1>5, <1>6, <1>7 DEF SecretStep

(* Only names of outputs are deleted with a record. *)
LEMMA DroppedStep ==
  ASSUME SecretsInv, NEW n \in Names, IdLost(n),
         secrets' = Dropped(n, OutputNames(n))
  PROVE  SecretStep
<1>1. \A m \in OutputNames(n) : Clash(m)
  BY DEF SecretsInv, OutputNames, Get
<1>2. /\ DOMAIN secrets' = Names
      /\ \A m \in Names : secrets'[m] = IF m \in OutputNames(n) \cup {n} THEN Nothing ELSE secrets[m]
  BY DEF Dropped
<1>3. DOMAIN Nothing = {}
  BY DEF Nothing
<1>4. ASSUME NEW m \in Names PROVE (IdKept(m) \/ IdLost(m)) /\ OutputsKept(m)
  <2>1. CASE m \in OutputNames(n) \/ m = n
    <3>1. DOMAIN secrets'[m] = {}
      BY <1>2, <1>3, <2>1
    <3> QED BY <1>1, <2>1, <3>1 DEF IdLost, OutputsKept
  <2>2. CASE ~(m \in OutputNames(n) \/ m = n)
    BY <1>2, <2>2 DEF IdKept, OutputsKept
  <2> QED BY <2>1, <2>2
<1> QED BY <1>2, <1>4 DEF SecretStep

(* A Secret of an output has a name of one, that of its own record. *)
LEMMA OutputsClash ==
  ASSUME StacksInv, WatchersInv, NEW p \in Procs, NEW w \in proc[p].watchers,
         w.id \in Ids, NEW i \in stack[w.id].tmpl.outs
  PROVE  /\ Clash(OutputSecretName(w.ctx, i))
         /\ OutputOf(SecretName(w.ctx), OutputSecretName(w.ctx, i))
<1>1. stack[w.id].state # "absent" /\ stack[w.id].name = SecretName(w.ctx)
  BY DEF WatchersInv, IsOf
<1>2. PICK a \in Apps : \E s \in Scopes[a] : OwnedBy(w.id, a, s)
  BY <1>1 DEF StacksInv
<1>3. PICK s \in Scopes[a] : OwnedBy(w.id, a, s)
  BY <1>2
<1>4. RealContext(a, s) \in Contexts /\ RealContext(a, s).app = a
  BY ContextFacts DEF RealContext, Modes
<1>5. i \in Outs(a)
  BY <1>3 DEF OwnedBy, Outs
<1>6. OutputSecretName(w.ctx, i) = OutputSecretName(RealContext(a, s), i)
  BY <1>1, <1>3 DEF OwnedBy, RealName, OutputSecretName
<1>7. Clash(OutputSecretName(w.ctx, i))
  BY <1>4, <1>5, <1>6 DEF Clash, OutputSecretNames
<1> QED BY <1>5, <1>7 DEF OutputOf, OutputSecretName

LEMMA ReadyStep ==
  ASSUME StacksInv, SecretsInv, WatchersInv,
         NEW p \in Procs, NEW w \in proc[p].watchers, WReady(p, w)
  PROVE  SecretStep
<1> DEFINE n == SecretName(w.ctx)
           tmpl == stack[w.id].tmpl
           outs == {OutputSecretName(w.ctx, i) : i \in tmpl.outs}
<1>1. w.id \in Ids
  BY DEF WReady, Sees
<1>2. n \in Names
  BY DEF WatchersInv
<1>3. \A m \in outs : Clash(m) /\ OutputOf(n, m)
  BY <1>1, OutputsClash
<1>4. PICK failed \in SUBSET outs, unnamed \in BOOLEAN :
        LET saved == [m \in Names |-> IF m \in outs \ failed
                                      THEN OutputData(tmpl.version, secrets[m])
                                      ELSE secrets[m]]
            ready == With(saved[n], "AppStackStatus", "Ready")
        IN secrets' = [saved EXCEPT ![n] = IF unnamed THEN ready
                                           ELSE With(ready, "Outputs", outs \ failed)]
  BY DEF WReady
<1> DEFINE saved(m) == IF m \in outs \ failed THEN OutputData(tmpl.version, secrets[m])
                       ELSE secrets[m]
           ready == With(saved(n), "AppStackStatus", "Ready")
           last == IF unnamed THEN ready ELSE With(ready, "Outputs", outs \ failed)
<1>5. secrets' = [[m \in Names |-> saved(m)] EXCEPT ![n] = last]
  BY <1>2, <1>4
<1> HIDE DEF saved, last
<1>6. /\ DOMAIN secrets' = Names /\ secrets'[n] = last
      /\ \A m \in Names \ {n} : secrets'[m] = saved(m)
  BY <1>2, <1>5
<1>7. \A m \in outs \ failed : DOMAIN saved(m) = {"Attr", "List"}
  BY DEF saved, OutputData
<1>8. \A m : m \notin outs \ failed => saved(m) = secrets[m]
  BY DEF saved
<1> HIDE DEF outs
<1>9. ASSUME NEW m \in Names \ {n} PROVE (IdKept(m) \/ IdLost(m)) /\ OutputsKept(m)
  <2>1. CASE m \in outs \ failed
    BY <1>3, <1>6, <1>7, <2>1 DEF IdLost, OutputsKept
  <2>2. CASE m \notin outs \ failed
    BY <1>6, <1>8, <2>2 DEF IdKept, OutputsKept
  <2> QED BY <2>1, <2>2
<1>10. /\ "StackId" \in DOMAIN last <=> "StackId" \in DOMAIN saved(n)
       /\ "StackId" \in DOMAIN saved(n) => last["StackId"] = saved(n)["StackId"]
       /\ "Outputs" \in DOMAIN last =>
            \/ "Outputs" \in DOMAIN saved(n) /\ last["Outputs"] = saved(n)["Outputs"]
            \/ last["Outputs"] = outs \ failed
  BY DEF last, ready, With
<1>11. (IdKept(n) \/ IdLost(n)) /\ OutputsKept(n)
  <2>1. CASE n \in outs \ failed
    BY <1>2, <1>3, <1>6, <1>7, <1>10, <2>1 DEF IdLost, OutputsKept
  <2>2. CASE n \notin outs \ failed
    <3>1. saved(n) = secrets[n]
      BY <1>8, <2>2
    <3>2. IdKept(n)
      BY <1>6, <1>10, <3>1 DEF IdKept
    <3>3. OutputsKept(n)
      BY <1>3, <1>6, <1>10, <3>1 DEF OutputsKept
    <3> QED BY <3>2, <3>3
  <2> QED BY <2>1, <2>2
<1> QED BY <1>6, <1>9, <1>11 DEF SecretStep

LEMMA DeletedStep ==
  ASSUME SecretsInv, WatchersInv,
         NEW p \in Procs, NEW w \in proc[p].watchers, WDeleted(p, w)
  PROVE  SecretStep
<1> DEFINE n == SecretName(w.ctx)
<1>1. n \in Names
  BY DEF WatchersInv
<1>2. CASE secrets' = Dropped(n, OutputNames(n))
  <2>1. "StackId" \notin DOMAIN secrets'[n]
    BY <1>1, <1>2 DEF Dropped, Nothing
  <2> QED BY <1>1, <1>2, <2>1, DroppedStep DEF IdLost
<1>3. ASSUME NEW some \in SUBSET OutputNames(n),
             secrets' = [m \in Names |-> IF m \in some THEN Nothing ELSE secrets[m]]
      PROVE  SecretStep
  <2>1. \A m \in some : Clash(m)
    BY <1>1 DEF SecretsInv, OutputNames, Get
  <2>2. /\ DOMAIN secrets' = Names
        /\ \A m \in Names : secrets'[m] = IF m \in some THEN Nothing ELSE secrets[m]
    BY <1>3
  <2>3. DOMAIN Nothing = {}
    BY DEF Nothing
  <2>4. ASSUME NEW m \in Names PROVE (IdKept(m) \/ IdLost(m)) /\ OutputsKept(m)
    <3>1. CASE m \in some
      BY <2>1, <2>2, <2>3, <3>1 DEF IdLost, OutputsKept
    <3>2. CASE m \notin some
      BY <2>2, <3>2 DEF IdKept, OutputsKept
    <3> QED BY <3>1, <3>2
  <2> QED BY <2>2, <2>4 DEF SecretStep
<1> QED BY <1>2, <1>3 DEF WDeleted

LEMMA SecretsStep ==
  ASSUME AppsInv, ProcsInv, StacksInv, SecretsInv, WatchersInv, [Next]_vars
  PROVE  SecretStep
<1>1. ASSUME NEW a \in Apps, Create(a) \/ Edit(a) \/ Delete(a) PROVE SecretStep
  BY <1>1, NoSecretChange DEF Create, Edit, Delete
<1>2. ASSUME NEW p \in Procs, NEW a \in Apps, Works(p, a) PROVE SecretStep
  <2>1. Record(p, a) \in Names
    BY <1>2, WorkedApps, RecordFacts
  <2>2. ASSUME NEW id \in Ids \cup {Fake}, Progresses(p, a, id) PROVE SecretStep
    BY <1>2, <2>2, ProgressStep
  <2>3. CASE SetError(Record(p, a))
    BY <2>1, <2>3, SetErrorStep
  <2>4. CASE DelGone(p, a)
    <3>1. secrets' = Dropped(Record(p, a), OutputNames(Record(p, a)))
      BY <2>4 DEF DelGone
    <3>2. "StackId" \notin DOMAIN secrets'[Record(p, a)]
      BY <2>1, <3>1 DEF Dropped, Nothing
    <3>3. IdLost(Record(p, a))
      BY <1>2, <2>4, <3>2 DEF IdLost
    <3> QED BY <2>1, <3>1, <3>3, DroppedStep
  <2>5. CASE UNCHANGED <<secrets, infos>>
    BY <2>5, NoSecretChange
  <2> QED BY <1>2, <2>2, <2>3, <2>4, <2>5, WorkCases
<1>3. ASSUME NEW p \in Procs, NEW w \in proc[p].watchers, Watches(p, w) PROVE SecretStep
  <2>1. CASE WReady(p, w)
    BY <2>1, ReadyStep
  <2>2. CASE WFailed(p, w)
    <3>1. SecretName(w.ctx) \in Names
      BY <1>3 DEF WatchersInv
    <3> QED BY <2>2, <3>1, SetErrorStep DEF WFailed
  <2>3. CASE WDeleted(p, w)
    BY <2>3, DeletedStep
  <2>4. CASE WPanic(p, w)
    BY <2>4, NoSecretChange DEF WPanic, Panic
  <2> QED BY <1>3, <2>1, <2>2, <2>3, <2>4 DEF Watches
<1>4. ASSUME Others PROVE SecretStep
  BY <1>4, NoSecretChange DEF Others, Boot, Lead, Stop, StackMoves, Console, vars
<1> QED BY <1>1, <1>2, <1>3, <1>4, StepCases

(* A stack keeps its name. *)
IsOfNow(id, n) == id \in Ids => stack'[id].state # "absent" /\ stack'[id].name = n

LEMMA NameKept ==
  ASSUME StackStep, NEW id, NEW n, IsOf(id, n) PROVE IsOfNow(id, n)
<1>1. CASE \A i \in Ids : StackKept(i)
  BY <1>1 DEF IsOf, IsOfNow, StackKept
<1>2. ASSUME NEW p \in Procs, NEW a \in Apps, NEW i \in Ids, Created(p, a, i)
      PROVE  IsOfNow(id, n)
  BY <1>2 DEF IsOf, IsOfNow, Created
<1> QED BY <1>1, <1>2 DEF StackStep

LEMMA SecretsKept ==
  ASSUME AppsInv, ProcsInv, StacksInv, SecretsInv, WatchersInv, [Next]_vars
  PROVE  SecretsInv'
<1>1. StackStep /\ SecretStep
  BY StacksStep, SecretsStep
<1>2. ASSUME NEW n \in Names, "StackId" \in DOMAIN secrets'[n]
      PROVE  secrets'[n]["StackId"] \in Ids \cup {Fake} /\ IsOfNow(secrets'[n]["StackId"], n)
  <2>1. CASE IdKept(n)
    <3>1. /\ secrets'[n]["StackId"] = secrets[n]["StackId"]
          /\ secrets[n]["StackId"] \in Ids \cup {Fake} /\ IsOf(secrets[n]["StackId"], n)
      BY <1>2, <2>1 DEF IdKept, SecretsInv
    <3> QED BY <1>1, <3>1, NameKept
  <2>2. ASSUME NEW p \in Procs, NEW a \in Apps, NEW i \in Ids, Created(p, a, i),
               Works(p, a), n = Record(p, a), secrets'[n]["StackId"] = i
        PROVE  secrets'[n]["StackId"] \in Ids \cup {Fake} /\ IsOfNow(secrets'[n]["StackId"], n)
    BY <2>2 DEF Created, IsOfNow
  <2>3. CASE secrets'[n]["StackId"] = Fake
    BY <2>3, IdAssumption DEF IsOfNow
  <2> QED BY <1>1, <1>2, <2>1, <2>2, <2>3 DEF SecretStep, IdLost, IdSet
<1>3. ASSUME NEW n \in Names, "Outputs" \in DOMAIN secrets'[n]
      PROVE  \A m \in secrets'[n]["Outputs"] : Clash(m)
  BY <1>1, <1>3 DEF SecretStep, OutputsKept, SecretsInv
<1> QED BY <1>1, <1>2, <1>3 DEF SecretsInv, SecretStep, IsOf, IsOfNow

(* What finds a live stack: a context with its name. *)
LEMMA NameFinds ==
  ASSUME NamesApart, StacksInv, NEW i \in Ids, Live(i),
         NEW a \in Apps, NEW s \in Scopes[a], stack[i].name = RealName(a, s)
  PROVE  stack[i].place = RealContext(a, s).client
<1>1. PICK b \in Apps : \E t \in Scopes[b] : OwnedBy(i, b, t)
  BY DEF StacksInv, Live
<1>2. PICK t \in Scopes[b] : OwnedBy(i, b, t)
  BY <1>1
<1> QED BY <1>2 DEF OwnedBy, NamesApart

(* The record of a stack that exists keeps its id. *)
LEMMA IdStays ==
  ASSUME NamesApart, AppsInv, ProcsInv, StacksInv, SecretsInv, WatchersInv, [Next]_vars,
         NEW n \in Names, NEW i \in Ids, Live(i), stack[i].name = n,
         Get(n, "StackId") = i, ~Excused(n)
  PROVE  IdKept(n)
<1>1. "StackId" \in DOMAIN secrets[n] /\ secrets[n]["StackId"] = i
  BY IdAssumption DEF Get
<1>2. ASSUME NEW p \in Procs, NEW a \in Apps, Works(p, a), DelGone(p, a), n = Record(p, a)
      PROVE  FALSE
  <2>1. proc[p].mode = "real" /\ ~Found(Context(p, a), i)
    BY <1>2 DEF DelGone, StackId
  <2>2. obj[a].scope \in Scopes[a]
    BY <1>2, WorkedApps DEF AppsInv
  <2>3. Context(p, a) = RealContext(a, obj[a].scope) /\ n = RealName(a, obj[a].scope)
    BY <1>2, <2>1, WorkedApps, RecordFacts
  <2>4. stack[i].place = Context(p, a).client
    BY <2>2, <2>3, NameFinds
  <2> QED BY <2>1, <2>4 DEF Found
<1>3. ASSUME NEW p \in Procs, NEW w \in proc[p].watchers, WDeleted(p, w),
             n = SecretName(w.ctx)
      PROVE  FALSE
  <2>1. w.id \in Ids /\ stack[w.id].state = "deleted"
    BY <1>3 DEF WDeleted, Sees
  <2>2. stack[w.id].name = n
    BY <1>3, <2>1 DEF WatchersInv, IsOf
  <2> QED BY <2>1, <2>2 DEF Excused, Deleted
<1>4. ASSUME NEW p \in Procs, NEW a \in Apps, NEW j \in Ids, Created(p, a, j),
             Works(p, a), n = Record(p, a)
      PROVE  FALSE
  <2>1. /\ obj[a].scope \in Scopes[a] /\ proc[p].mode = "real"
        /\ stack[i].name = RealName(a, obj[a].scope) =>
             stack[i].place # RealContext(a, obj[a].scope).client
    BY <1>4, CreatedFacts DEF Created
  <2>2. n = RealName(a, obj[a].scope)
    BY <1>4, <2>1, WorkedApps, RecordFacts
  <2> QED BY <2>1, <2>2, NameFinds
<1>5. ~IdLost(n)
  BY <1>2, <1>3 DEF IdLost, Excused
<1>6. ~IdSet(n)
  <2>1. ASSUME NEW p \in Procs, NEW a \in Apps, n = Record(p, a), StackId(p, a) = None
        PROVE  FALSE
    BY <2>1, IdAssumption DEF StackId
  <2> QED BY <1>4, <2>1 DEF IdSet
<1> QED BY <1>5, <1>6, SecretsStep DEF SecretStep

LEMMA RecordedKept ==
  ASSUME NamesApart, AppsInv, ProcsInv, StacksInv, SecretsInv, WatchersInv, RecordedInv,
         [Next]_vars
  PROVE  RecordedInv'
<1> DEFINE Holds(n, i) == "StackId" \in DOMAIN secrets'[n] /\ secrets'[n]["StackId"] = i
           ExcusedNow(n) == Clash(n) \/ \E j \in Ids : stack'[j].state = "deleted" /\ stack'[j].name = n
<1>1. ASSUME NEW i \in Ids, Live(i), NEW n \in Names, stack[i].name = n, ~Excused(n)
      PROVE  Holds(n, i)
  <2>1. Get(n, "StackId") = i
    BY <1>1 DEF RecordedInv
  <2>2. IdKept(n)
    BY <1>1, <2>1, IdStays
  <2>3. "StackId" \in DOMAIN secrets[n] /\ secrets[n]["StackId"] = i
    BY <2>1, IdAssumption DEF Get
  <2> QED BY <2>2, <2>3 DEF IdKept
<1>2. ASSUME NEW i \in Ids, StackKept(i), NEW n \in Names, stack'[i].name = n,
             stack'[i].state \notin {"absent", "deleted"}, ~Excused(n)
      PROVE  Holds(n, i)
  BY <1>1, <1>2 DEF StackKept, Live
<1>3. CASE \A i \in Ids : StackKept(i)
  <2>1. ASSUME NEW n \in Names, ~ExcusedNow(n) PROVE ~Excused(n)
    BY <1>3, <2>1 DEF StackKept, Excused, Deleted
  <2>2. ASSUME NEW n \in Names, NEW i \in Ids, stack'[i].name = n,
               stack'[i].state \notin {"absent", "deleted"}, ~ExcusedNow(n)
        PROVE  Holds(n, i)
    BY <1>2, <1>3, <2>1, <2>2
  <2>3. \A n \in Names, i \in Ids :
          stack'[i].state \notin {"absent", "deleted"} /\ stack'[i].name = n /\ ~ExcusedNow(n)
            => Holds(n, i)
    BY <2>2
  <2> QED BY <2>3 DEF RecordedInv, Live, Excused, Deleted, Get
<1>4. ASSUME NEW p \in Procs, NEW a \in Apps, NEW i \in Ids, Created(p, a, i)
      PROVE  RecordedInv'
  <2>1. /\ \A j \in Ids \ {i} : stack'[j] = stack[j]
        /\ stack[i].state = "absent" /\ stack'[i].state = "busy"
        /\ stack'[i].name = Record(p, a)
    BY <1>4 DEF Created
  <2>2. ASSUME NEW n \in Names, ~ExcusedNow(n) PROVE ~Excused(n)
    BY <2>1, <2>2 DEF Excused, Deleted
  <2>3. ASSUME NEW n \in Names, NEW j \in Ids \ {i}, stack'[j].name = n,
               stack'[j].state \notin {"absent", "deleted"}, ~ExcusedNow(n)
        PROVE  Holds(n, j)
    BY <1>1, <2>1, <2>2, <2>3 DEF Live
  <2>4. Holds(Record(p, a), i)
    <3>1. obj[a].state # "none" /\ obj[a].state = "live"
      BY <1>4, CreatedFacts
    <3>2. Record(p, a) \in Names
      BY <3>1, RecordFacts
    <3>3. PICK tmpl : secrets' = [secrets EXCEPT ![Record(p, a)] =
            With(With(With(secrets[Record(p, a)], "StackId", i), "TemplateBody", tmpl),
                 "AppStackStatus", "Progressing")]
      BY <1>4 DEF Created, SetProgressing
    <3>4. secrets'[Record(p, a)] =
            With(With(With(secrets[Record(p, a)], "StackId", i), "TemplateBody", tmpl),
                 "AppStackStatus", "Progressing")
      BY <3>2, <3>3 DEF SecretsInv
    <3> QED BY <3>4 DEF With
  <2>5. \A n \in Names, j \in Ids :
          stack'[j].state \notin {"absent", "deleted"} /\ stack'[j].name = n /\ ~ExcusedNow(n)
            => Holds(n, j)
    BY <2>1, <2>3, <2>4
  <2> QED BY <2>5 DEF RecordedInv, Live, Excused, Deleted, Get
<1> QED BY <1>3, <1>4, StacksStep DEF StackStep
-----------------------------------------------------------------------------
(* The list, and processes.                                                *)

LEMMA PastGrows ==
  ASSUME AppsInv, ProcsInv, StacksInv, SecretsInv, [Next]_vars
  PROVE  past \subseteq past'
<1>1. ASSUME NEW p \in Procs, NEW a \in Apps, Works(p, a) PROVE past \subseteq past'
  BY <1>1, WorkCases
<1>2. ASSUME NEW p \in Procs, NEW w \in proc[p].watchers, Watches(p, w)
      PROVE  past \subseteq past'
  BY <1>2 DEF Watches, WReady, WFailed, WDeleted, WPanic, Sees, Panic
<1>3. ASSUME NEW a \in Apps, Create(a) \/ Edit(a) \/ Delete(a) PROVE past \subseteq past'
  BY <1>3 DEF Create, Edit, Delete
<1>4. ASSUME Others PROVE past \subseteq past'
  BY <1>4 DEF Others, Boot, Lead, Stop, StackMoves, Console, vars
<1> QED BY <1>1, <1>2, <1>3, <1>4, StepCases

(* A worker's name is that of its application's scope, or a dry run's. *)
LEMMA RecordChosen ==
  ASSUME AppsInv, ProcsInv, SecretsInv,
         NEW p \in Procs, NEW a \in Apps, obj[a].state # "none"
  PROVE  Chosen(Record(p, a), a)
<1>1. obj[a].scope \in Scopes[a] /\ proc[p].mode \in Modes
  BY DEF AppsInv, ProcsInv, Processes
<1>2. CASE proc[p].mode = "dry"
  BY <1>2 DEF ProcsInv, Chosen
<1>3. CASE proc[p].mode = "real"
  BY <1>1, <1>3, RecordFacts DEF Chosen
<1> QED BY <1>1, <1>2, <1>3 DEF Modes

ListStep ==
  \A n \in DOMAIN infos' :
    \/ n \in DOMAIN infos /\ infos'[n] = infos[n]
    \/ \E p \in Procs, a \in Apps :
         Works(p, a) /\ n = Record(p, a) /\ infos'[n] = Info(Context(p, a))

LEMMA ListsStep ==
  ASSUME AppsInv, ProcsInv, StacksInv, SecretsInv, [Next]_vars
  PROVE  ListStep
<1>1. ASSUME NEW S, infos' = [m \in DOMAIN infos \ S |-> infos[m]] PROVE ListStep
  BY <1>1 DEF ListStep
<1>2. ASSUME infos' = infos PROVE ListStep
  BY <1>2 DEF ListStep
<1>3. ASSUME NEW n, SetError(n) PROVE ListStep
  BY <1>1, <1>3 DEF SetError
<1>4. ASSUME NEW p \in Procs, NEW a \in Apps, Works(p, a) PROVE ListStep
  <2>1. ASSUME NEW id \in Ids \cup {Fake}, Progresses(p, a, id) PROVE ListStep
    <3>1. infos' = With(infos, Record(p, a), Info(Context(p, a)))
      BY <2>1 DEF Progresses, SetProgressing
    <3> QED BY <1>4, <3>1 DEF ListStep, With
  <2>2. CASE SetError(Record(p, a))
    BY <1>3, <2>2
  <2>3. CASE UNCHANGED <<secrets, infos>>
    BY <1>2, <2>3
  <2>4. CASE DelGone(p, a)
    BY <1>1, <2>4 DEF DelGone
  <2> QED BY <1>4, <2>1, <2>2, <2>3, <2>4, WorkCases
<1>5. ASSUME NEW p \in Procs, NEW w \in proc[p].watchers, Watches(p, w) PROVE ListStep
  <2>1. CASE WReady(p, w)
    BY <1>1, <2>1 DEF WReady
  <2>2. CASE WFailed(p, w)
    BY <1>3, <2>2 DEF WFailed
  <2>3. CASE WDeleted(p, w)
    BY <1>1, <1>2, <2>3 DEF WDeleted
  <2>4. CASE WPanic(p, w)
    BY <1>2, <2>4 DEF WPanic, Panic
  <2> QED BY <1>5, <2>1, <2>2, <2>3, <2>4 DEF Watches
<1>6. ASSUME NEW a \in Apps, Create(a) \/ Edit(a) \/ Delete(a) PROVE ListStep
  BY <1>2, <1>6 DEF Create, Edit, Delete
<1>7. ASSUME Others PROVE ListStep
  BY <1>2, <1>7 DEF Others, Boot, Lead, Stop, StackMoves, Console, vars
<1> QED BY <1>4, <1>5, <1>6, <1>7, StepCases

LEMMA InfosKept ==
  ASSUME AppsInv, ProcsInv, StacksInv, SecretsInv, InfosInv, [Next]_vars
  PROVE  InfosInv'
<1>1. past \subseteq past'
  BY PastGrows
<1> DEFINE ChosenNow(n, a) == "dry" \in past' \/ \E s \in Scopes[a] : n = RealName(a, s)
           Good(n, info) == /\ n \in Names /\ info \in [app : Apps, region : Regions, uid : Uids]
                            /\ SecretName(info) = n /\ ChosenNow(n, info.app)
<1>2. ASSUME NEW n \in DOMAIN infos PROVE Good(n, infos[n])
  BY <1>1, <1>2 DEF InfosInv, Chosen
<1>3. ASSUME NEW p \in Procs, NEW a \in Apps, Works(p, a)
      PROVE  Good(Record(p, a), Info(Context(p, a)))
  <2>1. obj[a].state # "none"
    BY <1>3, WorkedApps
  <2>2. /\ Context(p, a) \in AppContexts /\ Context(p, a).app = a /\ Record(p, a) \in Names
    BY <2>1, RecordFacts
  <2>3. ChosenNow(Record(p, a), a)
    BY <1>1, <2>1, RecordChosen DEF Chosen
  <2>4. /\ Info(Context(p, a)) \in [app : Apps, region : Regions, uid : Uids]
        /\ Info(Context(p, a)).app = a
    BY <2>2 DEF Info, AppContexts
  <2>5. SecretName(Info(Context(p, a))) = Record(p, a)
    BY SameName DEF Record
  <2> QED BY <2>2, <2>3, <2>4, <2>5
<1> HIDE DEF Good
<1>4. \A n \in DOMAIN infos' : Good(n, infos'[n])
  BY <1>2, <1>3, ListsStep DEF ListStep
<1> QED BY <1>4 DEF Good, InfosInv, Chosen

(* What recovery loads for an entry of the list. *)
LEMMA LoadedFacts ==
  ASSUME AppsInv, InfosInv, NEW n \in DOMAIN infos, NEW mode \in Modes,
         obj[infos[n].app].state # "none"
  PROVE  /\ Loaded(n, mode) \in AppContexts
         /\ Loaded(n, mode).app = infos[n].app /\ SecretName(Loaded(n, mode)) = n
<1> DEFINE a == infos[n].app
           c == NewContext(a, obj[a].scope, mode)
           l == [c EXCEPT !.uid = infos[n].uid, !.region = infos[n].region]
<1>1. /\ infos[n] \in [app : Apps, region : Regions, uid : Uids] /\ a \in Apps
      /\ SecretName(infos[n]) = n
  BY DEF InfosInv
<1>2. obj[a].scope \in Scopes[a]
  BY <1>1 DEF AppsInv
<1>3. c \in AppContexts /\ c.app = a
  BY <1>1, <1>2, ContextFacts
<1>4. Loaded(n, mode) = l
  BY DEF Loaded
<1> HIDE DEF c
<1>5. /\ l \in AppContexts /\ l.app = a
      /\ l.uid = infos[n].uid /\ l.region = infos[n].region
  BY <1>1, <1>3 DEF AppContexts
<1> HIDE DEF l
<1>6. SecretName(l) = n
  BY <1>1, <1>5 DEF SecretName
<1> QED BY <1>4, <1>5, <1>6

NewWatcher(w) ==
  \/ \E n \in DOMAIN infos, mode \in Modes :
       /\ obj[infos[n].app].state # "none"
       /\ w = Watcher(Loaded(n, mode), Get(n, "StackId"), FALSE)
  \/ \E p \in Procs, a \in Apps, id \in Ids \cup {Fake}, handler \in BOOLEAN :
       Works(p, a) /\ Progresses(p, a, id) /\ w = Watcher(Context(p, a), id, handler)

ProcStep ==
  /\ proc' \in [Procs -> Processes]
  /\ \A p \in Procs :
       /\ proc'[p].mode = "dry" => "dry" \in past'
       /\ \A w \in proc'[p].watchers : w \in proc[p].watchers \/ NewWatcher(w)

LEMMA OneProcess ==
  ASSUME ProcsInv, past \subseteq past', NEW p \in Procs, NEW r \in Processes,
         proc' = [proc EXCEPT ![p] = r],
         r.mode = "dry" => "dry" \in past',
         \A w \in r.watchers : w \in proc[p].watchers \/ NewWatcher(w)
  PROVE  ProcStep
<1>1. /\ proc' \in [Procs -> Processes] /\ proc'[p] = r
      /\ \A q \in Procs \ {p} : proc'[q] = proc[q]
  BY DEF ProcsInv
<1> QED BY <1>1 DEF ProcStep, ProcsInv

LEMMA NoProcessChange ==
  ASSUME ProcsInv, past \subseteq past', proc' = proc PROVE ProcStep
BY DEF ProcsInv, ProcStep

LEMMA DownStep ==
  ASSUME ProcsInv, past \subseteq past', NEW p \in Procs, proc' = [proc EXCEPT ![p] = Down]
  PROVE  ProcStep
<1>1. Down \in Processes /\ Down.mode = "real" /\ Down.watchers = {}
  BY DEF Down, Processes, Modes
<1> QED BY <1>1, OneProcess

LEMMA WorkerStep ==
  ASSUME ProcsInv, past \subseteq past', NEW p \in Procs, NEW a \in Apps \cup {None},
         proc' = [proc EXCEPT ![p].worker = a]
  PROVE  ProcStep
<1> DEFINE r == [proc[p] EXCEPT !.worker = a]
<1>1. proc[p] \in Processes /\ proc' = [proc EXCEPT ![p] = r]
  BY DEF ProcsInv
<1>2. r \in Processes /\ r.mode = proc[p].mode /\ r.watchers = proc[p].watchers
  BY <1>1 DEF Processes
<1> HIDE DEF r
<1> QED BY <1>1, <1>2, OneProcess DEF ProcsInv

LEMMA BootStep ==
  ASSUME AppsInv, ProcsInv, SecretsInv, InfosInv, past \subseteq past',
         NEW p \in Procs, NEW mode \in Modes, Boot(p, mode)
  PROVE  ProcStep
<1> DEFINE new == {Watcher(Loaded(n, mode), Get(SecretName(Loaded(n, mode)), "StackId"), FALSE)
                     : n \in DOMAIN infos}
           watchers == IF ~Loads(mode) THEN {} ELSE new
           charge == IF Loads(mode) THEN DOMAIN infos ELSE {}
           r == [Down EXCEPT !.up = TRUE, !.mode = mode, !.charge = charge, !.watchers = watchers]
<1>1. proc' = [proc EXCEPT ![p] = r] /\ past' = past \cup ({mode} \ {"real"})
  BY DEF Boot
<1>2. ASSUME Loads(mode), NEW n \in DOMAIN infos
      PROVE  LET w == Watcher(Loaded(n, mode), Get(SecretName(Loaded(n, mode)), "StackId"), FALSE)
             IN /\ w \in [ctx : AppContexts, id : Ids \cup {Fake, None}, handler : BOOLEAN]
                /\ NewWatcher(w)
  <2>1. obj[infos[n].app].state # "none" /\ n \in Names
    BY <1>2 DEF Loads, InfosInv
  <2>2. Loaded(n, mode) \in AppContexts /\ SecretName(Loaded(n, mode)) = n
    BY <2>1, LoadedFacts
  <2>3. Get(n, "StackId") \in Ids \cup {Fake, None}
    BY <2>1, IdFacts
  <2> QED BY <2>1, <2>2, <2>3 DEF Watcher, NewWatcher
<1>3. /\ watchers \subseteq [ctx : AppContexts, id : Ids \cup {Fake, None}, handler : BOOLEAN]
      /\ \A w \in watchers : NewWatcher(w)
  BY <1>2
<1>4. charge \subseteq Names
  BY DEF InfosInv
<1> HIDE DEF watchers, charge
<1>5. r \in Processes /\ r.mode = mode /\ r.watchers = watchers
  BY <1>3, <1>4 DEF Processes, Down
<1> HIDE DEF r
<1>6. mode = "dry" => "dry" \in past'
  BY <1>1
<1> QED BY <1>1, <1>3, <1>5, <1>6, OneProcess

LEMMA StartStep ==
  ASSUME AppsInv, ProcsInv, SecretsInv, past \subseteq past',
         NEW p \in Procs, NEW a \in Apps, Works(p, a),
         NEW id \in Ids \cup {Fake}, Progresses(p, a, id)
  PROVE  ProcStep
<1> DEFINE n == Record(p, a)
<1>1. PICK tmpl \in {obj[a].tmpl, Get(n, "TemplateBody")}, handler \in BOOLEAN :
        SetProgressing(p, a, id, tmpl, handler)
  BY DEF Progresses
<1> DEFINE w == Watcher(Context(p, a), id, handler)
           r(q) == IF q = p
                   THEN [proc[p] EXCEPT !.worker = None, !.charge = @ \cup {n},
                                        !.watchers = @ \cup {w}]
                   ELSE [proc[q] EXCEPT !.charge = @ \ {n}]
<1>2. proc' = [q \in Procs |-> r(q)]
  BY <1>1 DEF SetProgressing
<1>3. Context(p, a) \in AppContexts /\ n \in Names
  BY WorkedApps, RecordFacts
<1>4. /\ w \in [ctx : AppContexts, id : Ids \cup {Fake, None}, handler : BOOLEAN]
      /\ NewWatcher(w)
  BY <1>3 DEF Watcher, NewWatcher
<1> HIDE DEF w, n
<1>5. ASSUME NEW q \in Procs
      PROVE  /\ r(q) \in Processes /\ r(q).mode = proc[q].mode
             /\ \A v \in r(q).watchers : v \in proc[q].watchers \/ NewWatcher(v)
  <2>1. proc[q] \in Processes /\ proc[p] \in Processes
    BY DEF ProcsInv
  <2>2. CASE q = p
    <3> DEFINE s == [proc[p] EXCEPT !.worker = None, !.charge = proc[p].charge \cup {n},
                                    !.watchers = proc[p].watchers \cup {w}]
    <3>1. /\ s \in Processes /\ s.mode = proc[p].mode
          /\ s.watchers = proc[p].watchers \cup {w}
      BY <1>3, <1>4, <2>1 DEF Processes
    <3>2. r(q) = s
      BY <2>2
    <3> HIDE DEF s, r
    <3> QED BY <1>4, <2>2, <3>1, <3>2
  <2>3. CASE q # p
    <3> DEFINE s == [proc[q] EXCEPT !.charge = proc[q].charge \ {n}]
    <3>1. s \in Processes /\ s.mode = proc[q].mode /\ s.watchers = proc[q].watchers
      BY <2>1 DEF Processes
    <3>2. r(q) = s
      BY <2>3
    <3> HIDE DEF s, r
    <3> QED BY <3>1, <3>2
  <2> QED BY <2>2, <2>3
<1> HIDE DEF r
<1>6. proc' \in [Procs -> Processes] /\ \A q \in Procs : proc'[q] = r(q)
  BY <1>2, <1>5
<1> QED BY <1>5, <1>6 DEF ProcStep, ProcsInv

LEMMA ProcsStep ==
  ASSUME AppsInv, ProcsInv, StacksInv, SecretsInv, InfosInv, [Next]_vars
  PROVE  ProcStep
<1>1. past \subseteq past'
  BY PastGrows
<1>2. ASSUME NEW p \in Procs, NEW a \in Apps, Works(p, a) PROVE ProcStep
  <2>1. ASSUME NEW id \in Ids \cup {Fake}, Progresses(p, a, id) PROVE ProcStep
    BY <1>1, <1>2, <2>1, StartStep
  <2>2. CASE proc' \in {proc, [proc EXCEPT ![p] = Down], Idle(p), [proc EXCEPT ![p].worker = a]}
    BY <1>1, <2>2, NoProcessChange, DownStep, WorkerStep DEF Idle
  <2> QED BY <1>2, <2>1, <2>2, WorkCases
<1>3. ASSUME NEW p \in Procs, NEW w \in proc[p].watchers, Watches(p, w) PROVE ProcStep
  <2>1. CASE WPanic(p, w)
    BY <1>1, <2>1, DownStep DEF WPanic, Panic
  <2>2. CASE proc' = [proc EXCEPT ![p].watchers = @ \ {w}]
    <3> DEFINE r == [proc[p] EXCEPT !.watchers = proc[p].watchers \ {w}]
    <3>1. proc[p] \in Processes /\ proc' = [proc EXCEPT ![p] = r]
      BY <2>2 DEF ProcsInv
    <3>2. /\ r \in Processes /\ r.mode = proc[p].mode
          /\ r.watchers = proc[p].watchers \ {w}
      BY <3>1 DEF Processes
    <3> HIDE DEF r
    <3> QED BY <1>1, <3>1, <3>2, OneProcess DEF ProcsInv
  <2> QED BY <1>3, <2>1, <2>2 DEF Watches, WReady, WFailed, WDeleted, Sees
<1>4. ASSUME NEW a \in Apps, Create(a) \/ Edit(a) \/ Delete(a) PROVE ProcStep
  BY <1>1, <1>4, NoProcessChange DEF Create, Edit, Delete
<1>5. ASSUME Others PROVE ProcStep
  <2>1. ASSUME NEW p \in Procs, NEW mode \in Modes, Boot(p, mode) PROVE ProcStep
    BY <1>1, <2>1, BootStep
  <2>2. ASSUME NEW p \in Procs, Stop(p) PROVE ProcStep
    BY <1>1, <2>2, DownStep DEF Stop
  <2>3. ASSUME NEW p \in Procs, Lead(p) PROVE ProcStep
    <3> DEFINE r == [proc[p] EXCEPT !.leader = TRUE]
    <3>1. proc[p] \in Processes /\ proc' = [proc EXCEPT ![p] = r]
      BY <2>3 DEF ProcsInv, Lead
    <3>2. r \in Processes /\ r.mode = proc[p].mode /\ r.watchers = proc[p].watchers
      BY <3>1 DEF Processes
    <3> HIDE DEF r
    <3> QED BY <1>1, <3>1, <3>2, OneProcess DEF ProcsInv
  <2>4. CASE proc' = proc
    BY <1>1, <2>4, NoProcessChange
  <2> QED BY <1>5, <2>1, <2>2, <2>3, <2>4 DEF Others, StackMoves, Console, vars
<1> QED BY <1>2, <1>3, <1>4, <1>5, StepCases

LEMMA ProcsKept ==
  ASSUME AppsInv, ProcsInv, StacksInv, SecretsInv, InfosInv, [Next]_vars
  PROVE  ProcsInv'
BY ProcsStep DEF ProcStep, ProcsInv

LEMMA WatchersKept ==
  ASSUME AppsInv, ProcsInv, StacksInv, SecretsInv, InfosInv, WatchersInv, [Next]_vars
  PROVE  WatchersInv'
<1>1. past \subseteq past' /\ StackStep /\ ProcStep
  BY PastGrows, StacksStep, ProcsStep
<1> DEFINE ChosenNow(n, a) == "dry" \in past' \/ \E s \in Scopes[a] : n = RealName(a, s)
           Good(w) == /\ SecretName(w.ctx) \in Names
                      /\ IsOfNow(w.id, SecretName(w.ctx))
                      /\ ChosenNow(SecretName(w.ctx), w.ctx.app)
<1>2. ASSUME NEW n, NEW a, Chosen(n, a) PROVE ChosenNow(n, a)
  BY <1>1, <1>2 DEF Chosen
<1> HIDE DEF ChosenNow
<1>3. ASSUME NEW p \in Procs, NEW w \in proc[p].watchers PROVE Good(w)
  BY <1>1, <1>2, NameKept DEF WatchersInv
<1>4. ASSUME NEW n \in DOMAIN infos, NEW mode \in Modes, obj[infos[n].app].state # "none",
             NEW w, w = Watcher(Loaded(n, mode), Get(n, "StackId"), FALSE)
      PROVE  Good(w)
  <2>1. /\ w.ctx.app = infos[n].app /\ SecretName(w.ctx) = n /\ w.id = Get(n, "StackId")
    BY <1>4, LoadedFacts DEF Watcher
  <2>2. n \in Names /\ Chosen(n, infos[n].app)
    BY DEF InfosInv
  <2>3. IsOfNow(w.id, n)
    BY <1>1, <2>1, <2>2, IdFacts, NameKept
  <2> QED BY <1>2, <2>1, <2>2, <2>3
<1>5. ASSUME NEW p \in Procs, NEW a \in Apps, NEW id \in Ids \cup {Fake}, NEW handler \in BOOLEAN,
             Works(p, a), Progresses(p, a, id), NEW w, w = Watcher(Context(p, a), id, handler)
      PROVE  Good(w)
  <2>1. /\ w.ctx = Context(p, a) /\ w.ctx.app = a /\ w.id = id
        /\ SecretName(w.ctx) = Record(p, a) /\ Record(p, a) \in Names
        /\ Chosen(Record(p, a), a) /\ IsOf(StackId(p, a), Record(p, a))
    BY <1>5, WorkedApps, RecordFacts, RecordChosen DEF Watcher, Record
  <2>2. IsOfNow(id, Record(p, a))
    <3>1. CASE id \in Ids /\ Created(p, a, id)
      BY <3>1 DEF Created, IsOfNow
    <3>2. CASE id = Fake
      BY <3>2, IdAssumption DEF IsOfNow
    <3>3. CASE id = StackId(p, a)
      BY <1>1, <2>1, <3>3, NameKept
    <3> QED BY <1>5, <3>1, <3>2, <3>3 DEF Progresses
  <2> QED BY <1>2, <2>1, <2>2
<1> HIDE DEF Good
<1>6. ASSUME NEW w, NewWatcher(w) PROVE Good(w)
  <2>1. ASSUME NEW n \in DOMAIN infos, NEW mode \in Modes, obj[infos[n].app].state # "none",
               w = Watcher(Loaded(n, mode), Get(n, "StackId"), FALSE)
        PROVE  Good(w)
    BY <1>4, <2>1
  <2>2. ASSUME NEW p \in Procs, NEW a \in Apps, NEW id \in Ids \cup {Fake},
               NEW handler \in BOOLEAN, Works(p, a), Progresses(p, a, id),
               w = Watcher(Context(p, a), id, handler)
        PROVE  Good(w)
    BY <1>5, <2>2
  <2> QED BY <1>6, <2>1, <2>2 DEF NewWatcher
<1>7. \A p \in Procs : \A w \in proc'[p].watchers : Good(w)
  BY <1>1, <1>3, <1>6 DEF ProcStep
<1> QED BY <1>7 DEF Good, ChosenNow, WatchersInv, IsOf, IsOfNow, Chosen
-----------------------------------------------------------------------------
(* Finalizers, and what is left of an application that is gone.            *)

(* A watcher that lets an application go has seen a stack of it deleted. *)
LEMMA SawItDeleted ==
  ASSUME WatchersInv, "dry" \notin past,
         NEW p \in Procs, NEW w \in proc[p].watchers, WDeleted(p, w)
  PROVE  \E j \in Deleted : Of(w.ctx.app, j)
<1>1. w.id \in Deleted
  BY DEF WDeleted, Sees, Deleted
<1>2. stack[w.id].name = SecretName(w.ctx)
  BY DEF WDeleted, Sees, WatchersInv, IsOf
<1>3. \E s \in Scopes[w.ctx.app] : SecretName(w.ctx) = RealName(w.ctx.app, s)
  BY DEF WatchersInv, Chosen
<1> QED BY <1>1, <1>2, <1>3 DEF Of, RealName, RealContext

LEMMA LiveHasObject ==
  ASSUME NamesApart, StacksInv, NEW a \in Apps, NEW i \in Ids, Live(i), Of(a, i)
  PROVE  obj[a].state # "none"
<1>1. PICK b \in Apps : \E t \in Scopes[b] : OwnedBy(i, b, t)
  BY DEF StacksInv, Live
<1>2. a = b
  BY <1>1 DEF OwnedBy, Of, NamesApart, RealName, RealContext
<1> QED BY <1>1, <1>2 DEF OwnedBy

(* A step's live stack of an application: it was one before, or the object *)
(* is live, with its finalizer.                                            *)
OfNow(a, i) == \E s \in Scopes[a] : stack'[i].name = RealName(a, s)
SpoiledNow(a) ==
  "dry" \in past' \/ \E j \in Ids : stack'[j].state = "deleted" /\ OfNow(a, j)
Spoiled(a) == "dry" \in past \/ \E j \in Deleted : Of(a, j)

LEMMA LiveWasThere ==
  ASSUME NamesApart, AppsInv, ProcsInv, StacksInv, SecretsInv, [Next]_vars,
         NEW a \in Apps, NEW i \in Ids,
         stack'[i].state \notin {"absent", "deleted"}, OfNow(a, i), ~SpoiledNow(a)
  PROVE  /\ ~Spoiled(a)
         /\ \/ Live(i) /\ Of(a, i) /\ StackKept(i)
            \/ obj[a].state = "live" /\ obj'[a].state = "live" /\ obj'[a].fin
<1>1. past \subseteq past'
  BY PastGrows
<1>2. CASE \A j \in Ids : StackKept(j)
  BY <1>1, <1>2 DEF StackKept, Spoiled, SpoiledNow, Deleted, Of, OfNow, Live, RealName, RealContext
<1>3. ASSUME NEW p \in Procs, NEW b \in Apps, NEW k \in Ids, Created(p, b, k)
      PROVE  /\ ~Spoiled(a)
             /\ \/ Live(i) /\ Of(a, i) /\ StackKept(i)
                \/ obj[a].state = "live" /\ obj'[a].state = "live" /\ obj'[a].fin
  <2>1. /\ obj[b].state = "live" /\ obj[b].scope \in Scopes[b] /\ obj' = Finalized(b)
        /\ stack[k].state = "absent" /\ stack'[k].name = RealName(b, obj[b].scope)
        /\ \A j \in Ids \ {k} : stack'[j] = stack[j]
    BY <1>3, CreatedFacts
  <2>2. ~Spoiled(a)
    BY <1>1, <2>1 DEF Spoiled, SpoiledNow, Deleted, Of, OfNow, RealName, RealContext
  <2>3. CASE i = k
    <3>1. a = b
      BY <2>1, <2>3 DEF OfNow, NamesApart
    <3> QED BY <2>1, <2>2, <3>1, FinalizedFields
  <2>4. CASE i # k
    BY <2>1, <2>2, <2>4 DEF Live, Of, OfNow, RealName, RealContext, StackKept, StacksInv
  <2> QED BY <2>3, <2>4
<1> QED BY <1>2, <1>3, StacksStep DEF StackStep

LEMMA FinalizerKept ==
  ASSUME NamesApart, AppsInv, ProcsInv, StacksInv, SecretsInv, WatchersInv, FinalizerInv,
         [Next]_vars
  PROVE  FinalizerInv'
<1>1. ASSUME NEW a \in Apps, NEW i \in Ids,
             stack'[i].state \notin {"absent", "deleted"}, OfNow(a, i), ~SpoiledNow(a)
      PROVE  obj'[a].fin \/ obj'[a].state = "gone"
  <2>1. ~Spoiled(a)
    BY <1>1, LiveWasThere
  <2>2. CASE Live(i) /\ Of(a, i)
    <3>1. obj[a].state # "none" /\ (obj[a].fin \/ obj[a].state = "gone")
      BY <2>1, <2>2, LiveHasObject DEF FinalizerInv, Spoiled
    <3>2. ~\E p \in Procs : \E w \in proc[p].watchers : WDeleted(p, w) /\ w.ctx.app = a
      BY <2>1, SawItDeleted DEF Spoiled
    <3>3. ObjectStep(a)
      BY AppsStep
    <3> QED BY <3>1, <3>2, <3>3 DEF ObjectStep
  <2> QED BY <1>1, <2>2, LiveWasThere
<1>2. \A a \in Apps, i \in Ids :
        stack'[i].state \notin {"absent", "deleted"} /\ OfNow(a, i) /\ ~SpoiledNow(a) =>
          obj'[a].fin \/ obj'[a].state = "gone"
  BY <1>1
<1> QED BY <1>2 DEF FinalizerInv, Live, Of, Deleted, OfNow, SpoiledNow, RealName, RealContext

(* In one place an application has at most two names: its own, where it    *)
(* has no scope, and that of the scopes that lead there.                   *)
LEMMA NamesOfPlace ==
  ASSUME NEW a \in Apps, NEW s \in Scopes[a], NEW t \in Scopes[a],
         RealContext(a, s).client = RealContext(a, t).client,
         RealName(a, s) # RealName(a, t)
  PROVE  RealName(a, s) = a <=> RealName(a, t) # a
<1>1. ASSUME NEW r \in Scopes[a], RealName(a, r) # a
      PROVE  LET c == RealContext(a, r) IN
             RealName(a, r) = <<c.region, c.uid>> \o a /\ c.client = <<c.uid, c.region>>
  BY <1>1 DEF RealName, RealContext, SecretName, NewContext
<1>2. CASE RealName(a, s) # a /\ RealName(a, t) # a
  <2> DEFINE c == RealContext(a, s)
             d == RealContext(a, t)
  <2>1. c.client = <<c.uid, c.region>> /\ d.client = <<d.uid, d.region>>
    BY <1>1, <1>2
  <2>2. c.client = d.client
    OBVIOUS
  <2> HIDE DEF c, d
  <2>3. c.uid = d.uid /\ c.region = d.region
    BY <2>1, <2>2
  <2>4. RealName(a, s) = <<c.region, c.uid>> \o a /\ RealName(a, t) = <<d.region, d.uid>> \o a
    BY <1>1, <1>2 DEF c, d
  <2> QED BY <2>3, <2>4
<1> QED BY <1>2

(* The place of a stack is that of its application's scope only under the  *)
(* name it has there, unless the application moved between the two names,  *)
(* and then its record has its id.                                         *)
Renamed(a, i) == obj[a].moved /\ (stack[i].name = a <=> SecretName(Here(a)) # a)

LEMMA HereIsRecorded ==
  ASSUME NamesApart, AppsInv, StacksInv, RecordedInv, StayedInv,
         NEW a \in Apps, NEW i \in StacksOf(a), stack[i].place = Here(a).client,
         ~Renamed(a, i), ~Clash(SecretName(Here(a))), ~Spoiled(a)
  PROVE  /\ obj[a].scope \in Scopes[a]
         /\ Get(RealName(a, obj[a].scope), "StackId") = i
<1>1. Live(i) /\ Of(a, i) /\ i \in Ids
  BY DEF StacksOf
<1>2. obj[a].scope \in Scopes[a]
  BY <1>1, LiveHasObject DEF AppsInv
<1>3. PICK s \in Scopes[a] : stack[i].name = RealName(a, s)
  BY <1>1 DEF Of, RealName, RealContext
<1>4. stack[i].place = RealContext(a, s).client
  BY <1>1, <1>3, NameFinds
<1>5. stack[i].name = RealName(a, obj[a].scope)
  <2>1. CASE obj[a].moved
    BY <1>2, <1>3, <1>4, <2>1, NamesOfPlace DEF Renamed, Here, RealContext, RealName
  <2>2. CASE ~obj[a].moved
    BY <1>1, <2>2 DEF StayedInv, Live, Here, RealContext, RealName
  <2> QED BY <2>1, <2>2
<1>6. RealName(a, obj[a].scope) \in Names
  BY <1>2, ContextFacts DEF RealName, RealContext, Modes
<1>7. ~Excused(RealName(a, obj[a].scope))
  BY <1>2 DEF Excused, Spoiled, Of, Here, RealName, RealContext
<1> QED BY <1>1, <1>2, <1>5, <1>6, <1>7 DEF RecordedInv

LEMMA GoneKept ==
  ASSUME NamesApart, PlaceInv, RecordedInv, StayedInv, FinalizerInv, GoneFromHere, [Next]_vars
  PROVE  GoneFromHere'
<1> USE DEF PlaceInv
<1>1. ASSUME NEW a \in Apps, NEW i \in Ids,
             stack'[i].state \notin {"absent", "deleted"}, OfNow(a, i), ~SpoiledNow(a),
             obj'[a].state = "gone", stack'[i].place = RealContext(a, obj'[a].scope).client,
             ~Clash(RealName(a, obj'[a].scope)),
             ~(/\ obj'[a].moved
               /\ (stack'[i].name = a <=> RealName(a, obj'[a].scope) # a))
      PROVE  FALSE
  <2>1. /\ ~Spoiled(a) /\ i \in StacksOf(a)
        /\ stack'[i].place = stack[i].place /\ stack'[i].name = stack[i].name
    BY <1>1, LiveWasThere DEF StacksOf, StackKept
  <2>2. ObjectStep(a)
    BY AppsStep
  <2>3. obj'[a].scope = obj[a].scope
    BY <1>1, <2>2 DEF ObjectStep
  <2>4. /\ stack[i].place = Here(a).client /\ ~Clash(SecretName(Here(a)))
        /\ ~Renamed(a, i)
    BY <1>1, <2>1, <2>2, <2>3 DEF Here, RealContext, RealName, Renamed, ObjectStep
  <2>5. obj[a].state # "gone"
    BY <2>1, <2>4 DEF GoneFromHere, Spoiled, Renamed
  <2>6. /\ obj[a].scope \in Scopes[a] /\ obj[a].state # "none"
        /\ Get(RealName(a, obj[a].scope), "StackId") = i
    BY <2>1, <2>4, HereIsRecorded, LiveHasObject DEF StacksOf
  <2>7. obj[a].fin
    BY <2>1, <2>5 DEF FinalizerInv, StacksOf, Spoiled
  <2>8. ASSUME NEW p \in Procs PROVE StackId(p, a) = i /\ Found(Context(p, a), i)
    <3>1. proc[p].mode = "real"
      BY <2>1 DEF ProcsInv, Processes, Modes, Spoiled
    <3>2. /\ Context(p, a) = RealContext(a, obj[a].scope)
          /\ Record(p, a) = RealName(a, obj[a].scope)
      BY <2>6, <3>1, RecordFacts
    <3> QED BY <2>1, <2>4, <2>6, <3>2 DEF StackId, Found, StacksOf, Here, RealContext
  <2>9. ASSUME NEW p \in Procs, DelNothing(p, a) \/ DelGone(p, a) PROVE FALSE
    BY <2>1, <2>8, <2>9, IdAssumption DEF DelNothing, DelGone, StacksOf
  <2>10. ASSUME NEW p \in Procs, NEW w \in proc[p].watchers, WDeleted(p, w), w.ctx.app = a
         PROVE  FALSE
    BY <2>1, <2>10, SawItDeleted DEF Spoiled
  <2> QED BY <1>1, <2>2, <2>5, <2>7, <2>9, <2>10 DEF ObjectStep, LetGo
<1>2. \A a \in Apps, i \in Ids :
        /\ stack'[i].state \notin {"absent", "deleted"} /\ OfNow(a, i) /\ ~SpoiledNow(a)
        /\ obj'[a].state = "gone" /\ stack'[i].place = RealContext(a, obj'[a].scope).client
        => \/ obj'[a].moved /\ (stack'[i].name = a <=> RealName(a, obj'[a].scope) # a)
           \/ Clash(RealName(a, obj'[a].scope))
  BY <1>1
<1> QED BY <1>2 DEF GoneFromHere, StacksOf, Live, Of, Deleted, Here, OfNow, SpoiledNow,
                    RealName, RealContext
-----------------------------------------------------------------------------
(* What a step does to records, the list and the processes together.       *)

(* The stacks that a step does not create or change.                       *)
StackStays(i) ==
  /\ stack'[i].tmpl = stack[i].tmpl
  /\ stack'[i].name = stack[i].name /\ stack'[i].place = stack[i].place
  /\ stack[i].state = "absent" <=> stack'[i].state = "absent"
  /\ stack[i].state = "deleted" => stack'[i].state = "deleted"

(* A worker puts its application in Progressing, with the template of the  *)
(* stack, and starts a watcher that finds it.                              *)
Starts(p, a, id, tmpl, handler) ==
  /\ SetProgressing(p, a, id, tmpl, handler)
  /\ id \in Ids =>
       /\ proc[p].mode = "real" /\ tmpl = stack'[id].tmpl
       /\ stack'[id].name = Record(p, a) /\ stack'[id].place = Context(p, a).client
       /\ stack[id].state = "absent" \/ stack[id].name = Record(p, a)
       /\ id = StackId(p, a) \/ ~NameTaken(p, a)
  /\ \A i \in Ids \ {id} : StackStays(i)

SomeoneStarts ==
  \E p \in Procs, a \in Apps, id \in Ids \cup {Fake}, handler \in BOOLEAN :
    Works(p, a) /\ \E tmpl \in {obj[a].tmpl, Get(Record(p, a), "TemplateBody")} :
      Starts(p, a, id, tmpl, handler)

(* A process keeps its charge and its watchers, or ends. *)
ProcStays(p) ==
  \/ proc'[p].charge = {}
  \/ /\ proc'[p].charge = proc[p].charge /\ proc'[p].mode = proc[p].mode
     /\ proc'[p].watchers = proc[p].watchers

ProcsStay == \A p \in Procs : ProcStays(p)

(* A watcher ends. *)
Leaves(p, w) ==
  w \in proc[p].watchers /\ proc' = [proc EXCEPT ![p].watchers = @ \ {w}]

SomeoneLeaves(n) ==
  \E p \in Procs : \E w \in proc[p].watchers : Leaves(p, w) /\ SecretName(w.ctx) = n

(* A record goes and with it the outputs it names, or, if a call fails,    *)
(* some of them do.                                                        *)
Drops(n) ==
  \E S \in SUBSET (OutputNames(n) \cup {n}) :
    /\ n \in S \/ faults' # 0
    /\ secrets' = [m \in Names |-> IF m \in S THEN Nothing ELSE secrets[m]]

StepKind ==
  \/ UNCHANGED <<secrets, infos>> /\ (ProcsStay \/ \E p \in Procs, mode \in Modes : Boot(p, mode))
  \/ \E n \in Names : RecordName(n) /\ SetError(n) /\ (ProcsStay \/ SomeoneLeaves(n))
  \/ \E p \in Procs : \E w \in proc[p].watchers : WReady(p, w)
  \/ \E n \in Names :
       /\ RecordName(n) /\ Drops(n)
       /\ \/ ProcsStay
          \/ \E p \in Procs : \E w \in proc[p].watchers :
               /\ Leaves(p, w) /\ SecretName(w.ctx) = n
               /\ w.id \in Ids /\ stack[w.id].state = "deleted"

ListShrinks == \A n \in DOMAIN infos' : n \in DOMAIN infos /\ infos'[n] = infos[n]

LEMMA WorkedRecord ==
  ASSUME AppsInv, ProcsInv, NEW p \in Procs, NEW a \in Apps, Works(p, a)
  PROVE  /\ Context(p, a) \in Contexts /\ RecordName(Record(p, a))
         /\ Record(p, a) \in Names
<1>1. obj[a].scope \in Scopes[a] /\ proc[p].mode \in Modes
  BY WorkedApps DEF AppsInv, ProcsInv, Processes
<1> QED BY <1>1, ContextFacts DEF Context, Record, RecordName

LEMMA FaultsGrow ==
  ASSUME faults \in Nat, [Next]_vars
  PROVE  faults' \in Nat /\ (faults' = 0 => faults = 0)
<1>1. ASSUME NEW p \in Procs, NEW a \in Apps, Works(p, a) PROVE faults' = faults
  BY <1>1 DEF Works, CreateOrUpdate, DeleteApp, CuNothing, CuCreate, CuCreateRefused,
       CuCreateDry, CuUpdate, CuSame, CuBusy, CuPanic, CuDryError, Creates, Updates, Panic,
       DelWait, DelNothing, DelGone, DelStack, DelPanic, DelDryError
<1>2. ASSUME NEW p \in Procs, NEW w \in proc[p].watchers, Watches(p, w)
      PROVE  \E k \in Nat : faults' = faults + k
  <2>1. WReady(p, w) => \E k \in Nat : Counted(k)
    BY DEF WReady
  <2>2. WDeleted(p, w) => faults' = faults \/ Counted(1)
    BY DEF WDeleted
  <2>3. WFailed(p, w) \/ WPanic(p, w) => faults' = faults
    BY DEF WFailed, WPanic, Panic
  <2> QED BY <1>2, <2>1, <2>2, <2>3 DEF Watches, Counted
<1>3. ASSUME NEW a \in Apps, Create(a) \/ Edit(a) \/ Delete(a) PROVE faults' = faults
  BY <1>3 DEF Create, Edit, Delete
<1>4. Others => faults' = faults
  BY DEF Others, Boot, Lead, Stop, StackMoves, Console, vars
<1> QED BY <1>1, <1>2, <1>3, <1>4, StepCases

LEMMA CreateStarts ==
  ASSUME PlaceInv, NEW p \in Procs, NEW a \in Apps, CuCreate(p, a)
  PROVE  SomeoneStarts
<1> USE DEF PlaceInv
<1>1. PICK i \in Ids : Created(p, a, i)
  BY CreateIsCreated
<1>2. Works(p, a)
  BY DEF Works, CreateOrUpdate
<1>3. /\ SetProgressing(p, a, i, obj[a].tmpl, TRUE) /\ proc[p].mode = "real"
      /\ stack[i].state = "absent" /\ ~NameTaken(p, a)
      /\ \A j \in Ids \ {i} : stack'[j] = stack[j]
  BY <1>1 DEF Created
<1>4. stack'[i] = [place |-> Context(p, a).client, name |-> Record(p, a),
                   tmpl |-> obj[a].tmpl, state |-> "busy"]
  BY <1>1 DEF Created
<1>5. /\ stack'[i].tmpl = obj[a].tmpl /\ stack'[i].name = Record(p, a)
      /\ stack'[i].place = Context(p, a).client
  BY <1>4
<1>6. Starts(p, a, i, obj[a].tmpl, TRUE)
  BY <1>3, <1>5 DEF Starts, StackStays
<1> QED BY <1>2, <1>6 DEF SomeoneStarts

LEMMA DryCreateStarts ==
  ASSUME NEW p \in Procs, NEW a \in Apps, CuCreateDry(p, a)
  PROVE  SomeoneStarts
<1>1. Works(p, a)
  BY DEF Works, CreateOrUpdate
<1>2. SetProgressing(p, a, Fake, obj[a].tmpl, TRUE) /\ stack' = stack
  BY DEF CuCreateDry
<1>3. Starts(p, a, Fake, obj[a].tmpl, TRUE)
  BY <1>2, IdAssumption DEF Starts, StackStays
<1> QED BY <1>1, <1>3 DEF SomeoneStarts

(* An operation on the stack in the record. *)
LEMMA OldStackStarts ==
  ASSUME PlaceInv, TemplateInv, NEW p \in Procs, NEW a \in Apps,
         CuUpdate(p, a) \/ DelStack(p, a)
  PROVE  SomeoneStarts
<1> USE DEF PlaceInv
<1> DEFINE id == StackId(p, a)
           n == Record(p, a)
<1>1. Works(p, a)
  BY DEF Works, CreateOrUpdate, DeleteApp
<1>2. /\ id \in Ids /\ proc[p].mode = "real" /\ Live(id)
      /\ stack[id].place = Context(p, a).client
  BY DEF CuUpdate, Updates, DelStack, Found
<1>3. n \in Names /\ stack[id].name = n
  BY <1>1, <1>2, WorkedApps, RecordFacts DEF IsOf
<1>4. stack[id] \in Stacks
  BY <1>2 DEF StacksInv
<1>5. CASE CuUpdate(p, a)
  <2> DEFINE r == [stack[id] EXCEPT !.tmpl = obj[a].tmpl, !.state = "busy"]
  <2>1. /\ r.tmpl = obj[a].tmpl /\ r.name = stack[id].name /\ r.place = stack[id].place
    BY <1>4 DEF Stacks
  <2>2. stack' = [stack EXCEPT ![id] = r] /\ SetProgressing(p, a, id, obj[a].tmpl, FALSE)
    BY <1>5 DEF CuUpdate
  <2> HIDE DEF r
  <2>3. stack'[id] = r /\ \A j \in Ids \ {id} : stack'[j] = stack[j]
    BY <1>2, <2>2 DEF StacksInv
  <2>4. Starts(p, a, id, obj[a].tmpl, FALSE)
    BY <1>2, <1>3, <2>1, <2>2, <2>3 DEF Starts, StackStays
  <2> QED BY <1>1, <1>2, <2>4 DEF SomeoneStarts
<1>6. CASE DelStack(p, a)
  <2> DEFINE r == [stack[id] EXCEPT !.state = "deleting"]
             tmpl == Get(n, "TemplateBody")
  <2>1. r.tmpl = stack[id].tmpl /\ r.name = stack[id].name /\ r.place = stack[id].place
    BY <1>4 DEF Stacks
  <2>2. stack' = [stack EXCEPT ![id] = r] /\ SetProgressing(p, a, id, tmpl, FALSE)
    BY <1>6 DEF DelStack
  <2> HIDE DEF r
  <2>3. stack'[id] = r /\ \A j \in Ids \ {id} : stack'[j] = stack[j]
    BY <1>2, <2>2 DEF StacksInv
  <2>4. tmpl = stack[id].tmpl
    BY <1>2, <1>3 DEF TemplateInv, StackId
  <2>5. Starts(p, a, id, tmpl, FALSE)
    BY <1>2, <1>3, <2>1, <2>2, <2>3, <2>4 DEF Starts, StackStays
  <2> QED BY <1>1, <1>2, <2>5 DEF SomeoneStarts
<1> QED BY <1>5, <1>6

LEMMA StacksMove ==
  ASSUME StacksInv, NEW i \in Ids, NEW state, stack[i].state \notin {"absent", "deleted"},
         state # "absent", stack' = [stack EXCEPT ![i].state = state]
  PROVE  \A j \in Ids : StackStays(j)
<1> DEFINE r == [stack[i] EXCEPT !.state = state]
<1>1. stack[i] \in Stacks /\ stack' = [stack EXCEPT ![i] = r]
  BY DEF StacksInv
<1>2. /\ r.tmpl = stack[i].tmpl /\ r.name = stack[i].name /\ r.place = stack[i].place
      /\ r.state = state
  BY <1>1 DEF Stacks
<1> HIDE DEF r
<1>3. stack'[i] = r /\ \A j \in Ids \ {i} : stack'[j] = stack[j]
  BY <1>1 DEF StacksInv
<1> QED BY <1>2, <1>3 DEF StackStays

(* A process that ends, or whose worker is at another place. *)
LEMMA ProcessStays ==
  ASSUME ProcsInv, NEW p \in Procs,
         \/ proc' = proc
         \/ proc' = [proc EXCEPT ![p] = Down]
         \/ \E a \in Apps \cup {None} : proc' = [proc EXCEPT ![p].worker = a]
         \/ proc' = [proc EXCEPT ![p].leader = TRUE]
  PROVE  ProcsStay
<1>1. ASSUME NEW r, proc' = [proc EXCEPT ![p] = r],
             \/ r.charge = {}
             \/ /\ r.charge = proc[p].charge /\ r.mode = proc[p].mode
                /\ r.watchers = proc[p].watchers
      PROVE  ProcsStay
  <2>1. proc'[p] = r /\ \A q \in Procs \ {p} : proc'[q] = proc[q]
    BY <1>1 DEF ProcsInv
  <2> QED BY <1>1, <2>1 DEF ProcsStay, ProcStays
<1>2. CASE proc' = proc
  BY <1>2 DEF ProcsStay, ProcStays
<1>3. CASE proc' = [proc EXCEPT ![p] = Down]
  <2>1. Down.charge = {}
    BY DEF Down
  <2> QED BY <1>1, <1>3, <2>1
<1>4. proc[p] \in Processes
  BY DEF ProcsInv
<1>5. ASSUME NEW a \in Apps \cup {None}, proc' = [proc EXCEPT ![p].worker = a] PROVE ProcsStay
  <2> DEFINE r == [proc[p] EXCEPT !.worker = a]
  <2>1. /\ r.charge = proc[p].charge /\ r.mode = proc[p].mode
        /\ r.watchers = proc[p].watchers
    BY <1>4 DEF Processes
  <2>2. proc' = [proc EXCEPT ![p] = r]
    BY <1>5
  <2> HIDE DEF r
  <2> QED BY <1>1, <2>1, <2>2
<1>6. CASE proc' = [proc EXCEPT ![p].leader = TRUE]
  <2> DEFINE r == [proc[p] EXCEPT !.leader = TRUE]
  <2>1. /\ r.charge = proc[p].charge /\ r.mode = proc[p].mode
        /\ r.watchers = proc[p].watchers
    BY <1>4 DEF Processes
  <2>2. proc' = [proc EXCEPT ![p] = r]
    BY <1>6
  <2> HIDE DEF r
  <2> QED BY <1>1, <2>1, <2>2
<1> QED BY <1>2, <1>3, <1>5, <1>6

LEMMA WorkKinds ==
  ASSUME PlaceInv, RecordNamesInv, TemplateInv,
         NEW p \in Procs, NEW a \in Apps, Works(p, a)
  PROVE  \/ SomeoneStarts
         \/ (\A i \in Ids : StackStays(i)) /\ StepKind /\ ListShrinks
<1> USE DEF PlaceInv
<1>1. RecordName(Record(p, a)) /\ Record(p, a) \in Names
  BY WorkedRecord
<1>2. ASSUME stack' = stack PROVE \A i \in Ids : StackStays(i)
  BY <1>2 DEF StackStays
<1>3. ASSUME UNCHANGED <<secrets, infos>>, ProcsStay PROVE StepKind /\ ListShrinks
  BY <1>3 DEF StepKind, ListShrinks
<1>4. ASSUME SetError(Record(p, a)), ProcsStay PROVE StepKind /\ ListShrinks
  BY <1>1, <1>4 DEF StepKind, ListShrinks, SetError
<1>5. CASE CuCreate(p, a) \/ CuCreateDry(p, a) \/ CuUpdate(p, a) \/ DelStack(p, a)
  BY <1>5, CreateStarts, DryCreateStarts, OldStackStarts
<1>6. CASE CuNothing(p, a) \/ CuSame(p, a)
  BY <1>2, <1>3, <1>6, ProcessStays DEF CuNothing, CuSame
<1>7. CASE CuCreateRefused(p, a) \/ CuBusy(p, a) \/ CuDryError(p, a)
  BY <1>2, <1>4, <1>7, ProcessStays DEF CuCreateRefused, CuBusy, CuDryError
<1>8. CASE DelDryError(p, a)
  BY <1>2, <1>4, <1>8, ProcessStays DEF DelDryError, Idle
<1>9. CASE CuPanic(p, a) \/ DelPanic(p, a)
  BY <1>2, <1>3, <1>9, ProcessStays DEF CuPanic, DelPanic, Panic
<1>10. CASE DelWait(p, a)
  BY <1>2, <1>3, <1>10, ProcessStays DEF DelWait
<1>11. CASE DelNothing(p, a)
  BY <1>2, <1>3, <1>11, ProcessStays DEF DelNothing, Idle
<1>12. CASE DelGone(p, a)
  <2>1. ProcsStay /\ stack' = stack
    BY <1>12, ProcessStays DEF DelGone, Idle
  <2>2. Drops(Record(p, a))
    BY <1>12 DEF DelGone, Dropped, Drops
  <2>3. ListShrinks
    BY <1>12 DEF DelGone, ListShrinks
  <2> QED BY <1>1, <1>2, <2>1, <2>2, <2>3 DEF StepKind
<1> QED BY <1>5, <1>6, <1>7, <1>8, <1>9, <1>10, <1>11, <1>12
     DEF Works, CreateOrUpdate, DeleteApp

LEMMA WatchKinds ==
  ASSUME PlaceInv, RecordNamesInv, NEW p \in Procs, NEW w \in proc[p].watchers, Watches(p, w)
  PROVE  (\A i \in Ids : StackStays(i)) /\ StepKind /\ ListShrinks
<1> USE DEF PlaceInv
<1> DEFINE n == SecretName(w.ctx)
<1>1. RecordName(n) /\ n \in Names
  BY DEF RecordNamesInv, WatchersInv
<1>2. stack' = stack
  BY DEF Watches, WReady, WFailed, WDeleted, WPanic, Sees, Panic
<1>3. \A i \in Ids : StackStays(i)
  BY <1>2 DEF StackStays
<1>4. CASE WReady(p, w)
  BY <1>3, <1>4 DEF StepKind, ListShrinks, WReady
<1>5. CASE WFailed(p, w)
  <2>1. SetError(n) /\ Leaves(p, w)
    BY <1>5 DEF WFailed, Sees, Leaves
  <2>2. ListShrinks
    BY <2>1 DEF SetError, ListShrinks
  <2>3. SomeoneLeaves(n)
    BY <2>1 DEF SomeoneLeaves
  <2> QED BY <1>1, <1>3, <2>1, <2>2, <2>3 DEF StepKind
<1>6. CASE WDeleted(p, w)
  <2>1. Leaves(p, w) /\ w.id \in Ids /\ stack[w.id].state = "deleted"
    BY <1>6 DEF WDeleted, Sees, Leaves
  <2>2. Drops(n)
    <3>1. CASE secrets' = Dropped(n, OutputNames(n))
      BY <3>1 DEF Dropped, Drops
    <3>2. ASSUME NEW some \in SUBSET OutputNames(n), Counted(1),
                 secrets' = [m \in Names |-> IF m \in some THEN Nothing ELSE secrets[m]]
          PROVE  Drops(n)
      <4>1. faults' # 0
        BY <3>2 DEF Counted, RecordNamesInv
      <4>2. some \in SUBSET (OutputNames(n) \cup {n})
        OBVIOUS
      <4> QED BY <3>2, <4>1, <4>2 DEF Drops
    <3> QED BY <1>6, <3>1, <3>2 DEF WDeleted
  <2>3. ListShrinks
    BY <1>6 DEF WDeleted, ListShrinks
  <2> QED BY <1>1, <1>3, <2>1, <2>2, <2>3 DEF StepKind
<1>7. CASE WPanic(p, w)
  BY <1>3, <1>7, ProcessStays DEF WPanic, Panic, StepKind, ListShrinks
<1> QED BY <1>4, <1>5, <1>6, <1>7 DEF Watches

LEMMA StepKinds ==
  ASSUME PlaceInv, RecordNamesInv, TemplateInv, [Next]_vars
  PROVE  \/ SomeoneStarts
         \/ (\A i \in Ids : StackStays(i)) /\ StepKind /\ ListShrinks
<1> USE DEF PlaceInv
<1>1. ASSUME stack' = stack PROVE \A i \in Ids : StackStays(i)
  BY <1>1 DEF StackStays
<1>2. ASSUME UNCHANGED <<secrets, infos>>, ProcsStay PROVE StepKind /\ ListShrinks
  BY <1>2 DEF StepKind, ListShrinks
<1>3. proc' = proc => ProcsStay
  BY DEF ProcsStay, ProcStays
<1>4. ASSUME NEW a \in Apps, Create(a) \/ Edit(a) \/ Delete(a)
      PROVE  (\A i \in Ids : StackStays(i)) /\ StepKind /\ ListShrinks
  BY <1>1, <1>2, <1>3, <1>4 DEF Create, Edit, Delete
<1>5. ASSUME Others PROVE (\A i \in Ids : StackStays(i)) /\ StepKind /\ ListShrinks
  <2>1. ASSUME NEW p \in Procs, NEW mode \in Modes, Boot(p, mode)
        PROVE  (\A i \in Ids : StackStays(i)) /\ StepKind /\ ListShrinks
    <3>1. UNCHANGED <<secrets, infos, stack>>
      BY <2>1 DEF Boot
    <3> QED BY <1>1, <2>1, <3>1 DEF StepKind, ListShrinks
  <2>2. ASSUME NEW p \in Procs, Lead(p) \/ Stop(p)
        PROVE  (\A i \in Ids : StackStays(i)) /\ StepKind /\ ListShrinks
    BY <1>1, <1>2, <2>2, ProcessStays DEF Lead, Stop
  <2>3. ASSUME NEW i \in Ids, StackMoves(i) \/ Console(i)
        PROVE  (\A j \in Ids : StackStays(j)) /\ StepKind /\ ListShrinks
    <3>1. PICK state \in States \ {"absent"} :
            /\ stack[i].state \notin {"absent", "deleted"}
            /\ stack' = [stack EXCEPT ![i].state = state]
      BY <2>3 DEF StackMoves, Console, States
    <3>2. UNCHANGED <<secrets, infos, proc>>
      BY <2>3 DEF StackMoves, Console
    <3> QED BY <1>2, <1>3, <3>1, <3>2, StacksMove
  <2>4. CASE UNCHANGED vars
    BY <1>1, <1>2, <1>3, <2>4 DEF vars
  <2> QED BY <1>5, <2>1, <2>2, <2>3, <2>4 DEF Others
<1> QED BY <1>4, <1>5, WorkKinds, WatchKinds, StepCases
-----------------------------------------------------------------------------
(* Outputs.                                                                *)

(* Names are sequences of parts. *)
Parts ==
  Uids \cup Regions \cup (UNION {{a[k] : k \in DOMAIN a} : a \in Apps})
    \cup (UNION {Outs(a) : a \in Apps})

LEMMA ContextParts ==
  ASSUME NEW c \in Contexts
  PROVE  /\ c.app \in Apps /\ c.uid \in Parts /\ c.region \in Parts
         /\ Outs(c.app) \subseteq Parts /\ c.app \in Seq(Parts)
<1>1. PICK a \in Apps : \E s \in Scopes[a], mode \in Modes : c = NewContext(a, s, mode)
  BY DEF Contexts
<1>2. c.app = a
  BY <1>1, ContextFacts
<1>3. c.uid \in Parts /\ c.region \in Parts /\ Outs(a) \subseteq Parts
  BY DEF Uids, Regions, Parts
<1>4. a \in Seq({a[k] : k \in DOMAIN a}) /\ {a[k] : k \in DOMAIN a} \subseteq Parts
  BY AppAssumption DEF Parts
<1>5. a \in Seq(Parts)
  BY <1>4, SeqMonotonic
<1> QED BY <1>2, <1>3, <1>5

LEMMA NamesAreSeqs == \A n \in Names : n \in Seq(Parts)
<1>1. ASSUME NEW c \in Contexts PROVE SecretName(c) \in Seq(Parts)
  <2>1. c.app \in Seq(Parts) /\ <<c.region, c.uid>> \in Seq(Parts)
    BY ContextParts
  <2> QED BY <2>1 DEF SecretName
<1>2. ASSUME NEW c \in Contexts, NEW i \in Outs(c.app)
      PROVE  OutputSecretName(c, i) \in Seq(Parts)
  BY <1>1, ContextParts DEF OutputSecretName
<1>3. ASSUME NEW n \in Names PROVE n \in Seq(Parts)
  <2>1. CASE \E c \in Contexts : n = SecretName(c)
    BY <1>1, <2>1
  <2>2. CASE \E c \in Contexts : \E i \in Outs(c.app) : n = OutputSecretName(c, i)
    BY <1>2, <2>2
  <2> QED BY <2>1, <2>2 DEF Names, OutputSecretNames
<1> QED BY <1>3

(* An output is of one record. *)
LEMMA OutputsApart ==
  ASSUME NEW n \in Names, NEW m \in Names, NEW o, OutputOf(n, o), OutputOf(m, o)
  PROVE  n = m
<1>1. n \in Seq(Parts) /\ m \in Seq(Parts)
  BY NamesAreSeqs
<1>2. \A a \in Apps : Outs(a) \subseteq Parts
  BY DEF Parts
<1>3. PICK i \in Parts : o = Append(n, i)
  BY <1>2 DEF OutputOf
<1>4. PICK j \in Parts : o = Append(m, j)
  BY <1>2 DEF OutputOf
<1> HIDE DEF Parts
<1>5. \A s, t \in Seq(Parts) : \A x, y \in Parts : Append(s, x) = Append(t, y) => s = t
  BY AppendInjective
<1>6. Append(n, i) = Append(m, j)
  BY <1>3, <1>4
<1> QED BY <1>1, <1>5, <1>6, Zenon

(* What is read after the step. *)
GetNow(n, key) == IF key \in DOMAIN secrets'[n] THEN secrets'[n][key] ELSE None

KeysKept(n) ==
  /\ GetNow(n, "StackId") = Get(n, "StackId")
  /\ GetNow(n, "TemplateBody") = Get(n, "TemplateBody")

LEMMA StartRecord ==
  ASSUME SecretsInv, NEW p \in Procs, NEW a \in Apps, Record(p, a) \in Names,
         NEW id, NEW tmpl, NEW handler, Starts(p, a, id, tmpl, handler)
  PROVE  /\ GetNow(Record(p, a), "StackId") = id
         /\ GetNow(Record(p, a), "TemplateBody") = tmpl
         /\ GetNow(Record(p, a), "AppStackStatus") = "Progressing"
         /\ \A n \in Names \ {Record(p, a)} : secrets'[n] = secrets[n]
<1> DEFINE n == Record(p, a)
           f == With(secrets[n], "StackId", id)
           g == With(f, "TemplateBody", tmpl)
           h == With(g, "AppStackStatus", "Progressing")
<1>1. secrets' = [secrets EXCEPT ![n] = h]
  BY DEF Starts, SetProgressing
<1>2. "StackId" \in DOMAIN f /\ f["StackId"] = id
  BY DEF With
<1> HIDE DEF f
<1>3. /\ "StackId" \in DOMAIN g /\ g["StackId"] = id
      /\ "TemplateBody" \in DOMAIN g /\ g["TemplateBody"] = tmpl
  BY <1>2 DEF With
<1> HIDE DEF g
<1>4. /\ "StackId" \in DOMAIN h /\ h["StackId"] = id
      /\ "TemplateBody" \in DOMAIN h /\ h["TemplateBody"] = tmpl
      /\ "AppStackStatus" \in DOMAIN h /\ h["AppStackStatus"] = "Progressing"
  BY <1>3 DEF With
<1> HIDE DEF h
<1>5. secrets'[n] = h /\ \A m \in Names \ {n} : secrets'[m] = secrets[m]
  BY <1>1 DEF SecretsInv
<1> QED BY <1>4, <1>5 DEF GetNow

LEMMA ErrorRecord ==
  ASSUME SecretsInv, NEW n \in Names, SetError(n)
  PROVE  /\ KeysKept(n) /\ GetNow(n, "AppStackStatus") = "Failed"
         /\ \A m \in Names \ {n} : secrets'[m] = secrets[m]
<1> DEFINE f == With(secrets[n], "AppStackStatus", "Failed")
<1>1. secrets' = [secrets EXCEPT ![n] = f]
  BY DEF SetError
<1>2. /\ DOMAIN f = DOMAIN secrets[n] \cup {"AppStackStatus"} /\ f["AppStackStatus"] = "Failed"
      /\ \A k \in DOMAIN secrets[n] \ {"AppStackStatus"} : f[k] = secrets[n][k]
  BY DEF With
<1> HIDE DEF f
<1>3. secrets'[n] = f /\ \A m \in Names \ {n} : secrets'[m] = secrets[m]
  BY <1>1 DEF SecretsInv
<1> QED BY <1>2, <1>3 DEF GetNow, KeysKept, Get

(* SaveOutputs and SetReady. *)
LEMMA ReadyFacts ==
  ASSUME SecretsInv, WatchersInv, faults \in Nat,
         NEW p \in Procs, NEW w \in proc[p].watchers, WReady(p, w)
  PROVE  LET n    == SecretName(w.ctx)
             tmpl == stack[w.id].tmpl
             outs == {OutputSecretName(w.ctx, i) : i \in tmpl.outs}
         IN \E failed \in SUBSET outs :
              /\ faults' = 0 => failed = {}
              /\ KeysKept(n) \/ GetNow(n, "StackId") = None
              /\ GetNow(n, "AppStackStatus") = "Ready"
              /\ \A m \in Names \ {n} :
                   secrets'[m] = IF m \in outs \ failed
                                 THEN OutputData(tmpl.version, secrets[m]) ELSE secrets[m]
<1> DEFINE n == SecretName(w.ctx)
           tmpl == stack[w.id].tmpl
           outs == {OutputSecretName(w.ctx, i) : i \in tmpl.outs}
<1>1. n \in Names
  BY DEF WatchersInv
<1>2. PICK failed \in SUBSET outs, unnamed \in BOOLEAN :
        /\ Counted((IF failed # {} THEN 1 ELSE 0) + (IF unnamed THEN 1 ELSE 0))
        /\ LET saved == [m \in Names |-> IF m \in outs \ failed
                                         THEN OutputData(tmpl.version, secrets[m])
                                         ELSE secrets[m]]
               ready == With(saved[n], "AppStackStatus", "Ready")
           IN secrets' = [saved EXCEPT ![n] = IF unnamed THEN ready
                                              ELSE With(ready, "Outputs", outs \ failed)]
  BY DEF WReady
<1> DEFINE saved(m) == IF m \in outs \ failed THEN OutputData(tmpl.version, secrets[m])
                       ELSE secrets[m]
           ready == With(saved(n), "AppStackStatus", "Ready")
           last == IF unnamed THEN ready ELSE With(ready, "Outputs", outs \ failed)
<1>3. secrets' = [[m \in Names |-> saved(m)] EXCEPT ![n] = last]
  BY <1>1, <1>2
<1>4. faults' = 0 => failed = {}
  BY <1>2 DEF Counted
<1>5. /\ ready["AppStackStatus"] = "Ready"
      /\ DOMAIN ready = DOMAIN saved(n) \cup {"AppStackStatus"}
      /\ \A k \in DOMAIN saved(n) \ {"AppStackStatus"} : ready[k] = saved(n)[k]
  BY DEF With
<1> HIDE DEF ready
<1>6. /\ "AppStackStatus" \in DOMAIN last /\ last["AppStackStatus"] = "Ready"
      /\ \A k \in {"StackId", "TemplateBody"} :
           /\ k \in DOMAIN last <=> k \in DOMAIN saved(n)
           /\ k \in DOMAIN saved(n) => last[k] = saved(n)[k]
  <2>1. CASE unnamed
    BY <1>5, <2>1
  <2>2. CASE ~unnamed
    <3>1. last = With(ready, "Outputs", outs \ failed)
      BY <2>2
    <3> HIDE DEF last, outs, saved
    <3> QED BY <1>5, <3>1 DEF With
  <2> QED BY <2>1, <2>2
<1>7. n \in outs \ failed => DOMAIN saved(n) = {"Attr", "List"}
  BY DEF OutputData
<1>8. n \notin outs \ failed => saved(n) = secrets[n]
  OBVIOUS
<1>9. \A m : saved(m) = IF m \in outs \ failed THEN OutputData(tmpl.version, secrets[m])
                        ELSE secrets[m]
  OBVIOUS
<1> HIDE DEF saved, last
<1>10. secrets'[n] = last /\ \A m \in Names \ {n} : secrets'[m] = saved(m)
  BY <1>1, <1>3
<1>11. KeysKept(n) \/ GetNow(n, "StackId") = None
  <2>1. CASE n \in outs \ failed
    BY <1>6, <1>7, <1>10, <2>1 DEF GetNow
  <2>2. CASE n \notin outs \ failed
    BY <1>6, <1>8, <1>10, <2>2 DEF GetNow, KeysKept, Get
  <2> QED BY <2>1, <2>2
<1>12. GetNow(n, "AppStackStatus") = "Ready"
  BY <1>6, <1>10 DEF GetNow
<1> HIDE DEF outs
<1> QED BY <1>4, <1>9, <1>10, <1>11, <1>12 DEF outs

LEMMA RecordNamesKept ==
  ASSUME PlaceInv, RecordNamesInv, [Next]_vars PROVE RecordNamesInv'
<1> USE DEF PlaceInv
<1>1. faults' \in Nat
  BY FaultsGrow DEF RecordNamesInv
<1>2. \A a \in Apps : obj'[a].state = "none" => obj'[a].scope = NoScope
  BY AppsStep DEF ObjectStep, RecordNamesInv
<1>3. \A n \in DOMAIN infos' : RecordName(n)
  BY ListsStep, WorkedRecord DEF ListStep, RecordNamesInv
<1>4. ASSUME NEW w, NewWatcher(w) PROVE RecordName(SecretName(w.ctx))
  <2>1. ASSUME NEW n \in DOMAIN infos, NEW mode \in Modes, obj[infos[n].app].state # "none",
               w = Watcher(Loaded(n, mode), Get(n, "StackId"), FALSE)
        PROVE  RecordName(SecretName(w.ctx))
    BY <2>1, LoadedFacts DEF Watcher, RecordNamesInv
  <2>2. ASSUME NEW p \in Procs, NEW a \in Apps, Works(p, a), NEW id, NEW handler,
               w = Watcher(Context(p, a), id, handler)
        PROVE  RecordName(SecretName(w.ctx))
    BY <2>2, WorkedRecord DEF Watcher, Record
  <2> QED BY <1>4, <2>1, <2>2 DEF NewWatcher
<1>5. \A p \in Procs : \A w \in proc'[p].watchers : RecordName(SecretName(w.ctx))
  BY <1>4, ProcsStep DEF ProcStep, RecordNamesInv
<1>6. ASSUME NEW n \in Names, "Outputs" \in DOMAIN secrets'[n], NEW m \in secrets'[n]["Outputs"]
      PROVE  OutputOf(n, m)
  BY <1>6, SecretsStep DEF SecretStep, OutputsKept, RecordNamesInv
<1> QED BY <1>1, <1>2, <1>3, <1>5, <1>6 DEF RecordNamesInv, RecordName, OutputOf

(* But for what a worker puts in Progressing, a record keeps its stack and *)
(* its template, or has no stack.                                          *)
LEMMA KindKeys ==
  ASSUME SecretsInv, WatchersInv, faults \in Nat, StepKind, NEW n \in Names
  PROVE  KeysKept(n) \/ GetNow(n, "StackId") = None
<1>1. ASSUME secrets'[n] = secrets[n] PROVE KeysKept(n)
  BY <1>1 DEF KeysKept, GetNow, Get
<1>2. ASSUME NEW e \in Names, SetError(e) PROVE KeysKept(n)
  BY <1>1, <1>2, ErrorRecord
<1>3. ASSUME NEW p \in Procs, NEW w \in proc[p].watchers, WReady(p, w)
      PROVE  KeysKept(n) \/ GetNow(n, "StackId") = None
  <2>1. CASE n = SecretName(w.ctx)
    BY <1>3, <2>1, ReadyFacts
  <2>2. CASE n # SecretName(w.ctx)
    <3>1. secrets'[n] = secrets[n] \/ \E version : secrets'[n] = OutputData(version, secrets[n])
      BY <1>3, <2>2, ReadyFacts
    <3>2. \A version : DOMAIN OutputData(version, secrets[n]) = {"Attr", "List"}
      BY DEF OutputData
    <3> QED BY <1>1, <3>1, <3>2 DEF GetNow
  <2> QED BY <2>1, <2>2
<1>4. ASSUME NEW k \in Names, Drops(k) PROVE KeysKept(n) \/ GetNow(n, "StackId") = None
  <2>1. secrets'[n] = Nothing \/ secrets'[n] = secrets[n]
    BY <1>4 DEF Drops
  <2> QED BY <1>1, <2>1 DEF GetNow, Nothing
<1> QED BY <1>1, <1>2, <1>3, <1>4 DEF StepKind

LiveNow(i) == stack'[i].state \notin {"absent", "deleted"}

LEMMA TemplateKept ==
  ASSUME NamesApart, PlaceInv, RecordNamesInv, TemplateInv, [Next]_vars
  PROVE  TemplateInv'
<1> USE DEF PlaceInv
<1> DEFINE Now(n) ==
             GetNow(n, "StackId") \in Ids =>
               /\ GetNow(n, "TemplateBody") = stack'[GetNow(n, "StackId")].tmpl
               /\ \A i \in Ids : LiveNow(i) /\ stack'[i].name = n => GetNow(n, "StackId") = i
<1>1. ASSUME \A i \in Ids : StackStays(i), StepKind, NEW n \in Names PROVE Now(n)
  <2>1. KeysKept(n) \/ GetNow(n, "StackId") = None
    BY <1>1, KindKeys DEF RecordNamesInv
  <2>2. CASE GetNow(n, "StackId") = None
    BY <2>2, IdAssumption
  <2>3. CASE KeysKept(n)
    BY <1>1, <2>3 DEF KeysKept, TemplateInv, StackStays, LiveNow, Live
  <2> QED BY <2>1, <2>2, <2>3
<1>2. ASSUME NEW p \in Procs, NEW a \in Apps, Works(p, a), NEW id \in Ids \cup {Fake},
             NEW tmpl, NEW handler, Starts(p, a, id, tmpl, handler), NEW n \in Names
      PROVE  Now(n)
  <2> DEFINE r == Record(p, a)
  <2>1. r \in Names /\ obj[a].state # "none" /\ obj[a].scope \in Scopes[a]
    BY <1>2, WorkedRecord, WorkedApps DEF AppsInv
  <2>2. /\ GetNow(r, "StackId") = id /\ GetNow(r, "TemplateBody") = tmpl
        /\ \A m \in Names \ {r} : secrets'[m] = secrets[m]
    BY <1>2, <2>1, StartRecord
  <2>3. CASE n = r
    <3> SUFFICES ASSUME id \in Ids PROVE Now(r)
      BY <2>2, <2>3
    <3>1. /\ proc[p].mode = "real" /\ tmpl = stack'[id].tmpl
          /\ id = StackId(p, a) \/ ~NameTaken(p, a)
      BY <1>2 DEF Starts
    <3>2. ASSUME NEW i \in Ids, LiveNow(i), stack'[i].name = r, i # id PROVE FALSE
      <4>1. Live(i) /\ stack[i].name = r
        BY <1>2, <3>2 DEF Starts, StackStays, LiveNow, Live
      <4>2. CASE id = StackId(p, a)
        BY <2>1, <3>2, <4>1, <4>2 DEF TemplateInv, StackId
      <4>3. CASE ~NameTaken(p, a)
        <5>1. /\ r = RealName(a, obj[a].scope)
              /\ Context(p, a) = RealContext(a, obj[a].scope)
          BY <2>1, <3>1, RecordFacts
        <5>2. stack[i].place = Context(p, a).client
          BY <2>1, <4>1, <5>1, NameFinds
        <5> QED BY <4>1, <4>3, <5>2 DEF NameTaken
      <4> QED BY <3>1, <4>2, <4>3
    <3> QED BY <2>2, <3>1, <3>2
  <2>4. CASE n # r
    <3>1. GetNow(n, "StackId") = Get(n, "StackId") /\ GetNow(n, "TemplateBody") = Get(n, "TemplateBody")
      BY <2>2, <2>4 DEF GetNow, Get
    <3> SUFFICES ASSUME Get(n, "StackId") \in Ids PROVE Now(n)
      BY <3>1
    <3> DEFINE k == Get(n, "StackId")
    <3>2. k \in Ids /\ stack[k].state # "absent" /\ stack[k].name = n
      BY IdFacts DEF IsOf
    <3>3. k # id
      BY <1>2, <2>4, <3>2 DEF Starts
    <3>4. StackStays(k)
      BY <1>2, <3>2, <3>3 DEF Starts
    <3>5. GetNow(n, "TemplateBody") = stack'[k].tmpl
      BY <3>1, <3>4 DEF TemplateInv, StackStays
    <3>6. ASSUME NEW i \in Ids, LiveNow(i), stack'[i].name = n PROVE k = i
      <4>1. i # id
        BY <1>2, <2>4, <3>6 DEF Starts
      <4>2. Live(i) /\ stack[i].name = n
        BY <1>2, <3>6, <4>1 DEF Starts, StackStays, LiveNow, Live
      <4> QED BY <4>2 DEF TemplateInv
    <3> QED BY <3>1, <3>5, <3>6
  <2> QED BY <2>3, <2>4
<1> HIDE DEF Now
<1>3. \A n \in Names : Now(n)
  BY <1>1, <1>2, StepKinds DEF SomeoneStarts
<1> QED BY <1>3 DEF Now, TemplateInv, GetNow, Get, LiveNow, Live

(* The outputs of a record with a stack. *)
LEMMA TemplateOuts ==
  ASSUME StacksInv, SecretsInv, TemplateInv, NEW n \in Names, Get(n, "StackId") \in Ids,
         NEW i \in Get(n, "TemplateBody").outs
  PROVE  Append(n, i) \in Names /\ OutputOf(n, Append(n, i))
<1>1. PICK id \in Ids : id = Get(n, "StackId")
  OBVIOUS
<1>2. stack[id].state # "absent" /\ stack[id].name = n /\ Get(n, "TemplateBody") = stack[id].tmpl
  BY <1>1, IdFacts DEF IsOf, TemplateInv
<1>3. PICK a \in Apps : \E s \in Scopes[a] : OwnedBy(id, a, s)
  BY <1>2 DEF StacksInv
<1>4. PICK s \in Scopes[a] : OwnedBy(id, a, s)
  BY <1>3
<1>5. RealContext(a, s) \in Contexts /\ RealContext(a, s).app = a
  BY ContextFacts DEF RealContext, Modes
<1>6. i \in Outs(a)
  BY <1>2, <1>4 DEF OwnedBy, Outs
<1>7. Append(n, i) = OutputSecretName(RealContext(a, s), i)
  BY <1>2, <1>4 DEF OwnedBy, RealName, OutputSecretName
<1> QED BY <1>5, <1>6, <1>7 DEF Names, OutputSecretNames, OutputOf

SavedNow(n) ==
  GetNow(n, "AppStackStatus") = "Ready" /\ faults' = 0 /\ GetNow(n, "StackId") \in Ids =>
    \A i \in GetNow(n, "TemplateBody").outs : ~RecordName(Append(n, i)) =>
      secrets'[Append(n, i)] = [Attr |-> GetNow(n, "TemplateBody").version, List |-> ""]

(* A record whose Secret and outputs stay as they are. *)
LEMMA SavedStays ==
  ASSUME PlaceInv, RecordNamesInv, TemplateInv, SavedInv, [Next]_vars, NEW n \in Names,
         secrets'[n] = secrets[n],
         \A m \in Names : OutputOf(n, m) /\ ~RecordName(m) => secrets'[m] = secrets[m]
  PROVE  SavedNow(n)
<1> USE DEF PlaceInv
<1>1. \A key : GetNow(n, key) = Get(n, key)
  BY DEF GetNow, Get
<1> SUFFICES ASSUME Status(n) = "Ready", faults' = 0, Get(n, "StackId") \in Ids,
                    NEW i \in Get(n, "TemplateBody").outs, ~RecordName(Append(n, i))
             PROVE  secrets'[Append(n, i)] =
                      [Attr |-> Get(n, "TemplateBody").version, List |-> ""]
  BY <1>1 DEF SavedNow, Status
<1>2. faults = 0
  BY FaultsGrow DEF RecordNamesInv
<1>3. secrets[Append(n, i)] = [Attr |-> Get(n, "TemplateBody").version, List |-> ""]
  BY <1>2 DEF SavedInv, Saved
<1>4. secrets'[Append(n, i)] = secrets[Append(n, i)]
  BY TemplateOuts
<1> QED BY <1>3, <1>4

(* Only the Secret of one record is written. *)
LEMMA SavedBeside ==
  ASSUME PlaceInv, RecordNamesInv, TemplateInv, SavedInv, [Next]_vars, NEW n \in Names,
         NEW r \in Names, RecordName(r), \A m \in Names \ {r} : secrets'[m] = secrets[m],
         n = r => GetNow(n, "AppStackStatus") # "Ready"
  PROVE  SavedNow(n)
<1>1. CASE n = r
  BY <1>1 DEF SavedNow
<1>2. CASE n # r
  BY <1>2, SavedStays
<1> QED BY <1>1, <1>2

(* What a watcher saved of its own stack, it saved with its outputs. *)
LEMMA SavedReady ==
  ASSUME PlaceInv, RecordNamesInv, TemplateInv, SavedInv, [Next]_vars, NEW n \in Names,
         NEW p \in Procs, NEW w \in proc[p].watchers, WReady(p, w)
  PROVE  SavedNow(n)
<1> USE DEF PlaceInv
<1> DEFINE k == SecretName(w.ctx)
           tmpl == stack[w.id].tmpl
           outs == {OutputSecretName(w.ctx, i) : i \in tmpl.outs}
<1>1. PICK failed \in SUBSET outs :
        /\ faults' = 0 => failed = {}
        /\ KeysKept(k) \/ GetNow(k, "StackId") = None
        /\ GetNow(k, "AppStackStatus") = "Ready"
        /\ \A m \in Names \ {k} :
             secrets'[m] = IF m \in outs \ failed
                           THEN OutputData(tmpl.version, secrets[m]) ELSE secrets[m]
  BY ReadyFacts DEF RecordNamesInv
<1>2. /\ k \in Names /\ RecordName(k) /\ w.id \in Ids /\ Live(w.id) /\ stack[w.id].name = k
  BY DEF WatchersInv, IsOf, RecordNamesInv, WReady, Sees, Live
<1>3. \A m \in outs : OutputOf(k, m)
  BY <1>2, OutputsClash
<1>4. \A version, old : OutputData(version, old) = [Attr |-> version, List |-> ""]
  BY DEF OutputData
<1>5. CASE n = k
  <2> SUFFICES ASSUME faults' = 0, GetNow(k, "StackId") \in Ids,
                      NEW i \in GetNow(k, "TemplateBody").outs, ~RecordName(Append(k, i))
               PROVE  secrets'[Append(k, i)] =
                        [Attr |-> GetNow(k, "TemplateBody").version, List |-> ""]
    BY <1>5 DEF SavedNow
  <2>1. Get(k, "StackId") \in Ids /\ GetNow(k, "TemplateBody") = Get(k, "TemplateBody")
    BY <1>1, IdAssumption DEF KeysKept
  <2>2. Get(k, "StackId") = w.id /\ Get(k, "TemplateBody") = tmpl
    BY <1>2, <2>1 DEF TemplateInv
  <2>3. Append(k, i) \in Names \ {k} /\ Append(k, i) \in outs \ failed
    <3>1. Append(k, i) \in Names
      BY <1>2, <2>1, TemplateOuts
    <3>2. Append(k, i) = OutputSecretName(w.ctx, i) /\ i \in tmpl.outs
      BY <2>1, <2>2 DEF OutputSecretName
    <3> QED BY <1>1, <1>2, <3>1, <3>2
  <2> QED BY <1>1, <1>4, <2>1, <2>2, <2>3
<1>6. CASE n # k
  <2>1. CASE n \in outs \ failed
    <3>1. DOMAIN secrets'[n] = {"Attr", "List"}
      BY <1>1, <1>4, <1>6, <2>1
    <3> QED BY <3>1, IdAssumption DEF SavedNow, GetNow
  <2>2. CASE n \notin outs \ failed
    <3>1. secrets'[n] = secrets[n]
      BY <1>1, <1>6, <2>2
    <3>2. ASSUME NEW m \in Names, OutputOf(n, m), ~RecordName(m) PROVE secrets'[m] = secrets[m]
      <4>1. m # k /\ m \notin outs
        BY <1>2, <1>3, <1>6, <3>2, OutputsApart
      <4> QED BY <1>1, <4>1
    <3> QED BY <3>1, <3>2, SavedStays
  <2> QED BY <2>1, <2>2
<1> QED BY <1>5, <1>6

(* A record that goes leaves those of others, and their outputs. *)
LEMMA SavedDrops ==
  ASSUME PlaceInv, RecordNamesInv, TemplateInv, SavedInv, [Next]_vars, NEW n \in Names,
         NEW k \in Names, RecordName(k), Drops(k)
  PROVE  SavedNow(n)
<1> USE DEF PlaceInv
<1>1. PICK S \in SUBSET (OutputNames(k) \cup {k}) :
        /\ k \in S \/ faults' # 0
        /\ secrets' = [m \in Names |-> IF m \in S THEN Nothing ELSE secrets[m]]
  BY DEF Drops
<1>2. \A m \in OutputNames(k) : OutputOf(k, m)
  BY DEF RecordNamesInv, OutputNames, Get
<1>3. CASE n \in S \/ faults' # 0
  <2>1. n \in S => DOMAIN secrets'[n] = {}
    BY <1>1 DEF Nothing
  <2> QED BY <1>3, <2>1, IdAssumption DEF SavedNow, GetNow
<1>4. CASE n \notin S /\ faults' = 0
  <2>1. n # k /\ secrets'[n] = secrets[n]
    BY <1>1, <1>4
  <2>2. ASSUME NEW m \in Names, OutputOf(n, m), ~RecordName(m) PROVE secrets'[m] = secrets[m]
    <3>1. m \notin S
      BY <1>1, <1>2, <2>1, <2>2, OutputsApart
    <3> QED BY <1>1, <3>1
  <2> QED BY <2>1, <2>2, SavedStays
<1> QED BY <1>3, <1>4

LEMMA SavedKept ==
  ASSUME PlaceInv, RecordNamesInv, TemplateInv, SavedInv, [Next]_vars
  PROVE  SavedInv'
<1> USE DEF PlaceInv
<1>1. ASSUME NEW p \in Procs, NEW a \in Apps, Works(p, a), NEW id, NEW tmpl, NEW handler,
             Starts(p, a, id, tmpl, handler), NEW n \in Names
      PROVE  SavedNow(n)
  <2>1. Record(p, a) \in Names /\ RecordName(Record(p, a))
    BY <1>1, WorkedRecord
  <2>2. /\ GetNow(Record(p, a), "AppStackStatus") = "Progressing"
        /\ \A m \in Names \ {Record(p, a)} : secrets'[m] = secrets[m]
    BY <1>1, <2>1, StartRecord
  <2> QED BY <2>1, <2>2, SavedBeside
<1>2. ASSUME NEW e \in Names, RecordName(e), SetError(e), NEW n \in Names PROVE SavedNow(n)
  <2>1. /\ GetNow(e, "AppStackStatus") = "Failed"
        /\ \A m \in Names \ {e} : secrets'[m] = secrets[m]
    BY <1>2, ErrorRecord
  <2> QED BY <1>2, <2>1, SavedBeside
<1>3. ASSUME secrets' = secrets, NEW n \in Names PROVE SavedNow(n)
  BY <1>3, SavedStays
<1>4. \A n \in Names : SavedNow(n)
  BY <1>1, <1>2, <1>3, StepKinds, SavedReady, SavedDrops DEF SomeoneStarts, StepKind
<1> QED BY <1>4 DEF SavedNow, SavedInv, Saved, Status, GetNow, Get, RecordName
-----------------------------------------------------------------------------
(* Who watches.                                                            *)

LEMMA ListedKept ==
  ASSUME PlaceInv, RecordNamesInv, TemplateInv, ListedInv, [Next]_vars
  PROVE  ListedInv'
<1> USE DEF PlaceInv
<1> DEFINE Now(n) == GetNow(n, "StackId") \in Ids =>
                       \E s \in Scopes[infos'[n].app] : n = RealName(infos'[n].app, s)
<1>1. ASSUME NEW n \in DOMAIN infos, infos'[n] = infos[n],
             KeysKept(n) \/ GetNow(n, "StackId") = None
      PROVE  Now(n)
  BY <1>1, IdAssumption DEF ListedInv, KeysKept
<1>2. ASSUME StepKind, ListShrinks, NEW n \in DOMAIN infos' PROVE Now(n)
  <2>1. n \in DOMAIN infos /\ infos'[n] = infos[n] /\ n \in Names
    BY <1>2 DEF ListShrinks, InfosInv
  <2> HIDE DEF Now
  <2> QED BY <1>1, <1>2, <2>1, KindKeys DEF RecordNamesInv
<1>3. ASSUME NEW p \in Procs, NEW a \in Apps, Works(p, a), NEW id \in Ids \cup {Fake},
             NEW tmpl, NEW handler, Starts(p, a, id, tmpl, handler), NEW n \in DOMAIN infos'
      PROVE  Now(n)
  <2> DEFINE r == Record(p, a)
  <2>1. r \in Names /\ obj[a].state # "none" /\ obj[a].scope \in Scopes[a]
    BY <1>3, WorkedRecord, WorkedApps DEF AppsInv
  <2>2. GetNow(r, "StackId") = id /\ \A m \in Names \ {r} : secrets'[m] = secrets[m]
    BY <1>3, <2>1, StartRecord
  <2>3. infos' = With(infos, r, Info(Context(p, a)))
    BY <1>3 DEF Starts, SetProgressing
  <2>4. CASE n = r
    <3> SUFFICES ASSUME id \in Ids PROVE Now(r)
      BY <2>2, <2>4
    <3>1. proc[p].mode = "real"
      BY <1>3 DEF Starts
    <3>2. r = RealName(a, obj[a].scope) /\ Context(p, a).app = a
      BY <2>1, <3>1, RecordFacts
    <3>3. infos'[r].app = a
      BY <2>3, <3>2 DEF With, Info
    <3> QED BY <2>1, <3>2, <3>3
  <2>5. CASE n # r
    <3>1. n \in DOMAIN infos /\ infos'[n] = infos[n]
      BY <1>3, <2>3, <2>5 DEF With
    <3>2. KeysKept(n)
      BY <2>2, <2>5, <3>1 DEF InfosInv, KeysKept, GetNow, Get
    <3> QED BY <1>1, <3>1, <3>2
  <2> QED BY <2>4, <2>5
<1> HIDE DEF Now
<1>4. \A n \in DOMAIN infos' : Now(n)
  BY <1>2, <1>3, StepKinds DEF SomeoneStarts
<1> QED BY <1>4 DEF Now, ListedInv, GetNow, Get, RealName, RealContext

ChargedNow(p, n) ==
  /\ proc'[p].mode = "real" /\ n \in proc'[p].charge \cap DOMAIN infos'
  /\ GetNow(n, "AppStackStatus") = "Progressing" /\ GetNow(n, "StackId") \in Ids
  /\ stack'[GetNow(n, "StackId")].state # "deleted" \/ faults' = 0
  /\ ~obj'[infos'[n].app].moved

WatchedNow(p, n) ==
  \E w \in proc'[p].watchers :
    /\ w.id = GetNow(n, "StackId") /\ SecretName(w.ctx) = n
    /\ w.ctx.client = stack'[w.id].place

(* A process whose watchers of a record stay. *)
LEMMA ChargeStays ==
  ASSUME PlaceInv, RecordNamesInv, ChargeInv, [Next]_vars, NEW p \in Procs, NEW n \in Names,
         secrets'[n] = secrets[n], n \in DOMAIN infos, infos'[n] = infos[n],
         Get(n, "StackId") \in Ids => StackStays(Get(n, "StackId")),
         n \in proc[p].charge, proc'[p].mode = proc[p].mode, ChargedNow(p, n),
         \A w \in proc[p].watchers :
           /\ SecretName(w.ctx) = n /\ w.id \in Ids
           /\ stack[w.id].state # "deleted" \/ faults' = 0
           => w \in proc'[p].watchers
  PROVE  WatchedNow(p, n)
<1> USE DEF PlaceInv
<1>1. \A key : GetNow(n, key) = Get(n, key)
  BY DEF GetNow, Get
<1>2. PICK id \in Ids : id = Get(n, "StackId")
  BY <1>1 DEF ChargedNow
<1>3. stack'[id].place = stack[id].place /\ (stack[id].state = "deleted" => stack'[id].state = "deleted")
  BY <1>2 DEF StackStays
<1>4. ~obj[infos[n].app].moved
  <2>1. infos[n].app \in Apps
    BY DEF InfosInv
  <2>2. ObjectStep(infos[n].app)
    BY <2>1, AppsStep
  <2> QED BY <2>2 DEF ObjectStep, ChargedNow
<1>5. faults' = 0 => faults = 0
  BY FaultsGrow DEF RecordNamesInv
<1>6. Charged(p, n)
  BY <1>1, <1>2, <1>3, <1>4, <1>5 DEF ChargedNow, Charged, Status
<1>7. PICK w \in proc[p].watchers :
        w.id = id /\ SecretName(w.ctx) = n /\ w.ctx.client = stack[id].place
  BY <1>2, <1>6 DEF ChargeInv, Watched
<1>8. w \in proc'[p].watchers
  BY <1>1, <1>2, <1>3, <1>7 DEF ChargedNow
<1> QED BY <1>1, <1>2, <1>3, <1>7, <1>8 DEF WatchedNow

(* A worker watches what it puts in Progressing, and no other process does *)
(* from then on.                                                           *)
LEMMA ChargeStarts ==
  ASSUME PlaceInv, RecordNamesInv, ChargeInv, [Next]_vars,
         NEW q \in Procs, NEW a \in Apps, Works(q, a), NEW id \in Ids \cup {Fake},
         NEW tmpl, NEW handler, Starts(q, a, id, tmpl, handler),
         NEW p \in Procs, NEW n \in Names, ChargedNow(p, n)
  PROVE  WatchedNow(p, n)
<1> USE DEF PlaceInv
<1> DEFINE r == Record(q, a)
           v == Watcher(Context(q, a), id, handler)
<1>1. r \in Names
  BY WorkedRecord
<1>2. GetNow(r, "StackId") = id /\ \A m \in Names \ {r} : secrets'[m] = secrets[m]
  BY <1>1, StartRecord
<1>3. /\ infos' = With(infos, r, Info(Context(q, a)))
      /\ proc' = [x \in Procs |->
           IF x = q THEN [proc[q] EXCEPT !.worker = None, !.charge = @ \cup {r},
                                         !.watchers = @ \cup {v}]
           ELSE [proc[x] EXCEPT !.charge = @ \ {r}]]
  BY DEF Starts, SetProgressing
<1> HIDE DEF r, v
<1>4. /\ proc'[q].mode = proc[q].mode /\ proc'[q].charge = proc[q].charge \cup {r}
      /\ proc'[q].watchers = proc[q].watchers \cup {v}
  <2>1. proc[q] \in Processes
    BY DEF ProcsInv
  <2> QED BY <1>3, <2>1 DEF Processes
<1>5. ASSUME p # q
      PROVE  /\ proc'[p].mode = proc[p].mode /\ proc'[p].charge = proc[p].charge \ {r}
             /\ proc'[p].watchers = proc[p].watchers
  <2>1. proc[p] \in Processes
    BY DEF ProcsInv
  <2> QED BY <1>3, <1>5, <2>1 DEF Processes
<1>6. CASE n = r
  <2>1. p = q /\ id \in Ids
    BY <1>2, <1>5, <1>6 DEF ChargedNow
  <2>2. v.id = id /\ SecretName(v.ctx) = r /\ v.ctx.client = stack'[id].place
    BY <2>1 DEF Starts, Watcher, Record, r, v
  <2> QED BY <1>2, <1>4, <1>6, <2>1, <2>2 DEF WatchedNow
<1>7. CASE n # r
  <2>1. n \in DOMAIN infos /\ infos'[n] = infos[n] /\ secrets'[n] = secrets[n]
    BY <1>2, <1>3, <1>7 DEF With, ChargedNow
  <2>2. /\ n \in proc[p].charge /\ proc'[p].mode = proc[p].mode
        /\ proc[p].watchers \subseteq proc'[p].watchers
    BY <1>4, <1>5, <1>7 DEF ChargedNow
  <2>3. Get(n, "StackId") \in Ids => StackStays(Get(n, "StackId"))
    <3>1. Get(n, "StackId") \in Ids =>
            /\ stack[Get(n, "StackId")].state # "absent"
            /\ stack[Get(n, "StackId")].name = n
      BY IdFacts DEF IsOf
    <3> QED BY <1>7, <3>1 DEF Starts, r
  <2> QED BY <2>1, <2>2, <2>3, ChargeStays
<1> QED BY <1>6, <1>7

(* A process that starts loads the list with clients of the scopes, which  *)
(* find the stacks of applications that did not move.                      *)
LEMMA ChargeLoads ==
  ASSUME NamesApart, PlaceInv, StayedInv, RecordNamesInv, ListedInv, ChargeInv, [Next]_vars,
         NEW q \in Procs, NEW mode \in Modes, Boot(q, mode),
         NEW p \in Procs, NEW n \in Names, ChargedNow(p, n)
  PROVE  WatchedNow(p, n)
<1> USE DEF PlaceInv
<1>1. secrets' = secrets /\ infos' = infos /\ stack' = stack /\ obj' = obj
  BY DEF Boot
<1>2. \A key : GetNow(n, key) = Get(n, key)
  BY <1>1 DEF GetNow, Get
<1>3. CASE p # q
  <2>1. proc'[p] = proc[p]
    BY <1>3 DEF Boot, ProcsInv
  <2> QED BY <1>1, <2>1, ChargeStays DEF ChargedNow, StackStays
<1>4. CASE p = q
  <2> DEFINE l == Loaded(n, mode)
             charge == IF Loads(mode) THEN DOMAIN infos ELSE {}
             new == IF ~Loads(mode) THEN {}
                    ELSE {Watcher(Loaded(m, mode), Get(SecretName(Loaded(m, mode)), "StackId"), FALSE)
                            : m \in DOMAIN infos}
             d == [Down EXCEPT !.up = TRUE, !.mode = mode, !.charge = charge, !.watchers = new]
  <2>1. proc' = [proc EXCEPT ![q] = d]
    BY DEF Boot
  <2> HIDE DEF charge, new
  <2>2. d.mode = mode /\ d.charge = charge /\ d.watchers = new
    BY DEF Down
  <2> HIDE DEF d
  <2>3. proc'[q] = d
    BY <2>1 DEF ProcsInv
  <2>4. mode = "real" /\ Loads(mode) /\ n \in DOMAIN infos
    BY <1>4, <2>2, <2>3 DEF ChargedNow, charge
  <2>5. PICK a \in Apps : a = infos[n].app
    BY <2>4 DEF InfosInv
  <2>6. obj[a].state # "none" /\ obj[a].scope \in Scopes[a] /\ ~obj[a].moved
    BY <1>1, <2>4, <2>5 DEF Loads, AppsInv, ChargedNow
  <2>7. SecretName(l) = n /\ l.client = RealContext(a, obj[a].scope).client
    <3>1. SecretName(l) = n
      BY <2>4, <2>5, <2>6, LoadedFacts
    <3> DEFINE c == NewContext(a, obj[a].scope, mode)
    <3>2. c \in AppContexts
      BY <2>5, <2>6, ContextFacts
    <3>3. l = [c EXCEPT !.uid = infos[n].uid, !.region = infos[n].region]
      BY <2>5 DEF Loaded
    <3>4. c = RealContext(a, obj[a].scope)
      BY <2>4 DEF RealContext
    <3> HIDE DEF c, l
    <3>5. l.client = c.client
      BY <3>2, <3>3 DEF AppContexts
    <3> QED BY <3>1, <3>4, <3>5
  <2>8. PICK id \in Ids : id = Get(n, "StackId")
    BY <1>2 DEF ChargedNow
  <2>9. stack[id].place = RealContext(a, obj[a].scope).client
    <3>1. stack[id].state # "absent" /\ stack[id].name = n
      BY <2>8, IdFacts DEF IsOf
    <3>2. Of(a, id)
      BY <2>4, <2>5, <2>8, <3>1 DEF ListedInv, Of, RealName, RealContext
    <3>3. n = RealName(a, obj[a].scope)
      BY <2>6, <3>1, <3>2 DEF StayedInv, Here, RealName, RealContext
    <3>4. PICK b \in Apps : \E t \in Scopes[b] : OwnedBy(id, b, t)
      BY <3>1 DEF StacksInv
    <3>5. PICK t \in Scopes[b] : OwnedBy(id, b, t)
      BY <3>4
    <3> QED BY <2>6, <3>1, <3>3, <3>5 DEF OwnedBy, NamesApart
  <2> DEFINE w == Watcher(l, id, FALSE)
  <2>10. w \in new
    BY <2>4, <2>7, <2>8 DEF new
  <2>11. w.id = id /\ w.ctx = l
    BY DEF Watcher
  <2> HIDE DEF w, l
  <2> QED BY <1>1, <1>2, <1>4, <2>2, <2>3, <2>7, <2>8, <2>9, <2>10, <2>11 DEF WatchedNow
<1> QED BY <1>3, <1>4

(* What a watcher's end takes from a process. *)
LEMMA LeftFacts ==
  ASSUME ProcsInv, NEW q \in Procs, NEW v \in proc[q].watchers, Leaves(q, v), NEW p \in Procs
  PROVE  /\ proc'[p].mode = proc[p].mode /\ proc'[p].charge = proc[p].charge
         /\ proc[p].watchers \ {v} \subseteq proc'[p].watchers
<1> DEFINE r == [proc[q] EXCEPT !.watchers = proc[q].watchers \ {v}]
<1>1. proc[q] \in Processes /\ proc' = [proc EXCEPT ![q] = r]
  BY DEF ProcsInv, Leaves
<1>2. /\ r.mode = proc[q].mode /\ r.charge = proc[q].charge
      /\ r.watchers = proc[q].watchers \ {v}
  BY <1>1 DEF Processes
<1> HIDE DEF r
<1> QED BY <1>1, <1>2 DEF ProcsInv

(* The other steps: what ends a watcher takes its record from the list, or *)
(* leaves it with a stack that is deleted, after a failure.                *)
LEMMA ChargeKinds ==
  ASSUME NamesApart, PlaceInv, StayedInv, RecordNamesInv, ListedInv, ChargeInv, [Next]_vars,
         \A i \in Ids : StackStays(i), StepKind, ListShrinks,
         NEW p \in Procs, NEW n \in Names, ChargedNow(p, n)
  PROVE  WatchedNow(p, n)
<1> USE DEF PlaceInv
<1>1. n \in DOMAIN infos /\ infos'[n] = infos[n]
  BY DEF ChargedNow, ListShrinks
<1>2. ASSUME secrets'[n] = secrets[n], ProcsStay PROVE WatchedNow(p, n)
  <2>1. /\ proc'[p].charge = proc[p].charge /\ proc'[p].mode = proc[p].mode
        /\ proc'[p].watchers = proc[p].watchers
    BY <1>2 DEF ChargedNow, ProcsStay, ProcStays
  <2> QED BY <1>1, <1>2, <2>1, ChargeStays DEF ChargedNow
<1>3. ASSUME secrets'[n] = secrets[n], NEW q \in Procs, NEW v \in proc[q].watchers,
             Leaves(q, v),
             SecretName(v.ctx) # n \/ (stack[v.id].state = "deleted" /\ faults' # 0)
      PROVE  WatchedNow(p, n)
  <2>1. /\ proc'[p].mode = proc[p].mode /\ proc'[p].charge = proc[p].charge
        /\ proc[p].watchers \ {v} \subseteq proc'[p].watchers
    BY <1>3, LeftFacts
  <2> QED BY <1>1, <1>3, <2>1, ChargeStays DEF ChargedNow
<1>4. ASSUME NEW e \in Names, SetError(e), ProcsStay \/ SomeoneLeaves(e)
      PROVE  WatchedNow(p, n)
  <2>1. n # e
    BY <1>4 DEF SetError, ChargedNow
  <2>2. secrets'[n] = secrets[n]
    BY <1>4, <2>1, ErrorRecord
  <2> QED BY <1>2, <1>3, <1>4, <2>1, <2>2 DEF SomeoneLeaves
<1>5. ASSUME NEW q \in Procs, NEW v \in proc[q].watchers, WReady(q, v) PROVE WatchedNow(p, n)
  <2>1. n # SecretName(v.ctx) /\ Leaves(q, v)
    BY <1>5 DEF WReady, Sees, Leaves, ChargedNow
  <2>2. secrets'[n] = secrets[n] \/ \E version : secrets'[n] = OutputData(version, secrets[n])
    BY <1>5, <2>1, ReadyFacts DEF RecordNamesInv
  <2>3. "StackId" \in DOMAIN secrets'[n]
    BY IdAssumption DEF ChargedNow, GetNow
  <2>4. \A version : DOMAIN OutputData(version, secrets[n]) = {"Attr", "List"}
    BY DEF OutputData
  <2>5. secrets'[n] = secrets[n]
    BY <2>2, <2>3, <2>4
  <2> QED BY <1>3, <2>1, <2>5
<1>6. ASSUME NEW k \in Names, Drops(k), ProcsStay PROVE WatchedNow(p, n)
  <2>1. secrets'[n] = Nothing \/ secrets'[n] = secrets[n]
    BY <1>6 DEF Drops
  <2>2. secrets'[n] # Nothing
    BY IdAssumption DEF ChargedNow, GetNow, Nothing
  <2> QED BY <1>2, <1>6, <2>1, <2>2
<1>7. ASSUME NEW k \in Names, Drops(k), NEW q \in Procs, NEW v \in proc[q].watchers,
             Leaves(q, v), SecretName(v.ctx) = k, stack[v.id].state = "deleted"
      PROVE  WatchedNow(p, n)
  <2>1. "StackId" \in DOMAIN secrets'[n]
    BY IdAssumption DEF ChargedNow, GetNow
  <2>2. secrets'[n] = secrets[n] /\ (n = k => faults' # 0)
    BY <1>7, <2>1 DEF Drops, Nothing
  <2> QED BY <1>3, <1>7, <2>2
<1>8. ASSUME UNCHANGED <<secrets, infos>>,
             ProcsStay \/ \E q \in Procs, mode \in Modes : Boot(q, mode)
      PROVE  WatchedNow(p, n)
  BY <1>2, <1>8, ChargeLoads
<1> QED BY <1>4, <1>5, <1>6, <1>7, <1>8 DEF StepKind

LEMMA ChargeKept ==
  ASSUME NamesApart, PlaceInv, StayedInv, RecordNamesInv, TemplateInv, ListedInv, ChargeInv,
         [Next]_vars
  PROVE  ChargeInv'
<1>1. ASSUME NEW p \in Procs, NEW n \in Names, ChargedNow(p, n) PROVE WatchedNow(p, n)
  <2>1. SomeoneStarts => WatchedNow(p, n)
    BY <1>1, ChargeStarts DEF SomeoneStarts
  <2>2. (\A i \in Ids : StackStays(i)) /\ StepKind /\ ListShrinks => WatchedNow(p, n)
    BY <1>1, ChargeKinds
  <2> QED BY <2>1, <2>2, StepKinds
<1> QED BY <1>1 DEF ChargeInv, Charged, ChargedNow, Watched, WatchedNow, Status, GetNow, Get
-----------------------------------------------------------------------------
(* The theorems.                                                           *)

LEMMA PlaceInit == Init => PlaceInv
<1> SUFFICES ASSUME Init PROVE PlaceInv
  OBVIOUS
<1>1. AppsInv
  BY DEF Init, AppsInv, Objects
<1>2. ProcsInv
  <2>1. Down \in Processes /\ Down.mode = "real"
    BY DEF Down, Processes, Modes
  <2> QED BY <2>1 DEF Init, ProcsInv
<1>3. StacksInv
  <2>1. NoStack \in Stacks /\ NoStack.state = "absent"
    BY DEF NoStack, Stacks, States
  <2> QED BY <2>1 DEF Init, StacksInv
<1>4. SecretsInv
  BY DEF Init, SecretsInv, Nothing
<1>5. InfosInv
  BY DEF Init, InfosInv, Nothing
<1>6. WatchersInv
  BY DEF Init, WatchersInv, Down
<1> QED BY <1>1, <1>2, <1>3, <1>4, <1>5, <1>6 DEF PlaceInv

LEMMA PlaceStep == PlaceInv /\ [Next]_vars => PlaceInv'
<1> SUFFICES ASSUME PlaceInv, [Next]_vars PROVE PlaceInv'
  OBVIOUS
<1> USE DEF PlaceInv
<1>1. AppsInv'
  BY AppsStep
<1>2. ProcsInv' /\ InfosInv' /\ WatchersInv'
  BY ProcsKept, InfosKept, WatchersKept
<1>3. StacksInv' /\ SecretsInv'
  BY StacksKept, SecretsKept
<1> QED BY <1>1, <1>2, <1>3

(* What is kept of the objects, the list and the watchers has its types,   *)
(* and an entry of the list leads back to the record it is of              *)
(* (appstack.go:266): for all applications, scopes, templates and edits.   *)
THEOREM ListLeadsBack == Spec => []TypeOK
<1>1. Init => PlaceInv
  BY PlaceInit
<1>2. PlaceInv /\ [Next]_vars => PlaceInv'
  BY PlaceStep
<1>3. PlaceInv => TypeOK
  <2> SUFFICES ASSUME PlaceInv PROVE TypeOK
    OBVIOUS
  <2>1. \A a \in Apps : obj[a].state \in {"none", "live", "deleting", "gone"}
    BY DEF PlaceInv, AppsInv, Objects
  <2>2. due \subseteq Apps /\ DOMAIN infos \subseteq Names
        /\ \A n \in DOMAIN infos : SecretName(infos[n]) = n
    BY DEF PlaceInv, AppsInv, InfosInv
  <2>3. ASSUME NEW p \in Procs, NEW q \in Procs, NEW w \in proc[q].watchers
        PROVE  w.id \in Ids \cup {Fake, None} /\ proc[p].worker \in Apps \cup {None}
    BY DEF PlaceInv, ProcsInv, Processes
  <2> QED BY <2>1, <2>2, <2>3 DEF TypeOK
<1> QED BY <1>1, <1>2, <1>3, PTL DEF Spec

LEMMA DeploymentsInit == Init => DeploymentsInv
<1> SUFFICES ASSUME Init PROVE DeploymentsInv
  OBVIOUS
<1>1. \A i \in Ids : ~Live(i)
  BY DEF Init, NoStack, Live
<1>2. StayedInv
  BY DEF Init, NoStack, StayedInv
<1> QED BY <1>1, <1>2, PlaceInit
     DEF DeploymentsInv, OneOfName, StayedInv, RecordedInv, FinalizerInv

LEMMA DeploymentsStep ==
  ASSUME NamesApart PROVE DeploymentsInv /\ [Next]_vars => DeploymentsInv'
<1> SUFFICES ASSUME DeploymentsInv, [Next]_vars PROVE DeploymentsInv'
  OBVIOUS
<1> USE DEF DeploymentsInv
<1>1. PlaceInv'
  BY PlaceStep
<1>2. OneOfName' /\ StayedInv'
  BY OneOfNameKept, StayedKept DEF PlaceInv
<1>3. RecordedInv' /\ FinalizerInv'
  BY RecordedKept, FinalizerKept DEF PlaceInv
<1> QED BY <1>1, <1>2, <1>3

(* Where no name is that of two applications or places, an application has *)
(* a second stack only after an edit of its scope, and then in another     *)
(* account or region, or in the same under its other name there: one made  *)
(* without a scope, one for a scope of the configured account              *)
(* (appstack.go:267).  Nothing is assumed of which accounts scopes name.   *)
THEOREM StacksApart ==
  ASSUME NamesApart PROVE Spec => []OneStackPerPlace
<1>1. Init => DeploymentsInv
  BY DeploymentsInit
<1>2. DeploymentsInv /\ [Next]_vars => DeploymentsInv'
  BY DeploymentsStep
<1>3. DeploymentsInv => OneStackPerPlace
  <2> SUFFICES ASSUME DeploymentsInv, NEW a \in Apps,
                      NEW i \in StacksOf(a), NEW j \in StacksOf(a), i # j
               PROVE  /\ obj[a].moved
                      /\ stack[i].place = stack[j].place =>
                           (stack[i].name = a <=> stack[j].name # a)
    BY DEF OneStackPerPlace
  <2> USE DEF DeploymentsInv, PlaceInv
  <2>1. i \in Ids /\ j \in Ids /\ Live(i) /\ Live(j) /\ Of(a, i) /\ Of(a, j)
    BY DEF StacksOf
  <2>2. PICK s \in Scopes[a] : stack[i].name = RealName(a, s)
    BY <2>1 DEF Of, RealName, RealContext
  <2>3. PICK t \in Scopes[a] : stack[j].name = RealName(a, t)
    BY <2>1 DEF Of, RealName, RealContext
  <2>4. /\ stack[i].place = RealContext(a, s).client
        /\ stack[j].place = RealContext(a, t).client
    BY <2>1, <2>2, <2>3, NameFinds
  <2>5. stack[i].name # stack[j].name
    <3>1. stack[i].name = stack[j].name => stack[j].place = RealContext(a, s).client
      BY <2>1, <2>2, NameFinds
    <3> QED BY <2>1, <2>4, <3>1 DEF OneOfName
  <2>6. stack[i].place = stack[j].place => (stack[i].name = a <=> stack[j].name # a)
    BY <2>2, <2>3, <2>4, <2>5, NamesOfPlace
  <2>7. obj[a].moved
    <3>1. ~obj[a].moved => stack[i].name = stack[j].name
      BY <2>1 DEF StayedInv, Live
    <3>2. obj[a].moved \in BOOLEAN
      BY DEF AppsInv, Objects
    <3> QED BY <2>5, <3>1, <3>2
  <2> QED BY <2>6, <2>7
<1> QED BY <1>1, <1>2, <1>3, PTL DEF Spec

(* Where no name is that of two applications or places, the record of a    *)
(* stack that exists keeps its id through edits of scopes, restarts, dry   *)
(* runs and failures, but for the two ways out of RecordsKept              *)
(* (appstack.go:266, 275).                                                 *)
THEOREM RecordsStay == ASSUME NamesApart PROVE Spec => RecordsKept
<1>1. Init => DeploymentsInv
  BY DeploymentsInit
<1>2. DeploymentsInv /\ [Next]_vars => DeploymentsInv'
  BY DeploymentsStep
<1> DEFINE Keeps == \A n \in Names :
             Get(n, "StackId") \in Ids /\ Live(Get(n, "StackId")) /\ ~Clash(n)
             /\ (\A i \in Deleted : stack[i].name # n) =>
               "StackId" \in DOMAIN secrets'[n] /\ secrets'[n]["StackId"] = Get(n, "StackId")
<1>3. DeploymentsInv /\ [Next]_vars => Keeps
  <2> SUFFICES ASSUME DeploymentsInv, [Next]_vars, NEW n \in Names,
                      Get(n, "StackId") \in Ids, Live(Get(n, "StackId")), ~Clash(n),
                      \A i \in Deleted : stack[i].name # n
               PROVE  "StackId" \in DOMAIN secrets'[n]
                      /\ secrets'[n]["StackId"] = Get(n, "StackId")
    BY DEF Keeps
  <2>1. PICK i \in Ids : i = Get(n, "StackId")
    OBVIOUS
  <2>2. stack[i].name = n /\ ~Excused(n)
    BY <2>1, IdFacts DEF DeploymentsInv, PlaceInv, IsOf, Excused
  <2>3. IdKept(n)
    BY <2>1, <2>2, IdStays DEF DeploymentsInv, PlaceInv
  <2>4. "StackId" \in DOMAIN secrets[n] /\ secrets[n]["StackId"] = i
    BY <2>1, IdAssumption DEF Get
  <2> QED BY <2>1, <2>3, <2>4 DEF IdKept
<1>4. DeploymentsInv /\ [Next]_vars => [Keeps]_vars
  BY <1>3
<1> QED BY <1>1, <1>2, <1>4, PTL DEF Spec, RecordsKept

(* Under the same condition as StacksApart, an object that is gone left a  *)
(* stack only where its scope no longer points, or in the same place under *)
(* the name it had there before its scope was edited, with the other ways  *)
(* out of GoneFromHere (handlers/appconf.go:181-200).                      *)
THEOREM GoneLeavesNoStack ==
  ASSUME NamesApart PROVE Spec => []GoneFromHere
<1>1. Init => DeploymentsInv /\ GoneFromHere
  <2>1. Init => GoneFromHere
    BY DEF Init, NoStack, Live, StacksOf, GoneFromHere
  <2> QED BY <2>1, DeploymentsInit
<1>2. DeploymentsInv /\ GoneFromHere /\ [Next]_vars => (DeploymentsInv /\ GoneFromHere)'
  BY DeploymentsStep, GoneKept DEF DeploymentsInv
<1> QED BY <1>1, <1>2, PTL DEF Spec

LEMMA OutputsInit == Init => OutputsInv /\ WatchInv
<1> SUFFICES ASSUME Init PROVE OutputsInv /\ WatchInv
  OBVIOUS
<1>1. DOMAIN infos = {} /\ \A p \in Procs : proc[p].watchers = {} /\ proc[p].charge = {}
  BY DEF Init, Nothing, Down
<1>2. \A n \in Names : \A key : key \notin DOMAIN secrets[n] /\ Get(n, key) = None
  BY DEF Init, Nothing, Get
<1>3. RecordNamesInv
  BY <1>1, <1>2 DEF Init, RecordNamesInv
<1>4. TemplateInv /\ SavedInv
  BY <1>2, IdAssumption DEF TemplateInv, SavedInv
<1>5. ListedInv /\ ChargeInv
  BY <1>1 DEF ListedInv, ChargeInv, Charged
<1> QED BY <1>3, <1>4, <1>5 DEF OutputsInv, WatchInv

LEMMA OutputsStep ==
  ASSUME NamesApart
  PROVE  DeploymentsInv /\ OutputsInv /\ WatchInv /\ [Next]_vars
           => (DeploymentsInv /\ OutputsInv /\ WatchInv)'
<1> SUFFICES ASSUME DeploymentsInv, OutputsInv, WatchInv, [Next]_vars
             PROVE  DeploymentsInv' /\ OutputsInv' /\ WatchInv'
  OBVIOUS
<1> USE DEF DeploymentsInv, OutputsInv, WatchInv
<1>1. DeploymentsInv'
  BY DeploymentsStep
<1>2. RecordNamesInv' /\ TemplateInv' /\ SavedInv'
  BY RecordNamesKept, TemplateKept, SavedKept
<1>3. ListedInv' /\ ChargeInv'
  BY ListedKept, ChargeKept
<1> QED BY <1>1, <1>2, <1>3

(* Where no name is that of two applications or places, a record that is   *)
(* Ready has, if no call failed, the outputs of its template: each under   *)
(* its own name, of this version, and with no string for an output of      *)
(* another type (appstack.go:391-452), for all templates and histories.    *)
THEOREM OutputsAreSaved == ASSUME NamesApart PROVE Spec => []OutputsSaved
<1> DEFINE Inv == DeploymentsInv /\ OutputsInv /\ WatchInv
<1>1. Init => Inv
  BY DeploymentsInit, OutputsInit
<1>2. Inv /\ [Next]_vars => Inv'
  BY OutputsStep
<1>3. Inv => OutputsSaved
  <2> SUFFICES ASSUME Inv, NEW a \in Apps,
                      Status(SecretName(Here(a))) = "Ready", faults = 0,
                      Get(SecretName(Here(a)), "StackId") \in Ids,
                      NEW i \in Get(SecretName(Here(a)), "TemplateBody").outs,
                      ~(\E c \in Contexts : SecretName(c) = OutputSecretName(Here(a), i))
               PROVE  secrets[OutputSecretName(Here(a), i)]
                        = [Attr |-> Get(SecretName(Here(a)), "TemplateBody").version, List |-> ""]
    BY DEF OutputsSaved
  <2> DEFINE n == SecretName(Here(a))
  <2>1. n \in Names
    <3>1. CASE obj[a].state # "none"
      <4>1. obj[a].scope \in Scopes[a]
        BY <3>1 DEF DeploymentsInv, PlaceInv, AppsInv
      <4> QED BY <4>1, ContextFacts DEF Here, Modes
    <3>2. CASE obj[a].state = "none"
      <4>1. obj[a].scope = NoScope
        BY <3>2 DEF OutputsInv, RecordNamesInv
      <4>2. PICK s \in Scopes[a] : TRUE
        BY AppAssumption
      <4>3. n = SecretName(NewContext(a, s, "dry"))
        BY <4>1 DEF Here, NewContext, SecretName
      <4> QED BY <4>2, <4>3, ContextFacts DEF Modes
    <3> QED BY <3>1, <3>2
  <2>2. OutputSecretName(Here(a), i) = Append(n, i)
    BY DEF OutputSecretName
  <2> HIDE DEF n
  <2>3. ~RecordName(Append(n, i))
    BY <2>2 DEF RecordName
  <2> QED BY <2>1, <2>2, <2>3 DEF OutputsInv, SavedInv, Saved, n
<1> QED BY <1>1, <1>2, <1>3, PTL DEF Spec

(* Where no name is that of two applications or places, an application in  *)
(* the charge of the process that leads is watched there, by a client that *)
(* finds its stack, for all histories of edits, restarts and failures: the *)
(* ways out are those LeaderWatches names (main.go:131,                    *)
(* appstack.go:238-247, handlers/appconf.go:315).                          *)
THEOREM LeaderIsWatching == ASSUME NamesApart PROVE Spec => []LeaderWatches
<1> DEFINE Inv == DeploymentsInv /\ OutputsInv /\ WatchInv
<1>1. Init => Inv
  BY DeploymentsInit, OutputsInit
<1>2. Inv /\ [Next]_vars => Inv'
  BY OutputsStep
<1>3. Inv => LeaderWatches
  <2> SUFFICES ASSUME Inv, NEW p \in Procs, NEW n \in DOMAIN infos,
                      proc[p].mode = "real", n \in proc[p].charge,
                      Status(n) = "Progressing", Get(n, "StackId") \in Ids,
                      stack[Get(n, "StackId")].state # "deleted" \/ faults = 0,
                      ~obj[infos[n].app].moved
               PROVE  \E q \in Procs : \E w \in proc[q].watchers :
                        /\ w.id = Get(n, "StackId") /\ SecretName(w.ctx) = n
                        /\ w.ctx.client = stack[Get(n, "StackId")].place
    BY DEF LeaderWatches
  <2>1. n \in Names
    BY DEF DeploymentsInv, PlaceInv, InfosInv
  <2>2. Watched(p, n)
    BY <2>1 DEF WatchInv, ChargeInv, Charged
  <2> QED BY <2>2 DEF Watched
<1> QED BY <1>1, <1>2, <1>3, PTL DEF Spec
=============================================================================
