# A model of the ROS controller

TLA+ modules, TLC configurations and TLAPS proofs for `alibabacloud/ros`, the
controller that turns OAM ApplicationConfigurations (or RosStacks, with
`-ros-crd`) into stacks of Alibaba Cloud's Resource Orchestration Service (ROS).
Paths below are relative to `src/alibabacloud/ros`.

## 1. The system

| Component | Code | State | Operations |
|---|---|---|---|
| Secret store | `pkg/k8s/secret.go` | one Kubernetes Secret per name | `GetData`, `UpdateData`, `SetData`, `DeleteData` |
| Application records | `pkg/appstack/appstack.go` | a Secret per application (stack id, template, status, names of output Secrets), a Secret per component with outputs, and one Secret that lists the applications in Progressing | `SetIdAndTemplate`, `SetProgressing`, `SetReady`, `SetError`, `SaveOutputs`, `Delete`, `WaitUntilDone`, `GetStack`, `LoadProgressingAppStacks` |
| Event handlers | `pkg/handlers/appconf.go` | none that survives an event | `CreateOrUpdate`, `Delete`, the finalizer, `RecoverProgressingAppStacks` |
| Watchers | `waitStackDoneAndSaveOutputs` in `pkg/handlers/appconf.go` | a goroutine per started operation, in memory only | poll the stack, save outputs, write the outcome, drop the record |
| ROS stacks | `pkg/ros/stack.go`, `pkg/ros/errors.go` | stacks at the service | create, update, delete, refresh, wait; classification of statuses and errors |
| Application objects | `pkg/appconf/appconf.go` | the custom resource: specification, finalizer, status | get, update, update status |
| Context | `pkg/appconf/context.go`, `pkg/aliyun` | account, region, credentials | `NewContext` |
| Templates | `pkg/ros/template.go`, `pkg/component` | none | `NewTemplate` |
| Start | `cmd/ros/main.go`, `pkg/config` | flags | recover, then run for leader and start the reconciler |
| Generator | `cmd/auto-convert/gen.go` | files | workload types from ROS resource types |
| ROS API client | `pkg/rosapi` | a pool of goroutines, two or one channels per call | 33 operations, each synchronous, `WithChan`, `WithCallback` |
| Client set | `pkg/client/clientset` | none | typed requests on RosStacks |
| Declarations and the rest | `apis`, informers, listers, mocks, charts, examples | none | |

How they interact. The reconciler of oam-go-sdk delivers the events of all
applications to one worker goroutine; an event whose handler returns an error is
queued again. A handler reads and writes the application's record, calls ROS, and
leaves a watcher behind that polls the stack every few seconds and then writes the
outcome. Worker and watchers share the Secrets and the objects and hold no lock.
When the process starts, it reads the list of progressing applications and starts
a watcher for each before it handles events; it does so long before it is leader,
while another process may be working. The generator writes the workload types that
components are made of, and the controller reads their names back when it makes a
template.

What is hard about it: worker and watchers interleave between any two calls; the
state is spread over a record, a shared list, output Secrets, the object and the
stack, without transactions; a write may succeed and its answer be lost; the
process may end between any two calls; the service fails, rolls back and refuses
on its own; an operator changes stacks behind the controller's back; names are
used again; users change an object between the Get and the Update of a goroutine;
an application moves to another account or region; a process runs with `-dry-run`
among others that do not. `PROJECT.json` lists the hazards at their lines.

What makes each component correct:

* Secret store: an operation looks atomic to its callers; `UpdateData` loses no
  key of another caller.
* Records: a record's template was accepted for the record's stack; a record is
  not dropped while its stack lives; the list holds what is in Progressing.
* Handlers and watchers: no stack is forgotten; Ready is true when it is said;
  the object outlives its stack; a stack is deleted on request only; whoever is
  in Progressing is watched, and gets out of it; deletions complete; the last
  edit is deployed.
* Objects: what a goroutine writes back is its finalizer or its status and nothing
  that others changed; phase and record agree in the end; the finalizer goes.
* Contexts and names: an edit of the scope strands no stack in the place it points
  to; what is kept under a name stays what it is of.
* Templates and generator: schemas refuse nothing ROS accepts; what a template reads
  from another resource it waits for; no type is lost to throttling.
* API client: what one channel says the other does not contradict; every call ends,
  whether its caller receives or not.

## 2. The modules

| Module | Models |
|---|---|
| `AtomicSecret` | what callers rely on: one Secret that changes at one instant of each operation (abstract specification) |
| `SecretStore` | `secret.go`, one action per API call, resource versions included |
| `SecretStoreProofs` | theorems about `SecretStore` |
| `Domain` | the constants of the controller's modules |
| `RosService` | stacks at the service, the statuses and errors as `stack.go` and `errors.go` read them |
| `AppConfs` | the application objects, users, informer, finalizer and phase |
| `AppStack` | the records and the procedures of `appstack.go`, one action per call |
| `RosController` | handlers, watchers, recovery, crashes: the composition |
| `ControllerProperties` | properties and fairness |
| `ControllerInvariant` | the inductive invariant |
| `ControllerProofs` | theorems about `RosController`: types, templates; its steps as control flow |
| `DeletionProofs` | theorems about `RosController` across crashes and failures: what is deleted, forgotten and recovered, and when |
| `CalmInvariant` | the inductive invariant of a process that does not fail |
| `CalmProofs` | theorems about `RosController` in such a process |
| `LifeCycle` | what a user may rely on: operations on an application's stack that begin and end at an instant, one at a time (abstract specification) |
| `LifeCycleMapping` | how the state of `RosController` is read as one of `LifeCycle` |
| `LifeCycleProofs` | that `RosController` implements `LifeCycle` |
| `AtomicObject` | what users may rely on: one object whose finalizer and status change at an instant (abstract specification) |
| `Objects` | one object under Gets and conditional requests of worker, watchers and users |
| `ObjectsProofs` | theorems about `Objects` |
| `Contexts` | accounts, regions, credentials and names |
| `Deployments` | applications, output Secrets, processes, leaders and dry runs; composes `Contexts` |
| `DeploymentsInvariant` | its inductive invariant |
| `DeploymentsProofs` | theorems about `Deployments` |
| `Schemas`, `Generator` | `gen.go`: the JSON schema of a property; the tool |
| `Templates` | `NewTemplate` and its helpers |
| `Workloads` | from resource types to templates; composes `Generator` and `Templates` |
| `RosApi` | the API client's three ways of a call |
| `RosApiProofs` | theorems about `RosApi` |
| `MCSecretStore`, `MCRosController`, `MCDeployments`, `MCWorkloads` | instances for TLC |

**SecretStore.** `obj` is the Secret with its resourceVersion, `clock` the last
version handed out; `pc`, `got`, `req`, `ans` are a caller's place, the object its
Get returned, its request and the answer. `UpdateGet`/`UpdateCreate`/`UpdateUpdate`
are the calls of `UpdateData` (lines 110, 132, 141), `SetGet`/`SetCreate`/`SetUpdate`
those of `SetData` (149, 171, 173), where the Update carries no version. Any call may
fail, and any write may happen although its caller sees an error.

**RosController.** `rec[a]` is the application's Secret; a missing key is `None`.
`infos` is the list, `outsec` the applications with an output Secret, `conf[a]` the
object, `due` the workqueue, `stack[i]` a stack at the service. `accepted[i]` is a
history variable, the templates ROS accepted for stack `i`. `proc[p]` is the local
state of a goroutine: the worker, or a watcher slot. `pc` names the call it makes
next; `snap` and `list` hold what it read and will write back; `task`, `ok`, `fail`
say which procedure of `AppStack` it is in and where that continues.

* `Dispatch` is `Handle`. Actions `Cu...` are `CreateOrUpdate` and `Del...` are
  `Delete`, in source order; `Load` and `Recover` are the recovery; `Poll` and the
  actions `W...` are `waitStackDoneAndSaveOutputs`.
* A procedure of `AppStack` begins with its first read (`Begin`) and goes through
  `SetWrite`, `ListAdd` or `ListRead`/`ListWrite`, and `Condition`; `Delete` goes
  through `DropOutputs`, `DropRecord`, `ListRead`, `ListWrite`. What was read by
  `Begin` is written back by `SetWrite` as in `AppStack.set`.
* An Update that carries a resourceVersion is one step with its Get; `Conflict(p)` is
  its refusal, when somebody has written the object or the Secret since `p`'s last
  call. `overtaken` is the history that says so, of the list, the records and the
  objects. A conflict is no failure: it counts towards no bound and happens in every run.
* `abandoned` is the history of one consequence: the applications whose deletion left
  the record in Progressing without a watcher, because the list or the status could not
  be written in `SetProgressing` (`appconf.go:222-225`).
* Each call may fail without effect (`CallFails`, `ProcedureFails`) or take effect
  and lose its answer (`Written`, and the second disjuncts of the ROS calls).
* `Crash` loses every goroutine; `Panic` is `Refresh` on the nil stack a recovered
  watcher may have been given.

**LifeCycle.** `object[a]` is held or not, `book[a]` is the record, `stacks[i]` is new,
busy, good, bad, leaving or gone. `CreateStack`, `UpdateStack` and `DeleteStack` begin an
operation, in one step where the handlers of `appconf.go` need a request to ROS and two
or three writes; `Succeed`, `Fail` and `Forget` end it, where the watcher saves outputs,
writes the status, the list and the condition. `LifeCycleMapping` lets an operation begin
with its request: what the worker has in its hand from there to the status Progressing
(`MidFlight`) counts as recorded. The lists, the outputs, the queue and the goroutines do
not show.

**Objects.** The same handlers and watchers as in `RosController`, seen from the
object: what they do to it and to the status of the record, with everything else left
to chance. `object` and `version` are what the API server has, `task[p].conf` and
`.version` what goroutine `p` got. `AddGet`/`AddPut` are `addCleanUpFinalizer`,
`RemoveGet`/`RemovePut` `removeCleanUpFinalizer`, `StatusGet`/`StatusPut`
`maybeSetAppCondition`; the actions `...Conflict` are the answer to an old version, and
`Follows` is what the caller makes of it. `AtomicObject` is the same object with each
of these as one step or refused; that is what lets `RosController` do so.

**Deployments.** Where `RosController` has one action per call, `Deployments` has one
per handler and per end of a watcher, and in exchange several processes, accounts and
applications whose names clash. `secrets` is the content of every Secret by name, a
name being the sequence of its parts between dashes; `proc[p].watchers` are contexts
and stack ids as a watcher holds them; `Cu...`, `Del...` and `W...` are named as in
`RosController`. A deletion of the record may fail before it, at an output's Secret or
the record itself, or after it, at the list (`WDeleted`). `Boot` is `main` up to the recovery, `Lead` the election.

**Workloads.** `Generator` is the tool, one action per answer of ROS; `Schemas` its
recursion over properties, with `RosAccepts` and `JsonAccepts` the meaning of a
description on either side. `Templates` is `NewTemplate` as operators of the
application's components. `Workloads` runs the tool, then lets a user write an
application of what it wrote.

**RosApi.** Every operation is an action of its own that goes through `Call`, as every
file of `pkg/rosapi` has the same three functions. A channel is its buffer and whether
it is open; `Take` is the pool, `Put`, `CloseErr`, `CloseResponse`, `Callback`,
`Result`, `CloseResult` are the statements of a task in the order they run (deferred
closes last one first), and `Refuse` is a task the pool does not take.

**How the levels fit.** `AppStack` uses `UpdateData`, `SetData` and `DeleteData`
as single steps. That is justified by `SecretStore => AtomicSecret`, checked by TLC
and proved. One Secret per application, one list and the output Secrets are
instances of that component that do not share state. `AppConfs` changes an object in
one step, or is refused; `Objects => AtomicObject` justifies that, and it says what a
conflict on the object leaves behind.

### Abstractions

* The worker reads the object when it takes the event (`Dispatch`); the informer's
  cache may lag behind, which is covered by the later event of the newer version.
* A template is a model value; the specification is one too, or `BadSpec`, which
  `NewTemplate` refuses. Two specifications with one template are not told apart.
* In `RosController` an application has at most one output Secret, and names are its
  own; contents and names are in `Deployments`. The texts and times of conditions are
  left out (in `Objects` a time is a change of version).
* In `RosController` a conflict needs a write since the goroutine's last call; versions
  themselves are in `SecretStore` and `Objects`.
* In `Deployments` handlers are atomic and a stack is busy, ok, failed, deleting or
  deleted; what interleaves there are processes, watchers, users and the service.
* Contexts from an access key and from an STS token are the same client.
* An application is its name. Two of one name in different namespaces share a record
  (`appstack.go:266` leaves the namespace out) and are one application here.
* In templates, a value is where it comes from; in schemas, descriptions, defaults,
  patterns and enumerations are left out.
* Requests and responses of the API client are one value each, or an error.
* `DelWait`: `AppStack.WaitUntilDone` returns `""` when the status has vanished (the
  inner `status` is another variable), never `Deleted`; the early return of `Delete`
  (`appconf.go:187-189`) is therefore never taken and not modelled.

## 3. The runs

| Run | Configuration | Shows |
|---|---|---|
| `secret_store` | 2 callers, 2 keys, 1 value, 4 versions | `TypeOK`, `ReadIsCurrent`, `ImplementsAtomic` |
| `quiet` | no fault, rollbacks and refusals, resync, 3 edits, 3 watchers | `ReadyMeansDeployed`, `FinalizerGuards`, `WatchedOnce`, `ImplementsLifeCycle` |
| `operator` | two applications, an operator checks and deletes stacks, `-update-app`, 3 edits | `TypeOK`, `StackKnown`, `ProgressingWatched`, `NothingOverwritten` |
| `faulty` | one crash, one failed call, deletions refused or failed, updates refused, no outputs, 3 edits | `TemplateAccepted`, `ListedRecovered`, `PanicsOnlyForDeleted`, `RecordOutlivesStack`, `DeleteOnlyOnRequest` |
| `live` | fair; rollbacks, creates and updates refused for ever, resync, 2 edits | `ProgressingEnds`, `DeletionCompletes`, `LastEditDeployed` |
| `objects` | worker, 2 watchers, users at any time | `TypeOK`, `PhaseSettles`, `ImplementsAtomic`, `RemovalCompletes` |
| `deployments` | applications `web` and `web-db`, 2 processes, edits of scope (none, another account, the configured account) and template, a dry run, one failed write | `TypeOK`, `OutputsSaved`, `OneStackPerPlace`, `GoneFromHere`, `LeaderWatches`, `RecordsKept` |
| `workloads` | 3 resource types and one unknown, every application of up to 2 components | `UsableWorkloads`, `AllGenerated`, `DanglingOnlyToSkipped`, `ReadsAreDependencies`, `NothingRefused`, `GeneratorEnds` |
| `ros_api` | 2 calls, 33 operations, a pool of 1 goroutine with room for 1 task | `TypeOK`, `NilErrorMeansResponse`, `CallbackOnce`, `EveryCallEnds` |

Three more runs end in a violation of what a comment or a document says, each with
a finding in `PROJECT.json`:

| Run | Property | What the code does |
|---|---|---|
| `listed` | `ProgressingListed` | the list of progressing applications loses one to another goroutine's write |
| `stuck` | `WaitEnds` | a conflict in the `SetProgressing` of a deletion, and the worker waits for a watcher that nobody started |
| `reused` | `GoneMeansDeleted` | a late watcher removes the finalizer of a new object of the same name |

`stuck` is the one to read first. `SetProgressing` writes the status, then the list
(`UpdateData`: a Get, and an Update with its version), then the condition
(`UpdateStatus`, likewise). While the worker deletes one application, a watcher of
this or another one may be about to take its own off the list, or a user edits the
object: the Update is refused, `Delete` returns the error, and its event is handled again,
finds Progressing and waits. `CreateOrUpdate` does not have the problem: it starts the
watcher and returns the error after it. So `ProgressingWatched`, `ProgressingEnds` and
`DeletionCompletes` name `abandoned` as their one exception, and `ProgressingWatched`
says that no other conflict, anywhere, leaves an application in Progressing.

More of what these properties say fails in other environments. `GoneMeansDeleted` also
fails when ROS fails to delete a stack (`appconf.go:314` takes `DELETE_FAILED` for
deleted) and when the answer of `CreateStack` is lost or the process ends before
`SetIdAndTemplate`: set `Moves <- TroubledMoves`, `MaxFaults = 1` or `MaxCrashes = 1` in
`Reused.cfg`, with `ReuseNames = FALSE`. A process with `-dry-run` leaves records and list
entries of stacks that do not exist, and the next one panics on them at every start
(`stack.go:209`; `WPanic`, `CuPanic` and `DelPanic` of `Deployments` in a process of mode
"real"), although `main.go:80` says "DRY RUN MODE will not affect any real resource!".

Bounds. `MaxEdits` bounds what users do; three are a creation, an edit and a
deletion, in any order, which is every transition of the object's life. `Ids` are two
stacks: one, and one created after or beside it. `Watchers` are slots; a handler
that finds none waits, so the bound restricts how many operations overlap. Three slots
suffice for three overlapping operations in `quiet`; elsewhere the
second slot already gives two watchers, of one application or of two. `MaxFaults` and
`MaxCrashes` are 0 or 1: one failure at any place. `MaxRv` bounds versions of a
Secret. Watchers and stack ids are interchangeable in the safety runs (SYMMETRY); the
liveness runs do without. Deadlock is not checked: when users have done their edits
and nothing is due, the controller is meant to be at rest.

In `Objects`, `MaxChanges` bounds the changes by users, the requests to ROS and the
times written anew, six in all: creation, deployment, edit, deletion and two more, so
that both watchers and the worker hold old versions. In `Deployments` two processes
are a rollout, two boots let the second start before, during or after the first
leads, one edit moves the application, changes its template, or is the operator's, and
two stacks are the one left behind and the new one. The failed write comes before the
second start, so that a process recovers from it; without this bound, and with edits that
change scope and template at once, the run passes too, in twice the time. Of the three scopes of `web`, one
names the account and region of the configuration: without a scope the record is
`web`, with this one `cn-hangzhou-main-web`, and the place is the same. The output of `web` is named `db`,
which is how its Secret gets the name of the record of `web-db`. In `Workloads` the
catalogue has a property of each form the schema recursion tells apart (constrained
twice, a list, a map in a map, without a type), a type whose property the tool does
not know, and instances may share a name. Two calls and a pool with one place and room
for one waiting task let a call run, wait, wait for room, or be refused.

Which property holds where. With one crash or one failed call `StackKnown`,
`ReadyMeansDeployed`, `FinalizerGuards` and `ProgressingWatched` are violated, because
the code has no way to repair what it finds after a restart (the shortest trace is a
crash inside `SetProgressing`, after the status and before the list). That is why they
are stated for a process that does not fail, and why `TemplateAccepted`,
`RecordOutlivesStack` and `DeleteOnlyOnRequest`, which do survive faults, are checked
with them. `WatchedOnce` and `NothingOverwritten` belong to the first group: they say
why code without locks gets away with it as long as nothing fails.
`ListedRecovered` is what is left of `ProgressingWatched` after a crash. An operator at
the console violates `ReadyMeansDeployed` and `FinalizerGuards` by intent. Conflicts
happen in all of them.

`PanicsOnlyForDeleted` is what is left of the nil stack of `appconf.go:249`: a crash, a
failed call or a conflict at any step may leave an entry of the list without a stack in
its record, and the recovery panics, but only for an application that a user has deleted.
It fails when a name is used again, or a stack is deleted at the console.

`OneStackPerPlace` and `GoneFromHere` allow what an edit of the scope does do: a second
stack in another account or region, and, because the record's name has the account only
if there is a scope (`appstack.go:267`), one under the other name of a place in the
configured account. In `deployments` both happen; that nothing else does is the property.

Two premises of `ListedRecovered` stand for things the runs do show. An application
may be in Progressing without a stack: after a recovery the watcher of a deletion may
drop the record while `Delete` is between the read and the write of `SetProgressing`.
And when one listed object is gone, as after a deletion that failed and was asked for
again, the recovery loads nothing at all. `LeaderWatches` names the premises of the
same kind for several processes, each with its line.

The edit of an application in Progressing is dropped (`appconf.go:67-70`), and only
the informer's resync brings it back: `LastEditDeployed` fails without `Resync`. An
application that keeps failing is outside of it: a stack that rolled back is sent its
old template again, ROS answers that it is the same, and it stays Failed.

Names of output Secrets are not promised to be complete: `SaveOutputs` writes only the
names it saved this time, so that a failed write leaves a Secret nobody deletes.
`OutputsSaved` looks at runs without failed writes.

What the workloads show beside their properties: `-r` is never rejected
(`gen.go:72` starts with the type taken for existing); a bound of 0 is lost in JSON,
which widens a schema; a component that replaces another of its instance name leaves
the outputs of the one it replaced.

Fairness (`ControllerProperties!Fairness`): weak for each goroutine (the Go scheduler
runs it, and every call returns); strong for each application's event, since the
workqueue is first-in first-out and the worker takes every event in turn; weak for
each stack that is in progress (ROS ends what it begins, within the 60 minutes of
`TimeoutInMinutes`); weak for the informer's resync. Users, crashes and faults have
none.

`Objects` has weak fairness of the worker and of each goroutine, and none of users.
`Generator` has it of the tool's own steps, and strong fairness of an answer that is
not a refusal to be called so often: ROS does not throttle for ever; without it the
recursion of `gen.go:115` has no bound. `RosApi` has weak fairness of the pool and of
each goroutine, whose call the SDK ends by its timeouts at the latest; callers need
not receive, nor call.

## 4. The proofs

`SecretStoreProofs` proves for any callers, keys, values and versions:

* `TypeCorrect`, `UpdateReadsCurrent`: the invariant is `IInv` of `SecretStore`. A
  version is never handed out twice, so a caller that holds the current version holds
  the current data; without `VersionsBounded` the property is not inductive, since an
  old version could come back after a deletion.
* `Refinement`: each call maps to a step of `AtomicSecret` or to none. The instant of
  `UpdateData` is its Create or Update, and `UpdateReadsCurrent` is what makes the
  merged copy the merge with the current content.

`ControllerProofs` proves for any applications, templates, stacks, watchers, moves and
refusals of the service, edits, faults and crashes:

* `TypeCorrect`.
* `TemplatesAccepted`: a record names a stack of its own application and a template
  accepted for that stack. Not inductive by itself: records are written from copies
  that goroutines took earlier. `IInv` (module `ControllerInvariant`) says what every
  goroutine knows at each of its places (`Knows`): the copy it will write back is a
  pair itself, and between the answer of ROS and `SetIdAndTemplate` its template is
  one that was accepted for its stack id. Pairs stay pairs (`KnowsStable`) because
  stacks keep their owner and accepted templates are only added (`Evolves`).

The proof of `IInv` looks at each step four times: what it does to the service
(`NextRos`), to the objects (`NextConf`), to the goroutines (`NextProcs`) and to the
Secrets (`NextStore`).

The second part of the module says once for all what a step is as control flow (`Flow`):
which goroutine goes from which place to which, what it takes along, how the record, the
list and the service change with it. The proofs below look at these relations and not at
the actions again.

`DeletionProofs` proves, for any crashes, failed calls and sizes, when names are not used
again (`~ReuseNames`) and nobody deletes stacks at the console (`NobodyElseDeletes`: no
move of the service starts a deletion):

* `DeletedOnRequest`. The strengthening `OnRequest` says that between the event and the
  request to ROS the worker is at work on an object that is marked for deletion or gone.
  `GoingStays` says that such an object never comes back, and `Knows` that the id in its
  hand is of a stack of that application.
* `PanicsAreForDeleted` (`PanicsOnlyForDeleted`). `BackedInv` says that what is in the
  list, in a copy of it, or about to be added has a stack in its record or is on its way
  out; `Straight` that the places from where an application is handed to a watcher are
  reached along one way only, with an id in hand.
* `RecordsOutliveStacks` (`RecordOutlivesStack`). `DeletionInv` adds that the
  application of a stack in deletion is `Retired`: on its way out, and not in
  `CreateOrUpdate`. `RecordInv` counts the stacks an application has ever been given:
  until one is seen deleted or vanished there is only one it could have in its record or
  in the hand of a goroutine, so whoever drops the record has asked about that stack.
* `ListedAreRecovered` (`ListedRecovered`), for any number of crashes at any step as long
  as no call fails. `RecoveryInv` is about an application that is `Unwatched`: it is in
  Progressing with a stack whose end nobody will record. A crash leaves such applications
  behind, of two kinds: those the list held are still to be recovered (`Pending`), the
  others are in no list, nor in one that a goroutine is about to write (`Listing`), and
  never come to be, because only who watches an application adds it (`AllRecovered`; that
  the adder watches the stack of the record is `RecordInv`). The other branch,
  `NoneRecovered`, is the recovery that gives up on one object that is gone
  (`appconf.go:237-240`): that object stays in the list until the next process, so the
  property's premise stays false. `OnCourse` is what a goroutine relies on while no call
  fails: the writer of Progressing goes on to the list, the condition and the watcher.

Without either hypothesis TLC violates `DeleteOnlyOnRequest`, `RecordOutlivesStack` and
`PanicsOnlyForDeleted`. For the second, it is the late watcher of a
stack that is deleted, on request or by an operator: after a failed call it may drop the
record in which the worker has just written the next stack of that name.

`CalmProofs` proves what holds while the process itself does not fail (`Calm`:
`MaxFaults = 0`, `MaxCrashes = 0`, and ROS deletes what it is asked to), with all
conflicts between goroutines and users, for any number
of applications, goroutines and edits, refusals and roll-backs of ROS, and operators
who check and delete stacks at the console:

* `StacksKnown`, `ProgressingIsWatched`, `OneWatcherEach`, `NoUpdateLost`, from `CalmInv`. Its idea is that of a lock the code does not have: the
  status Progressing in the record. A goroutine is `InCharge` of an application from the
  write of Progressing to the write of the outcome or the end of the record; there is
  one exactly while the record says so (`SomeoneInCharge`, `OneInCharge`), and the
  worker `Claims` an application only after it has seen that it is not in Progressing.
  So nobody else writes a record that someone is about to write back, which is
  `NoUpdateLost`. Who is in charge meets conflicts and stays in charge, but for the
  worker that abandons a deletion; an application it abandons has nobody, for good.
  `Aware` says what each goroutine knows of its record and stack, and
  `StacksHeld` that a stack is in a record or in the worker's hand.
* `FinalizersGuard` (also `~ReuseNames` and `NobodyElseDeletes`). `GuardInv` adds that
  whoever is about to remove a finalizer does it for an application without a stack,
  and whoever is about to create one has seen the finalizer written. The application
  cannot get a new stack meanwhile, because it is `Retired`.
* `ReadyIsDeployed` (also `NoConsole`: the moves are the service's own). `ReadyInv` adds
  that the stack in someone's charge has the template of the record, or has rolled back
  and cannot complete any more.

The hypotheses restrict the environment only, never what the code does in it, and they
are needed. In the instance of `quiet` with two watchers, `MaxCrashes = 1` or
`MaxFaults = 1` makes TLC violate each of the six properties, `TroubledMoves` (a
deletion that fails) each but `ReadyMeansDeployed`; `ReuseNames` (with 4 edits) and
`OperatorMoves` violate `FinalizerGuards`, and `OperatorMoves` violates
`ReadyMeansDeployed`.

`LifeCycleProofs` proves under the hypotheses of `CalmProofs` (`Calm`, `NoConsole`,
`~ReuseNames`), for any number of applications, goroutines, stacks and edits:

* `LifeCycleImplemented` (`ImplementsLifeCycle`). The steps of `RosController` fall into
  those that do not show (`Stutters`), the finalizer's (`FinalizerStep`), the requests to
  ROS (`RequestStep`), the writes of a record (`WriteStep`), and those of users and the
  service (`UserLife`, `ServiceLife`); each maps to a step of `LifeCycle` or to none. The
  guards of the abstract step are the point: when the worker sends a request, no
  operation is under way although it looked at the status several calls ago, and when a
  watcher writes an outcome, the record is still that of the stack it watched.
* `LifeReliable` (`LifeIsReliable`): a stack that exists is the one in its application's
  record and work on it shows as Progressing; a record with a stack holds its object;
  Ready means deployed, template and all.

The invariants of `CalmProofs` do not suffice for it. `LifeInv` adds what a goroutine may
still rely on when it acts: the stack of a record at rest has come to an end of its
operation; a stack that was seen to fail has failed; who is about to release an object
has seen its record dropped, and the worker does not make another one meanwhile.

`ObjectsProofs` proves for any goroutines, specifications and bound:

* `TypeCorrect`, from `IInv`: `ReadsFresh`, which says that a goroutine holding the
  current version holds the current object, because a version is never given twice.
* `Refinement`: a Get is a stutter of `AtomicObject`, and a request that is not refused
  changes the finalizer or the status of the object as it is, by `ReadsFresh`.
* `PhasesAgree` (`PhaseSettles`): the strengthening `PhasePending` says that the last
  write of a status, when it runs alone, is about to write the record's phase.

`RosApiProofs` proves for any set of calls, size of the pool and length of the queue:

* `TypeCorrect`, `NilErrorIsResponse`, `CallbackCalledOnce`. Its `IInv` says for each
  call at which of five stages it is (`Asked`, `Waited`, `TwoChannels`,
  `WithCallback`, `RefusedCall`) and, with it, what each of its channels holds: nothing,
  or the value sent, in the buffer or with the caller (`Delivered`). `QueueOK` and
  `PoolOK` say who waits and who runs. A step of a goroutine is about one call
  (`StepOK`), so that each needs to be looked at for that call only.

`DeploymentsProofs` proves for any applications, scopes, credentials, templates,
processes and bounds, dry runs, crashes and failed writes included:

* `ListLeadsBack` (`TypeOK`), without any hypothesis: the list, the records and the
  watchers name each other consistently (`PlaceInv`), although an entry of the list is
  read long after it was written, under another scope.
* `RecordsStay` (`RecordsKept`), if no application is named for the record of another
  (`NamesApart`). `RecordedInv` says that the record of a stack that is there has its id.
* `StacksApart` (`OneStackPerPlace`) and `GoneLeavesNoStack` (`GoneFromHere`), under
  `NamesApart`, for scopes of any account. `NamesOfPlace` says that a place has at most
  two record names for an application, with a scope and without; `OneOfName` that ROS has
  one stack of a name in a place, `StayedInv` that the stack of an application that did
  not move has the name it would get today, `FinalizerInv` that its object has the
  finalizer.
* `OutputsAreSaved` (`OutputsSaved`), under `NamesApart`. `SavedInv` is not inductive
  alone: the watcher writes the outputs of the template its stack has, the property
  reads the template in the record, and `TemplateInv` says that they are the same, since
  a live stack of this name is the one recorded. A record is overwritten by its own
  worker or watcher, or by an output of its name, which takes its stack id away; the
  outputs of another record are none of its own, since a name with one part more is that
  of one name only (`OutputsApart`).
* `LeaderIsWatching` (`LeaderWatches`), under `NamesApart`. `ChargeInv` says it of each
  process, leading or not. The one step that may violate it is a start: the recovery
  takes account and region from the list and the client from the scope of today. With
  `ListedInv` (a listed record with a stack is one that its application chose, outside
  of dry runs) and `StayedInv` the two agree for what did not move.

`NamesApart` is about names that users choose, and the dashes between parts make them
collide: an application `cn-beijing-7-web` without a scope has the record of `web` in
account 7 and region `cn-beijing`, and `OneStackPerPlace`, `GoneFromHere` and
`RecordsKept` are violated. The names of output Secrets may collide all the same; the properties say what
happens then (`Clash`). What a step does is said once for objects, stacks,
records, the list and processes (`ObjectStep`, `StackStep`, `SecretStep`, `ListStep`,
`ProcStep`), and once for what it does to several of them at a time (`StepKinds`: a
worker starts an operation with its record, its list entry and its watcher, or a record
fails, is Ready or goes, or only processes change); every part of the invariant follows
from these.

Assumptions are the named ASSUMEs of the modules: `DomainAssumption`
(model values are distinct), `AppConfAssumption`, `RosAssumption` (moves are among
those listed), `FaultAssumption`, `CrashAssumption`, `SecretAssumption`, `ObjectsAssumption`,
`PoolAssumption`, `RecordAssumption`, `IdAssumption` (model values are distinct) and
`AppAssumption` (an application's name is a sequence of parts, and there is a scope to
choose, be it none). TLC
checked `IInv` itself on the instances of `quiet` and `operator` and with a crash and a
failed call, `OnRequest`, `DeletionInv`, `BackedInv` and `RecordInv` on that of `faulty`, `RecoveryInv` on
that of `faulty` and with two applications and a crash (where `NoneRecovered` occurs), `CalmInv` on
`quiet`, `operator` and with names used again, `GuardInv`, `ReadyInv` and `LifeInv` on `quiet`,
`DeploymentsInv`, `OutputsInv` and `WatchInv` with their hypotheses on `deployments`, and the invariants of `Objects` and
`RosApi` on those of their runs.

Only model-checked: the liveness properties (`ProgressingEnds`, `DeletionCompletes`,
`LastEditDeployed`, `RemovalCompletes`, `GeneratorEnds`, `EveryCallEnds`: fairness and
ENABLED are beyond the prover), and `Workloads`, whose schemas are RECURSIVE operators,
which no module with a theorem may reach.

## 5. Not modelled, and the plan

Not modelled: informers, listers, fakes and mocks (generated, and unused by the
controller or used by tests only); the requests of the client set that the controller
does not make; the CRD types (declarations and deep copies); charts, examples and
workload files; flags other than `-update-app`, `-dry-run`, `-region-id` and the
credentials (with `-ros-crd` the object is a RosStack, which changes none of what is
modelled); logging and metrics; the ROS SDK, the reconciler of oam-go-sdk and
the API server, except for what their callers see of them.

What is left: `Aware` without `Calm`, that is what a goroutine still knows of its record
and stack after a failed call, and with it what of `ListedRecovered` survives one.
