------------------------------ MODULE AppConfs ------------------------------
(***************************************************************************)
(* The ApplicationConfigurations (RosStacks, with -ros-crd) of the cluster *)
(* and the events about them.  Users, the API server and oam-go-sdk's      *)
(* single reconcile worker are external; the finalizer and the status are  *)
(* written by pkg/handlers and pkg/appconf.                                *)
(***************************************************************************)
EXTENDS Domain, Integers

CONSTANTS
  UpdateApp,   \* the -update-app flag: write the phase into the object
  Resync,      \* whether the informer re-delivers every object
  ReuseNames,  \* whether users create an application under a name used before
  MaxEdits     \* bound: what users do (create, edit, delete)

ASSUME AppConfAssumption ==
  /\ {UpdateApp, Resync, ReuseNames} \subseteq BOOLEAN
  /\ MaxEdits \in Nat

VARIABLES
  conf,    \* conf[a]: state, finalizer, specification and status phase
  due,     \* the reconcile queue: applications with an undelivered event
  edits    \* what users have done so far

confVars == <<conf, due, edits>>

Phases == {"None", "Progressing", "Ready", "Failed"}
Confs == [state : {"absent", "live", "deleting", "gone"}, fin : BOOLEAN,
          spec : Specs \cup {None}, phase : Phases]
NoConf == [state |-> "absent", fin |-> FALSE, spec |-> None, phase |-> "None"]
GoneConf == [NoConf EXCEPT !.state = "gone"]

ConfTypeOK ==
  /\ conf \in [Apps -> Confs]
  /\ due \subseteq Apps
  /\ edits \in 0..MaxEdits

ConfInit ==
  /\ conf = [a \in Apps |-> NoConf]
  /\ due = {}
  /\ edits = 0

Present(a) == conf[a].state \in {"live", "deleting"}

(* The object of a changes into c; a change is an event. *)
Change(a, c) ==
  /\ conf' = [conf EXCEPT ![a] = c]
  /\ due' = IF c = conf[a] THEN due ELSE due \cup {a}

-----------------------------------------------------------------------------
UserDoes(a, c) ==
  /\ edits < MaxEdits
  /\ edits' = edits + 1
  /\ Change(a, c)

UserCreates(a) ==
  /\ conf[a].state = "absent" \/ (ReuseNames /\ conf[a].state = "gone")
  /\ \E t \in Specs : UserDoes(a, [NoConf EXCEPT !.state = "live", !.spec = t])

UserEdits(a) ==
  /\ Present(a)
  /\ \E t \in Specs \ {conf[a].spec} : UserDoes(a, [conf[a] EXCEPT !.spec = t])

(* An object with a finalizer stays, marked for deletion. *)
UserDeletes(a) ==
  /\ conf[a].state = "live"
  /\ UserDoes(a, IF conf[a].fin THEN [conf[a] EXCEPT !.state = "deleting"]
                                ELSE GoneConf)

InformerResyncs ==
  /\ Resync
  /\ due' = due \cup {a \in Apps : Present(a)}
  /\ UNCHANGED <<conf, edits>>
-----------------------------------------------------------------------------
(* addCleanUpFinalizer: a Get and an Update under its resourceVersion      *)
(* (refused: RosController!Conflict).                                      *)
AddCleanUpFinalizer(a) ==
  /\ Present(a)
  /\ Change(a, [conf[a] EXCEPT !.fin = TRUE])
  /\ UNCHANGED edits

(* removeCleanUpFinalizer: an absent object is a success, and an object    *)
(* marked for deletion goes with its last finalizer.                       *)
RemoveCleanUpFinalizer(a) ==
  /\ Change(a, CASE conf[a].state = "live"     -> [conf[a] EXCEPT !.fin = FALSE]
                 [] conf[a].state = "deleting" -> GoneConf
                 [] OTHER                      -> conf[a])
  /\ UNCHANGED edits

(* maybeSetAppCondition and UpdateStatus, for an object that may be gone;  *)
(* the new LastUpdateTime alone makes it a change.                         *)
SetAppCondition(a, phase) ==
  /\ conf' = [conf EXCEPT ![a].phase = IF Present(a) THEN phase ELSE @]
  /\ due' = IF Present(a) THEN due \cup {a} ELSE due
  /\ UNCHANGED edits
=============================================================================
