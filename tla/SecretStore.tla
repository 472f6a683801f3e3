---------------------------- MODULE SecretStore -----------------------------
(***************************************************************************)
(* pkg/k8s/secret.go: one Secret of the Kubernetes API server and the      *)
(* operations of Secret on it, at the granularity of single API calls.     *)
(* Every operation but GetData and DeleteData is a Get followed by a       *)
(* Create or an Update, and other goroutines run between the two.          *)
(*                                                                         *)
(* The API server (external): a Create fails when the object exists, an    *)
(* Update when it does not; an Update that carries a resourceVersion fails *)
(* with a conflict unless it is the object's, and one that carries none    *)
(* (SetData builds a new object, secret.go:156-168) overwrites whatever is *)
(* there.                                                                  *)
(***************************************************************************)
EXTENDS Integers

CONSTANTS
  Callers,   \* the goroutines that use the Secret
  Keys,      \* keys of its data
  Values,    \* values of its data
  NoValue,   \* marks a key the data does not have
  MaxRv      \* bound: resourceVersions the API server hands out

ASSUME SecretAssumption == NoValue \notin Values /\ MaxRv \in Nat

VARIABLES
  obj,     \* the object: exists, its resourceVersion and its data
  clock,   \* the last resourceVersion handed out
  pc,      \* pc[c]: the API call c makes next, "idle" between operations
  got,     \* got[c]: the object as c's last Get returned it
  req,     \* req[c]: the operation c has called
  ans      \* ans[c]: what the operation returned

vars == <<obj, clock, pc, got, req, ans>>

(* The promise of secret.go; also the home of the data types used here. *)
Atomic == INSTANCE AtomicSecret WITH
  content <- IF obj.exists THEN obj.data ELSE [k \in Keys |-> NoValue]

Data  == Atomic!Data
Empty == Atomic!Empty
Merge(old, new) == Atomic!Merge(old, new)

Objects == [exists : BOOLEAN, rv : Nat, data : Data]
NoObject == [exists |-> FALSE, rv |-> 0, data |-> Empty]
PCs == {"idle", "get", "updateGet", "updateCreate", "updateUpdate",
        "setGet", "setCreate", "setUpdate", "delete", "done"}

FirstCall(op) ==
  CASE op = "GetData"    -> "get"
    [] op = "UpdateData" -> "updateGet"
    [] op = "SetData"    -> "setGet"
    [] OTHER             -> "delete"

-----------------------------------------------------------------------------
Init ==
  /\ obj = NoObject
  /\ clock = 0
  /\ pc = [c \in Callers |-> "idle"]
  /\ got = [c \in Callers |-> NoObject]
  /\ req = [c \in Callers |-> Atomic!NoReq]
  /\ ans = [c \in Callers |-> Atomic!NoAns]

Call(c, r) ==
  /\ pc[c] = "idle"
  /\ r.op # "none"
  /\ req' = [req EXCEPT ![c] = r]
  /\ pc' = [pc EXCEPT ![c] = FirstCall(r.op)]
  /\ UNCHANGED <<obj, clock, got, ans>>

Finish(c, res, data) ==
  /\ pc' = [pc EXCEPT ![c] = "done"]
  /\ ans' = [ans EXCEPT ![c] = [res |-> res, data |-> data]]
  /\ UNCHANGED req

(* The API server stores data as a new version of the object.  The answer  *)
(* reaches the caller, or is lost and the caller sees an error.            *)
Store(c, data) ==
  /\ clock < MaxRv
  /\ clock' = clock + 1
  /\ obj' = [exists |-> TRUE, rv |-> clock + 1, data |-> data]
  /\ \E res \in {"ok", "err"} : Finish(c, res, Empty)
  /\ UNCHANGED got

(* A call the API server refuses, or that never reaches it. *)
Refused(c) ==
  /\ Finish(c, "err", Empty)
  /\ UNCHANGED <<obj, clock, got>>

Read(c, next) ==
  /\ got' = [got EXCEPT ![c] = obj]
  /\ pc' = [pc EXCEPT ![c] = next]
  /\ UNCHANGED <<obj, clock, req, ans>>

GetData(c) ==
  /\ pc[c] = "get"
  /\ Finish(c, "ok", IF obj.exists THEN obj.data ELSE Empty)
  /\ UNCHANGED <<obj, clock, got>>

UpdateGet(c) ==
  /\ pc[c] = "updateGet"
  /\ Read(c, IF obj.exists THEN "updateUpdate" ELSE "updateCreate")

UpdateCreate(c) ==
  /\ pc[c] = "updateCreate"
  /\ ~obj.exists
  /\ Store(c, req[c].data)

(* Variant: an Update without a resourceVersion, as in SetData. *)
UpdateUpdate_Unconditional(c) ==
  /\ pc[c] = "updateUpdate"
  /\ obj.exists
  /\ Store(c, Merge(got[c].data, req[c].data))

(* Variant: a conflict is answered by a retry under the current version    *)
(* with the data read before.                                              *)
UpdateUpdate_BlindRetry(c) ==
  /\ pc[c] = "updateUpdate"
  /\ obj.exists
  /\ \/ got[c].rv = obj.rv /\ Store(c, Merge(got[c].data, req[c].data))
     \/ /\ got' = [got EXCEPT ![c].rv = obj.rv]
        /\ UNCHANGED <<obj, clock, pc, req, ans>>

(* The object read by UpdateGet goes back with the keys of data replaced,  *)
(* under the resourceVersion it was read with.                             *)
UpdateUpdate(c) ==
  /\ pc[c] = "updateUpdate"
  /\ obj.exists /\ got[c].rv = obj.rv
  /\ Store(c, Merge(got[c].data, req[c].data))

SetGet(c) ==
  /\ pc[c] = "setGet"
  /\ Read(c, IF obj.exists THEN "setUpdate" ELSE "setCreate")

SetCreate(c) ==
  /\ pc[c] = "setCreate"
  /\ ~obj.exists
  /\ Store(c, req[c].data)

SetUpdate(c) ==
  /\ pc[c] = "setUpdate"
  /\ obj.exists
  /\ Store(c, req[c].data)

(* Variant: the caller of DeleteData learns that there was nothing. *)
DeleteData_NotFound(c) ==
  /\ pc[c] = "delete"
  /\ obj' = NoObject
  /\ Finish(c, IF obj.exists THEN "ok" ELSE "notFound", Empty)
  /\ UNCHANGED <<clock, got>>

(* Deleting what is not there is a success (secret.go:184-186). *)
DeleteData(c) ==
  /\ pc[c] = "delete"
  /\ obj' = NoObject
  /\ \E res \in {"ok", "err"} : Finish(c, res, Empty)
  /\ UNCHANGED <<clock, got>>

(* A conflict, an object that appeared or vanished, or a call that failed. *)
CallFails(c) ==
  /\ pc[c] \notin {"idle", "done"}
  /\ Refused(c)

Return(c) ==
  /\ pc[c] = "done"
  /\ pc' = [pc EXCEPT ![c] = "idle"]
  /\ got' = [got EXCEPT ![c] = NoObject]
  /\ req' = [req EXCEPT ![c] = Atomic!NoReq]
  /\ ans' = [ans EXCEPT ![c] = Atomic!NoAns]
  /\ UNCHANGED <<obj, clock>>

Step(c) ==
  \/ GetData(c)
  \/ UpdateGet(c) \/ UpdateCreate(c) \/ UpdateUpdate(c)
  \/ SetGet(c) \/ SetCreate(c) \/ SetUpdate(c)
  \/ DeleteData(c)
  \/ CallFails(c)

Next ==
  \E c \in Callers :
    \/ \E r \in [op : Atomic!Ops, data : Data] : Call(c, r)
    \/ Step(c)
    \/ Return(c)

Spec == Init /\ [][Next]_vars

-----------------------------------------------------------------------------
TypeOK ==
  /\ obj \in Objects
  /\ clock \in Nat
  /\ pc \in [Callers -> PCs]
  /\ got \in [Callers -> Objects]
  /\ req \in [Callers -> [op : Atomic!Ops, data : Data]]
  /\ ans \in [Callers -> [res : {"none", "ok", "err"}, data : Data]]

(* A caller that is about to write back what it read, under the version it *)
(* read, holds the very data of that version: the conditional Update of    *)
(* UpdateData (secret.go:141) can lose no key another caller wrote since   *)
(* its Get (secret.go:110).                                                *)
ReadIsCurrent ==
  \A c \in Callers :
    (pc[c] = "updateUpdate" /\ obj.exists /\ got[c].rv = obj.rv)
      => got[c].data = obj.data

(* Versions are never handed out twice, even across a deletion: what makes *)
(* ReadIsCurrent inductive.                                                *)
VersionsBounded ==
  /\ obj.rv <= clock
  /\ \A c \in Callers : got[c].rv <= clock

(* The program counter of a caller agrees with what it called and with     *)
(* what it has been answered.                                              *)
CallsMatch ==
  \A c \in Callers :
    /\ pc[c] = "idle" => req[c].op = "none" /\ ans[c].res = "none"
    /\ pc[c] = "done" => req[c].op # "none" /\ ans[c].res # "none"
    /\ pc[c] \notin {"idle", "done"} => ans[c].res = "none"
    /\ pc[c] = "get" => req[c].op = "GetData"
    /\ pc[c] \in {"updateGet", "updateCreate", "updateUpdate"}
         => req[c].op = "UpdateData"
    /\ pc[c] \in {"setGet", "setCreate", "setUpdate"} => req[c].op = "SetData"
    /\ pc[c] = "delete" => req[c].op = "DeleteData"

IInv == TypeOK /\ ReadIsCurrent /\ VersionsBounded /\ CallsMatch

(* Each operation appears to its callers to happen at one instant: the     *)
(* behaviour of the API calls implements AtomicSecret.                     *)
ImplementsAtomic == Atomic!ASpec
=============================================================================
