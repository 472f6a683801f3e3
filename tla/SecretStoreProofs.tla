------------------------- MODULE SecretStoreProofs --------------------------
(***************************************************************************)
(* The invariant of SecretStore, and that its API calls implement the      *)
(* operations of AtomicSecret, for any number of callers, keys, values and *)
(* versions.                                                               *)
(***************************************************************************)
EXTENDS SecretStore, TLAPS

USE SecretAssumption

(* The data a Secret ends up with, when it is merged from data or read as  *)
(* empty (secret.go:94-103, 134-140), is data again.                       *)
LEMMA DataClosed ==
  /\ Empty \in Data
  /\ \A old, new \in Data : Merge(old, new) \in Data
  BY DEF Empty, Data, Merge, Atomic!Empty, Atomic!Data, Atomic!Merge

LEMMA InitInv == Init => IInv
  <1> SUFFICES ASSUME Init PROVE IInv
    OBVIOUS
  <1>1. TypeOK
    BY DataClosed DEF Init, TypeOK, Objects, NoObject, PCs, Atomic!NoReq,
       Atomic!NoAns, Atomic!Ops, Empty, Data
  <1>2. ReadIsCurrent /\ VersionsBounded /\ CallsMatch
    BY DEF Init, ReadIsCurrent, VersionsBounded, CallsMatch, NoObject,
       Atomic!NoReq, Atomic!NoAns
  <1> QED BY <1>1, <1>2 DEF IInv

(* What each API call does to the caller that makes it, and to the object. *)
LEMMA NextTypeOK == TypeOK /\ [Next]_vars => TypeOK'
  <1> SUFFICES ASSUME TypeOK, [Next]_vars PROVE TypeOK'
    OBVIOUS
  <1> USE DataClosed
  <1>1. ASSUME NEW c \in Callers, NEW r \in [op : Atomic!Ops, data : Data], Call(c, r)
        PROVE  TypeOK'
    BY <1>1 DEF Call, FirstCall, TypeOK, PCs
  <1>2. ASSUME NEW c \in Callers, NEW data \in Data, Store(c, data)
        PROVE  TypeOK'
    BY <1>2 DEF Store, Finish, TypeOK, PCs, Objects
  <1>3. ASSUME NEW c \in Callers, GetData(c)
        PROVE  TypeOK'
    BY <1>3 DEF GetData, Finish, TypeOK, PCs, Objects
  <1>4. ASSUME NEW c \in Callers, UpdateGet(c) \/ SetGet(c)
        PROVE  TypeOK'
    BY <1>4 DEF UpdateGet, SetGet, Read, TypeOK, PCs
  <1>5. ASSUME NEW c \in Callers,
               UpdateCreate(c) \/ UpdateUpdate(c) \/ SetCreate(c) \/ SetUpdate(c)
        PROVE  TypeOK'
    <2>1. req[c].data \in Data /\ got[c].data \in Data
      BY DEF TypeOK, Objects
    <2>2. PICK data \in Data : Store(c, data)
      BY <1>5, <2>1 DEF UpdateCreate, UpdateUpdate, SetCreate, SetUpdate
    <2> QED BY <2>2, <1>2
  <1>6. ASSUME NEW c \in Callers, DeleteData(c)
        PROVE  TypeOK'
    BY <1>6 DEF DeleteData, Finish, TypeOK, PCs, Objects, NoObject
  <1>7. ASSUME NEW c \in Callers, CallFails(c)
        PROVE  TypeOK'
    BY <1>7 DEF CallFails, Refused, Finish, TypeOK, PCs
  <1>8. ASSUME NEW c \in Callers, Return(c)
        PROVE  TypeOK'
    BY <1>8 DEF Return, TypeOK, PCs, Objects, NoObject, Atomic!NoReq,
       Atomic!NoAns, Atomic!Ops, Empty
  <1>9. CASE UNCHANGED vars
    BY <1>9 DEF vars, TypeOK
  <1> QED BY <1>1, <1>3, <1>4, <1>5, <1>6, <1>7, <1>8, <1>9 DEF Next, Step

(* The rest of the invariant.  A Store hands out a version no reader has   *)
(* seen, so whoever read the object before it fails its conditional        *)
(* Update.                                                                 *)
LEMMA NextRest ==
  IInv /\ [Next]_vars => (ReadIsCurrent /\ VersionsBounded /\ CallsMatch)'
  <1> SUFFICES ASSUME IInv, [Next]_vars
               PROVE  (ReadIsCurrent /\ VersionsBounded /\ CallsMatch)'
    OBVIOUS
  <1> USE DEF IInv
  <1>1. ASSUME NEW c \in Callers, NEW r \in [op : Atomic!Ops, data : Data], Call(c, r)
        PROVE  (ReadIsCurrent /\ VersionsBounded /\ CallsMatch)'
    <2>1. /\ r.op = "GetData" => FirstCall(r.op) = "get"
          /\ r.op = "UpdateData" => FirstCall(r.op) = "updateGet"
          /\ r.op = "SetData" => FirstCall(r.op) = "setGet"
          /\ r.op = "DeleteData" => FirstCall(r.op) = "delete"
      BY DEF FirstCall
    <2>2. r.op \in {"GetData", "UpdateData", "SetData", "DeleteData"}
      BY <1>1 DEF Call, Atomic!Ops
    <2>3. /\ UNCHANGED <<obj, clock, got, ans>>
          /\ req' = [req EXCEPT ![c] = r] /\ pc[c] = "idle"
          /\ pc' = [pc EXCEPT ![c] = FirstCall(r.op)]
      BY <1>1 DEF Call
    <2>4. pc'[c] \in {"get", "updateGet", "setGet", "delete"}
      BY <2>1, <2>2, <2>3 DEF TypeOK
    <2>5. ReadIsCurrent' /\ VersionsBounded'
      BY <2>3, <2>4 DEF ReadIsCurrent, VersionsBounded, TypeOK
    <2>6. CallsMatch'
      BY <2>1, <2>2, <2>3 DEF CallsMatch, TypeOK
    <2> QED BY <2>5, <2>6
  <1>2. ASSUME NEW c \in Callers, NEW data \in Data, Store(c, data),
               pc[c] \notin {"idle", "done"}, req[c].op # "none"
        PROVE  (ReadIsCurrent /\ VersionsBounded /\ CallsMatch)'
    <2>1. ReadIsCurrent' /\ VersionsBounded'
      BY <1>2 DEF Store, Finish, ReadIsCurrent, VersionsBounded, TypeOK, Objects
    <2>2. CallsMatch'
      BY <1>2 DEF Store, Finish, CallsMatch, TypeOK
    <2> QED BY <2>1, <2>2
  <1>3. ASSUME NEW c \in Callers, GetData(c)
        PROVE  (ReadIsCurrent /\ VersionsBounded /\ CallsMatch)'
    BY <1>3 DEF GetData, Finish, ReadIsCurrent, VersionsBounded, CallsMatch, TypeOK
  <1>4. ASSUME NEW c \in Callers, UpdateGet(c) \/ SetGet(c)
        PROVE  (ReadIsCurrent /\ VersionsBounded /\ CallsMatch)'
    <2>1. ReadIsCurrent'
      BY <1>4 DEF UpdateGet, SetGet, Read, ReadIsCurrent, TypeOK
    <2>2. VersionsBounded'
      BY <1>4 DEF UpdateGet, SetGet, Read, VersionsBounded, TypeOK
    <2>3. CallsMatch'
      BY <1>4 DEF UpdateGet, SetGet, Read, CallsMatch, TypeOK
    <2> QED BY <2>1, <2>2, <2>3
  <1>5. ASSUME NEW c \in Callers,
               UpdateCreate(c) \/ UpdateUpdate(c) \/ SetCreate(c) \/ SetUpdate(c)
        PROVE  (ReadIsCurrent /\ VersionsBounded /\ CallsMatch)'
    <2>1. req[c].data \in Data /\ got[c].data \in Data
      BY DEF TypeOK, Objects
    <2>2. PICK data \in Data : Store(c, data)
      BY <1>5, <2>1, DataClosed DEF UpdateCreate, UpdateUpdate, SetCreate, SetUpdate
    <2>3. pc[c] \notin {"idle", "done"} /\ req[c].op # "none"
      BY <1>5 DEF UpdateCreate, UpdateUpdate, SetCreate, SetUpdate, CallsMatch
    <2> QED BY <2>2, <2>3, <1>2
  <1>6. ASSUME NEW c \in Callers, DeleteData(c)
        PROVE  (ReadIsCurrent /\ VersionsBounded /\ CallsMatch)'
    BY <1>6 DEF DeleteData, Finish, ReadIsCurrent, VersionsBounded, CallsMatch,
       TypeOK, Objects, NoObject
  <1>7. ASSUME NEW c \in Callers, CallFails(c)
        PROVE  (ReadIsCurrent /\ VersionsBounded /\ CallsMatch)'
    <2>1. req[c].op # "none"
      BY <1>7 DEF CallFails, CallsMatch, TypeOK, PCs
    <2> QED BY <1>7, <2>1 DEF CallFails, Refused, Finish, ReadIsCurrent,
          VersionsBounded, CallsMatch, TypeOK
  <1>8. ASSUME NEW c \in Callers, Return(c)
        PROVE  (ReadIsCurrent /\ VersionsBounded /\ CallsMatch)'
    BY <1>8 DEF Return, ReadIsCurrent, VersionsBounded, CallsMatch, TypeOK,
       NoObject, Atomic!NoReq, Atomic!NoAns
  <1>9. CASE UNCHANGED vars
    BY <1>9 DEF vars, ReadIsCurrent, VersionsBounded, CallsMatch
  <1> QED BY <1>1, <1>3, <1>4, <1>5, <1>6, <1>7, <1>8, <1>9 DEF Next, Step

LEMMA Invariance == Spec => []IInv
  <1>1. IInv /\ [Next]_vars => IInv'
    BY NextTypeOK, NextRest DEF IInv
  <1> QED BY InitInv, <1>1, PTL DEF Spec

(* Every variable keeps its type, and every answer belongs to a call       *)
(* secret.go has made.                                                     *)
THEOREM TypeCorrect == Spec => []TypeOK
  <1>1. IInv => TypeOK
    BY DEF IInv
  <1> QED BY <1>1, Invariance, PTL

(* UpdateData (secret.go:108-144) never writes back data that is not that  *)
(* of the version it is about to replace.                                  *)
THEOREM UpdateReadsCurrent == Spec => []ReadIsCurrent
  <1>1. IInv => ReadIsCurrent
    BY DEF IInv
  <1> QED BY <1>1, Invariance, PTL
-----------------------------------------------------------------------------
(* A Secret that does not exist is empty to its readers. *)
Content == IF obj.exists THEN obj.data ELSE [k \in Keys |-> NoValue]

(* A Store whose data is the effect of the operation on the content is the *)
(* instant at which the operation happens.                                 *)
LEMMA StoreApplies ==
  ASSUME TypeOK, NEW c \in Callers, NEW data \in Data, Store(c, data),
         req[c].op \in {"UpdateData", "SetData"}, ans[c].res = "none",
         data = Atomic!Effect(req[c], Content)
  PROVE  Atomic!Apply(c) \/ Atomic!Lose(c)
  <1>1. Content' = data
    BY DEF Store, Content
  <1>2. Atomic!Pending(c)
    BY DEF Atomic!Pending
  <1>3. PICK res \in {"ok", "err"} : Finish(c, res, Empty)
    BY DEF Store
  <1>4. CASE res = "ok"
    <2>1. Atomic!Apply(c)
      BY <1>1, <1>2, <1>3, <1>4 DEF Atomic!Apply, Finish, Content, Empty
    <2> QED BY <2>1
  <1>5. CASE res = "err"
    <2>1. Atomic!Lose(c)
      BY <1>1, <1>2, <1>3, <1>5 DEF Atomic!Lose, Finish, Content, Empty
    <2> QED BY <2>1
  <1> QED BY <1>4, <1>5

(* Each API call is one step of AtomicSecret, or none. *)
LEMMA StepRefines == IInv /\ [Next]_vars => [Atomic!ANext]_(Atomic!avars)
  <1> SUFFICES ASSUME IInv, [Next]_vars PROVE [Atomic!ANext]_(Atomic!avars)
    OBVIOUS
  <1> USE DEF IInv
  <1>1. ASSUME NEW c \in Callers, NEW r \in [op : Atomic!Ops, data : Data], Call(c, r)
        PROVE  Atomic!ANext
    <2>1. Atomic!Call(c, r)
      BY <1>1 DEF Call, Atomic!Call, Atomic!Idle, CallsMatch
    <2> QED BY <2>1 DEF Atomic!ANext, Data
  <1>2. ASSUME NEW c \in Callers, GetData(c)
        PROVE  Atomic!ANext
    <2>1. req[c].op = "GetData" /\ ans[c].res = "none"
      BY <1>2 DEF GetData, CallsMatch
    <2>2. Atomic!Effect(req[c], Content) = Content
      BY <2>1 DEF Atomic!Effect
    <2>3. Atomic!Apply(c)
      BY <1>2, <2>1, <2>2 DEF GetData, Finish, Atomic!Apply, Atomic!Pending,
         Content, Empty, Atomic!Empty
    <2> QED BY <2>3 DEF Atomic!ANext
  <1>3. ASSUME NEW c \in Callers, UpdateGet(c) \/ SetGet(c)
        PROVE  UNCHANGED Atomic!avars
    BY <1>3 DEF UpdateGet, SetGet, Read, Atomic!avars
  <1>4. ASSUME NEW c \in Callers,
               UpdateCreate(c) \/ UpdateUpdate(c) \/ SetCreate(c) \/ SetUpdate(c)
        PROVE  Atomic!ANext
    <2>1. req[c].data \in Data /\ ans[c].res = "none"
      BY <1>4 DEF TypeOK, CallsMatch, UpdateCreate, UpdateUpdate, SetCreate, SetUpdate
    <2>2. PICK data \in Data :
            /\ Store(c, data)
            /\ req[c].op \in {"UpdateData", "SetData"}
            /\ data = Atomic!Effect(req[c], Content)
      <3>1. CASE UpdateCreate(c)
        <4>1. req[c].op = "UpdateData" /\ ~obj.exists
          BY <3>1 DEF UpdateCreate, CallsMatch
        <4>2. Atomic!Merge(Content, req[c].data) = req[c].data
          BY <4>1, <2>1 DEF Content, Atomic!Merge, Data, Atomic!Data
        <4>3. Atomic!Effect(req[c], Content) = req[c].data
          BY <4>1, <4>2 DEF Atomic!Effect
        <4> QED BY <3>1, <4>1, <4>3, <2>1 DEF UpdateCreate
      <3>2. CASE UpdateUpdate(c)
        <4>1. req[c].op = "UpdateData" /\ Content = got[c].data
          BY <3>2 DEF UpdateUpdate, CallsMatch, ReadIsCurrent, Content
        <4>2. Atomic!Effect(req[c], Content) = Merge(got[c].data, req[c].data)
          BY <4>1 DEF Atomic!Effect, Merge
        <4>3. Merge(got[c].data, req[c].data) \in Data
          BY <2>1, DataClosed DEF TypeOK, Objects
        <4> QED BY <3>2, <4>1, <4>2, <4>3 DEF UpdateUpdate
      <3>3. CASE SetCreate(c) \/ SetUpdate(c)
        <4>1. req[c].op = "SetData"
          BY <3>3 DEF SetCreate, SetUpdate, CallsMatch
        <4>2. Atomic!Effect(req[c], Content) = req[c].data
          BY <4>1 DEF Atomic!Effect
        <4> QED BY <3>3, <4>1, <4>2, <2>1 DEF SetCreate, SetUpdate
      <3> QED BY <1>4, <3>1, <3>2, <3>3
    <2> QED BY <2>1, <2>2, StoreApplies DEF Atomic!ANext
  <1>5. ASSUME NEW c \in Callers, DeleteData(c)
        PROVE  Atomic!ANext
    <2>1. req[c].op = "DeleteData" /\ ans[c].res = "none"
      BY <1>5 DEF DeleteData, CallsMatch
    <2>2. Content' = Atomic!Empty /\ Atomic!Effect(req[c], Content) = Atomic!Empty
      BY <1>5, <2>1 DEF DeleteData, NoObject, Content, Atomic!Effect, Atomic!Empty
    <2>3. PICK res \in {"ok", "err"} : Finish(c, res, Empty)
      BY <1>5 DEF DeleteData
    <2>4. CASE res = "ok"
      <3>1. Atomic!Apply(c)
        BY <2>1, <2>2, <2>3, <2>4
           DEF Finish, Content, Empty, Atomic!Apply, Atomic!Pending
      <3> QED BY <3>1 DEF Atomic!ANext
    <2>5. CASE res = "err"
      <3>1. Atomic!Lose(c)
        BY <2>1, <2>2, <2>3, <2>5
           DEF Finish, Content, Empty, Atomic!Lose, Atomic!Pending
      <3> QED BY <3>1 DEF Atomic!ANext
    <2> QED BY <2>4, <2>5
  <1>6. ASSUME NEW c \in Callers, CallFails(c)
        PROVE  Atomic!ANext
    <2>1. Atomic!Pending(c)
      BY <1>6 DEF CallFails, CallsMatch, TypeOK, PCs, Atomic!Pending
    <2>2. Atomic!Fail(c)
      BY <1>6, <2>1 DEF CallFails, Refused, Finish, Atomic!Fail, Empty
    <2> QED BY <2>2 DEF Atomic!ANext
  <1>7. ASSUME NEW c \in Callers, Return(c)
        PROVE  Atomic!ANext
    <2>1. Atomic!Return(c)
      BY <1>7 DEF Return, Atomic!Return, CallsMatch
    <2> QED BY <2>1 DEF Atomic!ANext
  <1>8. CASE UNCHANGED vars
    BY <1>8 DEF vars, Atomic!avars
  <1> QED BY <1>1, <1>2, <1>3, <1>4, <1>5, <1>6, <1>7, <1>8 DEF Next, Step

(* UpdateData, SetData, DeleteData and GetData of secret.go look to their  *)
(* callers as if each happened at one instant, or failed.                  *)
THEOREM Refinement == Spec => ImplementsAtomic
  <1>1. Init => Atomic!AInit
    BY DEF Init, Atomic!AInit, NoObject, Atomic!Empty
  <1> QED BY <1>1, StepRefines, Invariance, PTL DEF Spec, ImplementsAtomic, Atomic!ASpec
=============================================================================
