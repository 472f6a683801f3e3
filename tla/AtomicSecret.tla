---------------------------- MODULE AtomicSecret ----------------------------
(***************************************************************************)
(* What a caller of k8s.SecretInterface may rely on: one named Secret      *)
(* whose whole content changes at one instant of each operation.           *)
(*                                                                         *)
(*   UpdateData(d)  merges the keys of d into the content, or fails;       *)
(*   SetData(d)     makes d the whole content, or fails;                   *)
(*   DeleteData     removes the Secret, or fails;                          *)
(*   GetData        returns the content (the empty map when there is no    *)
(*                  Secret), or fails.                                     *)
(*                                                                         *)
(* A failed operation has had no effect, or its whole effect when only the *)
(* answer of the API server was lost.  SecretStore, the operations as the  *)
(* code performs them (a read followed by a write), is shown to implement  *)
(* this module; AppStack then uses the atomic operations.                  *)
(***************************************************************************)
EXTENDS Integers

CONSTANTS
  Callers,   \* the goroutines that use the Secret
  Keys,      \* keys of its data
  Values,    \* values of its data
  NoValue    \* marks a key the data does not have

VARIABLES
  content,   \* the Secret: its data, all NoValue when it does not exist
  req,       \* req[c]: the operation c has called, op = "none" between calls
  ans        \* ans[c]: "none", "ok" or "err"; data is what a GetData returned

avars == <<content, req, ans>>

Data  == [Keys -> Values \cup {NoValue}]
Empty == [k \in Keys |-> NoValue]

Ops == {"none", "GetData", "UpdateData", "SetData", "DeleteData"}
NoReq == [op |-> "none", data |-> Empty]
NoAns == [res |-> "none", data |-> Empty]

(* The data of a Secret after the keys of new have been written over old. *)
Merge(old, new) == [k \in Keys |-> IF new[k] = NoValue THEN old[k] ELSE new[k]]

(* The content an operation leaves behind. *)
Effect(r, old) ==
  CASE r.op = "UpdateData" -> Merge(old, r.data)
    [] r.op = "SetData"    -> r.data
    [] r.op = "DeleteData" -> Empty
    [] OTHER               -> old

ATypeOK ==
  /\ content \in Data
  /\ req \in [Callers -> [op : Ops, data : Data]]
  /\ ans \in [Callers -> [res : {"none", "ok", "err"}, data : Data]]

AInit ==
  /\ content = Empty
  /\ req = [c \in Callers |-> NoReq]
  /\ ans = [c \in Callers |-> NoAns]

Idle(c)    == req[c].op = "none"
Pending(c) == req[c].op # "none" /\ ans[c].res = "none"

Call(c, r) ==
  /\ Idle(c)
  /\ r.op # "none"
  /\ req' = [req EXCEPT ![c] = r]
  /\ UNCHANGED <<content, ans>>

(* The one instant at which the operation of c takes effect. *)
Apply(c) ==
  /\ Pending(c)
  /\ content' = Effect(req[c], content)
  /\ ans' = [ans EXCEPT ![c] =
       [res  |-> "ok",
        data |-> IF req[c].op = "GetData" THEN content ELSE Empty]]
  /\ UNCHANGED req

Fail(c) ==
  /\ Pending(c)
  /\ ans' = [ans EXCEPT ![c] = [res |-> "err", data |-> Empty]]
  /\ UNCHANGED <<content, req>>

(* The operation has taken effect, but its caller is told it failed. *)
Lose(c) ==
  /\ Pending(c)
  /\ content' = Effect(req[c], content)
  /\ ans' = [ans EXCEPT ![c] = [res |-> "err", data |-> Empty]]
  /\ UNCHANGED req

Return(c) ==
  /\ ans[c].res # "none"
  /\ req' = [req EXCEPT ![c] = NoReq]
  /\ ans' = [ans EXCEPT ![c] = NoAns]
  /\ UNCHANGED content

ANext ==
  \E c \in Callers :
    \/ \E r \in [op : Ops, data : Data] : Call(c, r)
    \/ Apply(c)
    \/ Fail(c)
    \/ Lose(c)
    \/ Return(c)

ASpec == AInit /\ [][ANext]_avars
=============================================================================
