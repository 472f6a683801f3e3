------------------------------ MODULE Generator ------------------------------
(***************************************************************************)
(* cmd/auto-convert/gen.go: the tool that asks ROS for its resource types  *)
(* and writes one workload type for each, to be applied to the cluster.    *)
(*                                                                         *)
(* A resource type is the sequence of its parts, <<"ALIYUN", product,      *)
(* restype>>; Catalogue is what ROS answers about each one, its properties *)
(* as a map of Schemas.  ROS may answer that too many calls are made, and  *)
(* the tool then asks again, as often as it takes.                         *)
(***************************************************************************)
EXTENDS Schemas

CONSTANTS
  Catalogue,   \* ROS: the description of the properties of each resource type
  Unknown,     \* a type that ROS does not have, given with -r
  AllTypes     \* no -r

VARIABLES
  gen,         \* [pc, asked, listed, todo]: the tool's place, its -r, and
               \* the types it set out to generate and has still to
  workloads,   \* the files written: [type, kind, group, version, schema]
  unwritten    \* types whose file could not be written
genVars == <<gen, workloads, unwritten>>

Types == DOMAIN Catalogue
Ended == {"done", "panicked"}

GenInit ==
  /\ \E asked \in Types \cup {Unknown, AllTypes} :
       gen = [pc |-> "list", asked |-> asked, listed |-> {}, todo |-> <<>>]
  /\ workloads = {}
  /\ unwritten = {}

(* Variant: the prefix stays. *)
NameKind_Whole(type) == type

(* ReplaceAll of "ALIYUN::", then of the colons that are left.             *)
NameKind(type) == SelectSeq(type, LAMBDA part : part # "ALIYUN")

(* getWorkloadType, once ROS has answered. *)
WorkloadType(type) ==
  [type |-> type, kind |-> NameKind(type),
   group |-> "ros.aliyun.com", version |-> "v1alpha1",
   schema |-> getJsonSchema(Catalogue[type])]
-----------------------------------------------------------------------------
(* ListResourceTypes.  With -r the loop over the answer cannot clear       *)
(* exits, which is true from the beginning: any type is taken.             *)
List ==
  /\ gen.pc = "list"
  /\ \E order \in SetToSeqs(IF gen.asked = AllTypes THEN Types ELSE {gen.asked}) :
       gen' = [gen EXCEPT !.pc = "ask", !.todo = order, !.listed = ToSet(order)]
  /\ UNCHANGED <<workloads, unwritten>>

ListFails ==
  /\ gen.pc = "list"
  /\ gen' = [gen EXCEPT !.pc = "panicked", !.todo = <<>>]
  /\ UNCHANGED <<workloads, unwritten>>

Ask ==
  /\ gen.pc = "ask"
  /\ gen' = [gen EXCEPT !.pc = IF gen.todo = <<>> THEN "done" ELSE "answer"]
  /\ UNCHANGED <<workloads, unwritten>>

(* Variant: the type is left for the next one. *)
Throttled_Skip ==
  /\ gen.pc = "answer"
  /\ gen' = [gen EXCEPT !.pc = "ask", !.todo = Tail(@)]
  /\ UNCHANGED <<workloads, unwritten>>

Throttled ==
  /\ gen.pc = "answer"
  /\ gen' = [gen EXCEPT !.pc = "ask"]
  /\ UNCHANGED <<workloads, unwritten>>

(* Variant: every error is taken for throttling. *)
Refuse_Retry ==
  /\ gen.pc = "answer" /\ Head(gen.todo) \notin Types
  /\ gen' = [gen EXCEPT !.pc = "ask"]
  /\ UNCHANGED <<workloads, unwritten>>

(* Any other error, which a type ROS does not have always gives. *)
Refuse ==
  /\ gen.pc = "answer"
  /\ gen' = [gen EXCEPT !.pc = "panicked", !.todo = <<>>]
  /\ UNCHANGED <<workloads, unwritten>>

(* The workload type is made, or a property has a type the tool does not   *)
(* know, and written, or the error of WriteFile is dropped.                *)
Generate ==
  /\ gen.pc = "answer"
  /\ Head(gen.todo) \in Types
  /\ LET type == Head(gen.todo) IN
     IF Unsupported(Catalogue[type])
     THEN gen' = [gen EXCEPT !.pc = "panicked", !.todo = <<>>] /\ UNCHANGED <<workloads, unwritten>>
     ELSE /\ gen' = [gen EXCEPT !.pc = "ask", !.todo = Tail(@)]
          /\ \/ workloads' = workloads \cup {WorkloadType(type)} /\ UNCHANGED unwritten
             \/ unwritten' = unwritten \cup {type} /\ UNCHANGED workloads

GenStep == List \/ ListFails \/ Ask \/ Throttled \/ Refuse \/ Generate

(* The tool's own steps are those of a running process; ROS does not       *)
(* throttle for ever.                                                      *)
GenFairness ==
  /\ WF_genVars(List \/ ListFails \/ Ask)
  /\ SF_genVars(Refuse \/ Generate)
=============================================================================
