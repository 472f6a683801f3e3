------------------------------ MODULE Templates ------------------------------
(***************************************************************************)
(* pkg/ros/template.go: the ROS template of an application.                *)
(*                                                                         *)
(* An application is a sequence of component configurations                *)
(*   [instance, component, params, policies]                               *)
(* whose params are a sequence of [name, from, field, value]: from is the  *)
(* instance a value is taken from or NoInstance, field a fieldPath         *)
(* [status, dotted, name]: whether it begins with ".status.", whether the  *)
(* rest has a dot in it, and the rest.  policies are the policies of the   *)
(* DeletionPolicy traits.  cluster[c] is the ComponentSchematic of name c: *)
(* its workload type and settings.  The workload type, in full             *)
(* {group}/{version}.{kind}, is split as the code splits it: kind is the   *)
(* sequence of its parts between underscores.  The resource type           *)
(* ALIYUN::{product}::{restype} is the sequence of its parts.              *)
(***************************************************************************)
EXTENDS Integers, Sequences, SequencesExt, FiniteSetsExt

CONSTANTS
  Attributes,   \* what GetResourceType answers: the attributes of each type
  NoInstance,   \* a parameter without from
  NoTemplate    \* the outcome of NewTemplate when it returns an error

InstancesOf(confs) == {c.instance : c \in ToSet(confs)}

(* getResourceType: the workload types it accepts and what it makes of them. *)
Supported(w) ==
  w.group = "ros.aliyun.com" /\ w.version = "v1alpha1" /\ Len(w.kind) = 2
ResourceType(w) == <<"ALIYUN">> \o w.kind
-----------------------------------------------------------------------------
(* The configurations a resource is made of: a component of an unsupported *)
(* workload type is left out.                                              *)
Made(confs, cluster) ==
  {k \in DOMAIN confs : Supported(cluster[confs[k].component].type)}

(* Variant: any instance may be referred to. *)
BadReference_Unchecked(p, conf, confs) ==
  (p.field.status /\ p.field.dotted) \/ p.from = conf.instance

(* The references genResource refuses: to an attribute of an attribute, to *)
(* a missing instance, to the instance itself.                             *)
BadReference(p, conf, confs) ==
  \/ p.field.status /\ p.field.dotted
  \/ p.from \notin InstancesOf(confs)
  \/ p.from = conf.instance

BadParam(p, conf, confs) ==
  IF p.from # NoInstance THEN BadReference(p, conf, confs) ELSE p.value = ""

(* What genResource returns an error for. *)
BadResource(conf, confs, cluster) ==
  \/ ~cluster[conf.component].valid
  \/ \E p \in ToSet(conf.params) : BadParam(p, conf, confs)
  \/ "invalid" \in conf.policies

(* NewTemplate returns an error: a component is not found, a resource is   *)
(* refused, or ROS, which a dry run does not ask, does not know its type.  *)
Refused(confs, cluster, dryRun) ==
  \/ \E c \in ToSet(confs) : c.component \notin DOMAIN cluster
  \/ \E k \in Made(confs, cluster) :
       \/ BadResource(confs[k], confs, cluster)
       \/ /\ ~dryRun
          /\ ResourceType(cluster[confs[k].component].type) \notin DOMAIN Attributes
-----------------------------------------------------------------------------
GetAtt(p) == [instance |-> p.from, field |-> p.field.name]
Literal(v) == [literal |-> v]

(* The properties of a resource: the component's settings, overridden by   *)
(* the parameters, the last of a name.                                     *)
Properties(conf, settings) ==
  LET naming(n) == {k \in DOMAIN conf.params : conf.params[k].name = n}
      value(p)  == IF p.from # NoInstance THEN GetAtt(p) ELSE Literal(p.value)
  IN [n \in DOMAIN settings \cup {p.name : p \in ToSet(conf.params)} |->
        IF naming(n) = {} THEN Literal(settings[n])
                          ELSE value(conf.params[Max(naming(n))])]

(* Variant: only the first reference is a dependency. *)
DependsOn_First(conf) ==
  {conf.params[k].from : k \in DOMAIN conf.params \cap {1}} \ {NoInstance}

DependsOn(conf) == {p.from : p \in ToSet(conf.params)} \ {NoInstance}

(* genResource *)
Resource(conf, cluster) ==
  LET schematic == cluster[conf.component] IN
  [type       |-> ResourceType(schematic.type),
   properties |-> Properties(conf, schematic.settings),
   dependsOn  |-> DependsOn(conf),
   policy     |-> IF "Delete" \in conf.policies THEN "Delete" ELSE "Retain"]

(* genOutputs, for every resource made; dry runs have none. *)
Outputs(confs, cluster, dryRun) ==
  IF dryRun THEN {}
  ELSE UNION {{[instance |-> confs[k].instance, key |-> attribute] :
                  attribute \in Attributes[ResourceType(cluster[confs[k].component].type)]} :
                k \in Made(confs, cluster)}

(* NewTemplate: the resources of all components by instance name, of which *)
(* a later one replaces an earlier one, and the outputs of all.            *)
NewTemplate(confs, cluster, dryRun) ==
  IF Refused(confs, cluster, dryRun) THEN NoTemplate
  ELSE LET named(i) == {k \in Made(confs, cluster) : confs[k].instance = i} IN
       [resources |-> [i \in {confs[k].instance : k \in Made(confs, cluster)} |->
                         Resource(confs[Max(named(i))], cluster)],
        outputs   |-> Outputs(confs, cluster, dryRun)]
=============================================================================
