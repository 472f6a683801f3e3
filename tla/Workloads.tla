------------------------------ MODULE Workloads ------------------------------
(***************************************************************************)
(* From resource types to templates: the workload types the generator      *)
(* wrote (Generator) are applied, users write components of them and       *)
(* applications of those, and the controller makes templates (Templates).  *)
(***************************************************************************)
EXTENDS Generator, Templates

CONSTANTS
  Instances,     \* names of component instances
  Foreign,       \* a workload type ROS has nothing to do with
  MaxComponents  \* bound: components of an application

VARIABLE app     \* the component configurations of an application
vars == <<genVars, app>>

(* A component of every workload type applied, named for its kind; the     *)
(* settings are one property of the type.                                  *)
cluster ==
  [kind \in {w.kind : w \in workloads \cup {Foreign}} |->
     [type     |-> CHOOSE w \in workloads \cup {Foreign} : w.kind = kind,
      settings |-> "Name" :> "set",
      valid    |-> TRUE]]

Init == GenInit /\ app = <<>>

FieldPaths ==
  {[status |-> TRUE, dotted |-> FALSE, name |-> "Id"],
   [status |-> TRUE, dotted |-> TRUE,  name |-> "Id"]}
Params ==
  {[name |-> n, from |-> i, field |-> f, value |-> ""] :
     n \in {"Name", "Size"}, i \in Instances, f \in FieldPaths}
  \cup {[name |-> "Name", from |-> NoInstance, field |-> f, value |-> v] :
          f \in {CHOOSE f \in FieldPaths : TRUE}, v \in {"", "given"}}
ParamLists == {<<>>} \cup {<<p>> : p \in Params}
  \cup {<<p, q>> : p, q \in {r \in Params : IF r.from = NoInstance THEN r.value # "" ELSE ~r.field.dotted}}

(* A user adds a component to the application. *)
AddComponent ==
  /\ gen.pc \in Ended
  /\ Len(app) < MaxComponents
  /\ \E i \in Instances, kind \in DOMAIN cluster, params \in ParamLists :
       app' = Append(app, [instance |-> i, component |-> kind,
                           params |-> params, policies |-> {}])
  /\ UNCHANGED genVars

Next == (GenStep /\ UNCHANGED app) \/ AddComponent

Spec == Init /\ [][Next]_vars /\ GenFairness
-----------------------------------------------------------------------------
template(dryRun) == NewTemplate(app, cluster, dryRun)
Templated(dryRun) == template(dryRun) # NoTemplate

(* Every workload type the tool writes is one the controller accepts       *)
(* (gen.go:128, template.go:274), and names the resource type it is of.    *)
UsableWorkloads ==
  \A w \in workloads : Supported(w) /\ ResourceType(w) = w.type

(* Each type the tool set out to generate is written when it ends, unless  *)
(* its file could not be: being throttled loses none (gen.go:115).         *)
AllGenerated ==
  gen.pc = "done" => {w.type : w \in workloads} \cup unwritten = gen.listed

(* A component that is left out for its workload type (template.go:115) is *)
(* the only reason for a template to wait for or read from a resource that *)
(* it does not have.                                                       *)
DanglingOnlyToSkipped ==
  \A dryRun \in BOOLEAN : Templated(dryRun) =>
    LET resources == template(dryRun).resources IN
    \A i \in DOMAIN resources : \A missing \in resources[i].dependsOn \ DOMAIN resources :
      \E k \in DOMAIN app : app[k].instance = missing /\ ~Supported(cluster[app[k].component].type)

(* A property that reads another resource makes its own wait for that one  *)
(* (template.go:210-221), whatever other parameters there are.             *)
ReadsAreDependencies ==
  \A dryRun \in BOOLEAN : Templated(dryRun) =>
    LET resources == template(dryRun).resources IN
    \A i \in DOMAIN resources : \A name \in DOMAIN resources[i].properties :
      LET value == resources[i].properties[name] IN
      "instance" \in DOMAIN value => value.instance \in resources[i].dependsOn \ {i}

(* The tool ends, however often it is throttled. *)
GeneratorEnds == <>(gen.pc \in Ended)
=============================================================================
