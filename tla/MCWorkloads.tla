---------------------------- MODULE MCWorkloads ----------------------------
EXTENDS Workloads

Prop(type, constraints, sub) ==
  [type |-> type, required |-> FALSE, constraints |-> constraints, sub |-> sub]
Needed(p) == [p EXCEPT !.required = TRUE]
Text   == Prop("string", <<"length" :> ("Max" :> 1), "range" :> ("Max" :> 0)>>, NoSchema)
Count  == Prop("integer", <<"range" :> ("Min" :> 0 @@ "Max" :> 2), "range" :> ("Max" :> 1)>>, NoSchema)
Tags   == Prop("list", <<"length" :> ("Min" :> 1)>>, Text)
Loose  == Prop(NoType, <<>>, NoSchema)

Inner  == Prop("map", <<"length" :> ("Max" :> 1)>>, "Name" :> Needed(Text))

Map(f) == Prop("map", <<>>, f)
MCCatalogue ==
  <<"ALIYUN", "ECS", "Instance">> :> Map("Name" :> Needed(Text) @@ "Size" :> Count @@ "Any" :> Inner)
  @@ <<"ALIYUN", "OSS", "Bucket">> :> Map("Name" :> Text @@ "Size" :> Tags @@ "Any" :> Loose)
  @@ <<"ALIYUN", "ROS", "Odd">>    :> Map("Name" :> Prop("any_map", <<>>, NoSchema))
MCAttributes ==
  <<"ALIYUN", "ECS", "Instance">> :> {"Id", "Zone"} @@ <<"ALIYUN", "OSS", "Bucket">> :> {"Id"}
  @@ <<"ALIYUN", "ROS", "Odd">> :> {}
MCUnknown == <<"ALIYUN", "No", "Such">>
MCForeign == [type |-> <<"other">>, kind |-> <<"Server">>, group |-> "core.oam.dev",
              version |-> "v1alpha1", schema |-> NoSchema]

Value(is, n, parts) == [is |-> is, n |-> n, parts |-> parts]
Scalars == {Value("string", n, <<>>) : n \in 0..2} \cup {Value("integer", n, <<>>) : n \in -1..2}
Lists   == {Value("array", Len(s), s) : s \in {<<>>} \cup {<<v>> : v \in Scalars}}
Objects == {Value("object", 0, <<>>)}
  \cup {Value("object", 1, "Name" :> v) : v \in {w \in Scalars : w.is = "string"}}
Members == UNION {[names -> Scalars \cup Lists \cup Objects] : names \in SUBSET {"Name", "Size", "Any"}}
Settings == {Value("object", Cardinality(DOMAIN f), f) : f \in Members}

(* The settings ROS accepts for a resource are accepted by the schema of   *)
(* its workload type (gen.go:179-300): required properties, bounds and     *)
(* types are those of ROS or wider, at any depth.                          *)
NothingRefused ==
  [][\A w \in workloads' \ workloads : \A v \in Settings :
       RosAccepts(Catalogue[w.type], v) => JsonAccepts(w.schema, v)]_vars
=============================================================================
