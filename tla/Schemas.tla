------------------------------- MODULE Schemas -------------------------------
(***************************************************************************)
(* cmd/auto-convert/gen.go: the JSON schema of a ROS property.             *)
(*                                                                         *)
(* ROS describes a property by [type, required, constraints, sub]: type is *)
(* NoType when the description has none, constraints a sequence of records *)
(* with one field (allowed, range or length), and sub the properties of a  *)
(* map, the description of a list's items, or NoSchema.  A bound is a      *)
(* function from the ends given, "Min" and "Max", to numbers.              *)
(*                                                                         *)
(* A value is [is, n, parts]: what it is, its number or length, and the    *)
(* function of its items or members.                                       *)
(***************************************************************************)
EXTENDS Integers, Sequences, SequencesExt, FiniteSetsExt

CONSTANTS NoType, NoSchema

Numeric == {"number", "integer"}

transType(type) ==
  CASE type = "list" -> "array" [] type = "map" -> "object" [] OTHER -> type

(* What getConstraints keeps of one kind of bound: the ends of all of its  *)
(* constraints, a later one replacing an earlier one.  An end not given is *)
(* 0, and the JSON form omits a 0 (omitempty): NoBound.                    *)
NoBound == 0
Ends(constraints, kind) ==
  [end \in {"Min", "Max"} |->
    LET giving == {k \in DOMAIN constraints :
                     kind \in DOMAIN constraints[k] /\ end \in DOMAIN constraints[k][kind]}
    IN IF giving = {} THEN NoBound ELSE constraints[Max(giving)][kind][end]]

(* Variant: every property is required. *)
Required_All(properties) == DOMAIN properties

Required(properties) == {name \in DOMAIN properties : properties[name].required}

(* getConstraints feeds a range to numbers and a length to the others;     *)
(* booleans have neither.  The allowed values are written under the key    *)
(* "Enum", which is no keyword of JSON schemas, and so left out here.      *)
BoundsOf(p, type) ==
  CASE type \in Numeric   -> Ends(p.constraints, "range")
    [] type = "boolean"   -> Ends(<<>>, "length")
    [] OTHER              -> Ends(p.constraints, "length")

(* getJsonSchema and getObjectJsonSchema.  The schema that accepts         *)
(* everything has type NoType: of a property without a type, of the items  *)
(* of a list whose description says nothing about them, and of a map       *)
(* without a schema, which keeps its bounds all the same.                  *)
RECURSIVE getJsonSchema(_)
getJsonSchema(p) ==
  LET type == transType(p.type)
      none == [type |-> NoType, bounds |-> Ends(<<>>, "length"), required |-> {}, sub |-> NoSchema]
  IN IF p.type = NoType THEN none
     ELSE IF type = "object" THEN
       [type     |-> IF p.sub = NoSchema THEN NoType ELSE "object",
        bounds   |-> BoundsOf(p, type),
        required |-> IF p.sub = NoSchema THEN {} ELSE Required(p.sub),
        sub      |-> IF p.sub = NoSchema THEN NoSchema
                     ELSE [name \in DOMAIN p.sub |-> getJsonSchema(p.sub[name])]]
     ELSE
       [type |-> type, bounds |-> BoundsOf(p, type), required |-> {},
        sub  |-> IF type # "array" THEN NoSchema
                 ELSE IF p.sub = NoSchema THEN none ELSE getJsonSchema(p.sub)]

(* Whether getJsonSchema panics: a type it does not know somewhere inside. *)
RECURSIVE Unsupported(_)
Unsupported(p) ==
  /\ p.type # NoType
  /\ \/ transType(p.type) \notin Numeric \cup {"string", "boolean", "array", "object"}
     \/ p.type = "list" /\ p.sub # NoSchema /\ Unsupported(p.sub)
     \/ p.type = "map"  /\ p.sub # NoSchema /\ \E name \in DOMAIN p.sub : Unsupported(p.sub[name])
-----------------------------------------------------------------------------
(* ROS: whether a value of the property's type is a legal one.             *)
RECURSIVE RosAccepts(_, _)
RosAccepts(p, v) ==
  LET type == transType(p.type)
      legal(c) ==
        LET bound == IF type \in Numeric THEN "range" ELSE "length" IN
        bound \in DOMAIN c =>
          /\ "Min" \in DOMAIN c[bound] => v.n >= c[bound]["Min"]
          /\ "Max" \in DOMAIN c[bound] => v.n <= c[bound]["Max"]
  IN \/ p.type = NoType
     \/ /\ v.is = type
        /\ \A c \in ToSet(p.constraints) : legal(c)
        /\ type = "array" /\ p.sub # NoSchema =>
             \A i \in DOMAIN v.parts : RosAccepts(p.sub, v.parts[i])
        /\ type = "object" /\ p.sub # NoSchema =>
             /\ \A name \in DOMAIN p.sub : p.sub[name].required => name \in DOMAIN v.parts
             /\ DOMAIN v.parts \subseteq DOMAIN p.sub
             /\ \A name \in DOMAIN v.parts : RosAccepts(p.sub[name], v.parts[name])

(* JSON schema, draft 07, of the keywords the generator writes.            *)
RECURSIVE JsonAccepts(_, _)
JsonAccepts(s, v) ==
  LET measured == s.type # NoType \/ v.is = "object" IN
  /\ s.type \in {NoType, v.is}
  /\ measured /\ s.bounds["Min"] # NoBound => v.n >= s.bounds["Min"]
  /\ measured /\ s.bounds["Max"] # NoBound => v.n <= s.bounds["Max"]
  /\ v.is = "array" /\ s.sub # NoSchema =>
       \A i \in DOMAIN v.parts : JsonAccepts(s.sub, v.parts[i])
  /\ v.is = "object" /\ s.sub # NoSchema =>
       /\ s.required \subseteq DOMAIN v.parts
       /\ \A name \in DOMAIN v.parts \cap DOMAIN s.sub : JsonAccepts(s.sub[name], v.parts[name])
=============================================================================
