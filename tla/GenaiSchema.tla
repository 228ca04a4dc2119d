----------------------------- MODULE GenaiSchema -----------------------------
(***************************************************************************)
(* convertSchema of src/genai/utils.go: the response schema a caller asks  *)
(* for, a tree of items, properties and alternatives, as the GenAI client  *)
(* wants it.                                                               *)
(*                                                                         *)
(* A node is its type, its settings (description, title, required, format, *)
(* bounds and the like, which are passed on where they are set), its enum  *)
(* and its children; a nil schema is NoSchema.                             *)
(***************************************************************************)
EXTENDS Naturals, Sequences

CONSTANT Schemas   \* the schemas that occur, with all their parts

NoSchema == [type |-> "nil"]

ASSUME SchemasAssumption ==
    /\ NoSchema \in Schemas
    /\ \A s \in Schemas \ {NoSchema} :
          /\ s.items \in Schemas
          /\ \A k \in DOMAIN s.properties : s.properties[k] \in Schemas
          /\ \A i \in DOMAIN s.anyOf : s.anyOf[i] \in Schemas

(* The children of a node, each with its place. *)
Children(s) ==
    {<<"items", 0, s.items>>}
    \union {<<"property", k, s.properties[k]>> : k \in DOMAIN s.properties}
    \union {<<"anyOf", i, s.anyOf[i]>> : i \in DOMAIN s.anyOf}

(* A schema is a tree: no way down its children goes on for ever. *)
ASSUME SchemasAreTrees ==
    \A T \in SUBSET Schemas : T # {} =>
        \E s \in T : s = NoSchema \/ \A c \in Children(s) : c[3] \notin T

Types == {"string", "number", "integer", "boolean", "array", "object"}

(* strings.ToLower of the spellings that occur. *)
ToLower(t) == CASE t = "STRING" -> "string" [] t = "Object" -> "object" [] OTHER -> t

convertSchemaType(t) == IF ToLower(t) \in Types THEN ToLower(t) ELSE "unspecified"

(* fmt.Sprintf("%v", e): the value's text, whatever its type. *)
Text(e) == e.text

convertSchema ==
    LET convert[s \in Schemas] ==
            IF s = NoSchema THEN NoSchema
            ELSE [type |-> convertSchemaType(s.type), settings |-> s.settings,
                  enum |-> [i \in DOMAIN s.enum |-> Text(s.enum[i])],
                  items |-> convert[s.items],
                  properties |-> [k \in DOMAIN s.properties |-> convert[s.properties[k]]],
                  anyOf |-> [i \in DOMAIN s.anyOf |-> convert[s.anyOf[i]]]]
    IN convert
-----------------------------------------------------------------------------
(* For reading a schema without regard to how it was built: what stands at  *)
(* each path of the tree, before and after.                                 *)
Under(c, nodes) == {<< << <<c[1], c[2]>> >> \o n[1], n[2]>> : n \in nodes}

Outline(schemas, node) ==
    LET nodes[s \in schemas] ==
            IF s = NoSchema THEN {}
            ELSE {<< <<>>, node[s]>>}
                 \union UNION {Under(c, nodes[c[3]]) : c \in Children(s)}
    IN nodes

outline ==
    Outline(Schemas, [s \in Schemas \ {NoSchema} |->
        <<convertSchemaType(s.type), s.settings,
          [i \in DOMAIN s.enum |-> s.enum[i].text]>>])

ConvertedSchemas == {convertSchema[s] : s \in Schemas}
convertedOutline ==
    Outline(ConvertedSchemas,
            [s \in ConvertedSchemas \ {NoSchema} |-> <<s.type, s.settings, s.enum>>])
=============================================================================
