--------------------------- MODULE SchemaSanitizer ---------------------------
(***************************************************************************)
(* sanitize_schema (backend/schema_sanitizer.py): the schema of a tool's   *)
(* arguments, less what Gemini rejects.  A JSON value is a record: its kind, *)
(* "dict", "list" or the name of a leaf, and for a dict its keys in their  *)
(* order, each with its value at the same place of the sequence of.        *)
(***************************************************************************)
EXTENDS Naturals, SequencesExt

CONSTANTS Schema,       \* the schemas it is called with
          Unsupported,  \* _UNSUPPORTED_KEYS
          Leaf,
          Accepts,      \* the atoms a leaf admits, as the value of an assertion
          Instance      \* arguments a call may have

VARIABLES schema, position, result

vars == <<schema, position, result>>

IsDict(value) == value.kind = "dict"
IsList(value) == value.kind = "list"
Dict(keys, values) == [kind |-> "dict", keys |-> keys, of |-> values]
Places(value) == DOMAIN value.of

\* result[key] = value
Assign(dict, key, value) ==
    IF Contains(dict.keys, key)
    THEN [dict EXCEPT !.of = [n \in DOMAIN @ |-> IF dict.keys[n] = key THEN value ELSE @[n]]]
    ELSE Dict(Append(dict.keys, key), Append(dict.of, value))

RECURSIVE Sanitize(_)

\* A list, or a dict by name, of schemas.
Each(value) ==
    [value EXCEPT !.of = [n \in DOMAIN @ |-> IF IsDict(@[n]) THEN Sanitize(@[n]) ELSE @[n]]]

\* Mutant: properties is taken for a schema.
ConvertProperties(key, value) ==
    IF \/ key \in {"properties", "$defs"} /\ IsDict(value)
       \/ key = "items" /\ IsDict(value)
    THEN Sanitize(value)
    ELSE IF key \in {"anyOf", "oneOf", "allOf"} /\ IsList(value) THEN Each(value) ELSE value

\* Mutant: lists are copied.
ConvertDicts(key, value) ==
    IF key \in {"properties", "$defs"} /\ IsDict(value) THEN Each(value)
    ELSE IF key = "items" /\ IsDict(value) THEN Sanitize(value) ELSE value

\* Mutant: not is a schema, too.
ConvertNot(key, value) ==
    IF \/ key \in {"properties", "$defs"} /\ IsDict(value)
       \/ key \in {"anyOf", "oneOf", "allOf"} /\ IsList(value)
    THEN Each(value)
    ELSE IF key \in {"items", "not"} /\ IsDict(value) THEN Sanitize(value) ELSE value

\* What is stored for a key that is kept.
Convert(key, value) ==
    IF \/ key \in {"properties", "$defs"} /\ IsDict(value)
       \/ key \in {"anyOf", "oneOf", "allOf"} /\ IsList(value)
    THEN Each(value)
    ELSE IF key = "items" /\ IsDict(value) THEN Sanitize(value) ELSE value

OutKey(key) == IF key = "oneOf" THEN "anyOf" ELSE key

\* One turn of the loop.
Entry(done, key, value) ==
    IF key \in Unsupported THEN done ELSE Assign(done, OutKey(key), Convert(key, value))

Sanitize(dict) ==
    FoldLeft(LAMBDA done, n : Entry(done, dict.keys[n], dict.of[n]),
             Dict(<<>>, <<>>),
             [n \in Places(dict) |-> n])

Init ==
    /\ schema \in Schema
    /\ position = 1
    /\ result = Dict(<<>>, <<>>)

Next ==
    /\ position \in Places(schema)
    /\ result' = Entry(result, schema.keys[position], schema.of[position])
    /\ position' = position + 1
    /\ UNCHANGED schema

Spec == Init /\ [][Next]_vars

Returned == position \notin Places(schema)

-----------------------------------------------------------------------------
(* What a schema means, by the JSON Schema standard.                       *)

\* What a $ref refers to: an entry of the root's $defs, of which it is the name.
Referred(root, name) ==
    UNION {{root.of[n].of[m] : m \in {k \in Places(root.of[n]) : root.of[n].keys[k] = name}} :
             n \in {k \in Places(root) : root.keys[k] = "$defs"}}

RECURSIVE Valid(_, _, _)

\* An instance is an atom, an object with one property, or an array of one.
Holds(root, key, value, i) ==
    CASE key = "$ref" -> \A s \in Referred(root, value.kind) : Valid(root, s, i)
      [] value.kind \in Leaf -> i.shape = "atom" => i.atom \in Accepts[value.kind]
      [] key = "properties" -> i.shape = "object" => \A n \in Places(value) :
                value.keys[n] = i.name => Valid(root, value.of[n], [i EXCEPT !.shape = "atom"])
      [] key = "items" /\ IsDict(value) ->
                i.shape = "array" => Valid(root, value, [i EXCEPT !.shape = "atom"])
      [] key = "allOf" -> \A n \in Places(value) : Valid(root, value.of[n], i)
      [] key = "anyOf" -> \E n \in Places(value) : Valid(root, value.of[n], i)
      [] key = "oneOf" -> \E n \in Places(value) :
                \A m \in Places(value) : Valid(root, value.of[m], i) <=> m = n
      [] key = "not" -> ~Valid(root, value, i)
      [] OTHER -> TRUE

\* A schema may also be True.
Valid(root, s, i) == IsDict(s) => \A n \in Places(s) : Holds(root, s.keys[n], s.of[n], i)

\* The schemas that the value of a key consists of, in the places that the docstring
\* of sanitize_schema names.  not is none of them.
Inner(key, value) ==
    CASE key = "items" -> {value}
      [] key \in {"properties", "$defs", "anyOf", "oneOf", "allOf"} -> ToSet(value.of)
      [] OTHER -> {}

RECURSIVE Parts(_)
Parts(s) ==
    IF ~IsDict(s) THEN {} ELSE
    {s} \cup UNION {UNION {Parts(t) : t \in Inner(s.keys[n], s.of[n])} : n \in Places(s)}

Stripped(s) == \A part \in Parts(s) : ToSet(part.keys) \cap (Unsupported \cup {"oneOf"}) = {}

\* Somewhere in it, wherever that is, is one of these keys.
RECURSIVE Mentions(_, _)
Mentions(value, keys) ==
    \/ IsDict(value) /\ ToSet(value.keys) \cap keys # {}
    \/ \E n \in Places(value) : Mentions(value.of[n], keys)

\* It has a not with a $ref in it.
RECURSIVE NegatesReference(_)
NegatesReference(value) ==
    \E n \in Places(value) :
        \/ IsDict(value) /\ value.keys[n] = "not" /\ Mentions(value.of[n], {"$ref"})
        \/ NegatesReference(value.of[n])

-----------------------------------------------------------------------------
\* In all the places that the docstring names (schema_sanitizer.py:27), and in those
\* inside of them, to any depth, no unsupported key is left and no oneOf.  What is
\* under another key, such as not, is left as it is.
NothingUnsupportedIsLeft == Returned => Stripped(result)

\* What has none of these keys there comes back as it was, property names that look
\* like keywords included.
SupportedIsKept == Returned /\ Stripped(schema) => result = schema

\* Sanitizing only loosens: arguments the server would take are not excluded, though
\* parts of the schema and of its $defs are dropped and one oneOf becomes an anyOf.
\* Except by a not that refers to $defs: these are loosened, which makes it stricter.
NothingValidIsExcluded ==
    Returned /\ ~NegatesReference(schema) =>
        \A i \in Instance : Valid(schema, schema, i) => Valid(result, result, i)
=============================================================================
