-------------------------- MODULE MCSchemaSanitizer --------------------------
(* Schemas of up to two keys, of schemas of up to two, of assertions and       *)
(* references.                                                                *)
EXTENDS SchemaSanitizer

Leaves == {"low", "high"}
LeafAccepts == [l \in Leaves |-> IF l = "low" THEN {1, 2} ELSE {2, 3}]
Instances == [shape : {"atom", "object", "array"}, name : {"p", "title"}, atom : 1..3]
UnsupportedKeys == {"title", "pattern"}

LeafValue(name) == [kind |-> name, keys |-> <<>>, of |-> <<>>]
ListOf(values) == [kind |-> "list", keys |-> <<>>, of |-> values]

Assertions == {"type", "pattern"}

\* The values a key may have, over the schemas below.
ValuesOf(key, Below) ==
    CASE key \in Assertions -> {LeafValue(l) : l \in Leaves}
      [] key = "$ref" -> {LeafValue("p")}
      [] key = "properties" -> {Dict(<<name>>, <<s>>) : name \in {"p", "title"}, s \in Below}
      [] key = "$defs" ->
             {Dict(<<name>>, <<s>>) : name \in {"p", "title"},
                                      s \in {b \in Below : ~Mentions(b, {"$ref"})}}
      [] key \in {"items", "not"} -> Below
      [] OTHER -> {ListOf(<<s, t>>) : s, t \in Below}

Keys == Assertions \cup {"properties", "items", "not", "anyOf", "oneOf", "allOf", "$defs", "$ref"}

One(Below) == UNION {{Dict(<<key>>, <<v>>) : v \in ValuesOf(key, Below)} : key \in Keys}
Two(First, Second, Below) ==
    UNION {{Dict(<<k, l>>, <<v, w>>) : v \in ValuesOf(k, Below), w \in ValuesOf(l, Below)} :
           k \in First, l \in Second}

Few == {Dict(<<"type">>, <<LeafValue("low")>>), Dict(<<"pattern">>, <<LeafValue("high")>>),
        Dict(<<"$ref">>, <<LeafValue("p")>>)}
Nested ==
    One(Few)
        \cup {Dict(<<"anyOf", "oneOf">>, <<ListOf(<<s>>), ListOf(<<t>>)>>) : s, t \in Few}

Schemas == One(Nested) \cup UNION {Two({k}, Keys \ {k}, Few) : k \in Keys}
=============================================================================
