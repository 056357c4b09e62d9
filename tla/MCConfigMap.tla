--------------------------- MODULE MCConfigMap ---------------------------
(***************************************************************************)
(* ConfigMap for TLC: maps of depth two over the strings a and b and the   *)
(* atom :a, with scalars, nil and lists.                                   *)
(***************************************************************************)
EXTENDS ConfigMap

Maps(keys, terms) == {Tree(f) : f \in UNION {[K -> terms] : K \in SUBSET keys}}
Strings == {"a", "b"}
Terms(keys, leaves) == leaves \cup Maps(keys, leaves)
ListOf(key, leaf) == {List(<<leaf, Tree([k \in {key} |-> leaf])>>)}

MCNameOf == [k \in {":a"} |-> "a"]
MCNormal == Maps(Strings, Terms(Strings, {Leaf("x"), Nil}) \cup ListOf("a", Leaf("x")))
MCGiven ==
  Maps({"a", ":a"}, Terms({"a", ":a"}, {Leaf("y")}) \cup ListOf(":a", Leaf("y"))
                    \cup ListOf("a", Leaf("pid")))
  \cup Maps({"b", "1"}, {Leaf("y")})
MCValues == Terms({"b", ":a"}, {Leaf("z"), Nil}) \cup {Leaf("pid")} \cup ListOf(":a", Leaf("z"))
MCPaths == {<<>>, <<"a">>, <<"b">>, <<"a", "b">>, <<"b", "a", "a">>}
==========================================================================
