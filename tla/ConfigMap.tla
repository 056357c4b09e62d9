---------------------------- MODULE ConfigMap ----------------------------
(***************************************************************************)
(* Zenohex.ConfigMap: a configuration as an Elixir map, merged with maps   *)
(* and changed at paths.  A term is a map, a list of terms or a leaf.  The *)
(* keys of a map are strings or atoms; an atom is written with its colon.  *)
(***************************************************************************)
EXTENDS Naturals, SequencesExt

CONSTANTS
  Base,     \* normalised maps that callers have as configurations
  Given,    \* maps they merge into one
  Values,   \* terms they insert
  Paths,    \* keys they insert at, split at each "/"
  Unsupported,  \* leaves normalize_value refuses: charlists, pids, tuples
  BadKeys,  \* keys that are neither strings nor atoms
  NameOf,   \* the string of each atom
  MaxCalls  \* bound: calls one after the other

Leaf(v) == [leaf |-> v]
List(s) == [list |-> s]
Tree(f) == [map |-> f]
IsMap(t) == "map" \in DOMAIN t
IsList(t) == "list" \in DOMAIN t
Nil == Leaf("nil")
Empty == Tree([k \in {} |-> k])
Nothing == [none |-> "none"]
-----------------------------------------------------------------------------
(* normalize_value, as the set of its possible results: a string and an    *)
(* atom of that name come in the order of the map, which is any, and the   *)
(* later one stays.  Empty when it answers an error.                       *)
normalize_map_key_KeepsAtoms(k) == k
normalize_map_key(k) == IF k \in DOMAIN NameOf THEN NameOf[k] ELSE k

RECURSIVE normalize_value(_)
normalize_map(f) ==
  LET values == [k \in DOMAIN f |-> normalize_value(f[k])]
      names == {normalize_map_key(k) : k \in DOMAIN f}
  IN  IF DOMAIN f \cap BadKeys # {} \/ \E k \in DOMAIN f : values[k] = {} THEN {}
      ELSE {Tree(g) : g \in
             {g \in [names -> UNION {values[k] : k \in DOMAIN f}] : \A s \in names :
                \E k \in DOMAIN f : normalize_map_key(k) = s /\ g[s] \in values[k]}}
normalize_list(s) ==
  LET values == [i \in DOMAIN s |-> normalize_value(s[i])]
  IN  {List(r) : r \in {r \in [DOMAIN s -> UNION {values[i] : i \in DOMAIN s}] :
                         \A i \in DOMAIN s : r[i] \in values[i]}}
normalize_value(t) ==
  CASE IsMap(t) -> normalize_map(t.map)
    [] IsList(t) -> normalize_list(t.list)
    [] OTHER -> IF t.leaf \in Unsupported THEN {} ELSE {t}

deep_merge_Shallow(base, override) ==
  Tree([k \in DOMAIN base.map \cup DOMAIN override.map |->
         IF k \in DOMAIN override.map THEN override.map[k] ELSE base.map[k]])
RECURSIVE deep_merge(_, _)
deep_merge(base, override) ==
  Tree([k \in DOMAIN base.map \cup DOMAIN override.map |->
         IF k \notin DOMAIN override.map THEN base.map[k]
         ELSE IF k \in DOMAIN base.map /\ IsMap(base.map[k]) /\ IsMap(override.map[k])
         THEN deep_merge(base.map[k], override.map[k])
         ELSE override.map[k]])

RECURSIVE fetch_path_value(_, _)
fetch_path_value(t, path) ==
  IF path = <<>> THEN t
  ELSE IF IsMap(t) /\ Head(path) \in DOMAIN t.map
  THEN fetch_path_value(t.map[Head(path)], Tail(path))
  ELSE Nothing

\* put_in with Access.key(segment, %{}): nil in its way is an empty map; it
\* raises on any other leaf, on a list and on an empty path.
RECURSIVE put_in(_, _, _)
put_in_Overwriting(t, path, value) ==
  IF path = <<>> THEN value
  ELSE LET f == IF IsMap(t) THEN t.map ELSE Empty.map
           child == IF Head(path) \in DOMAIN f THEN f[Head(path)] ELSE Empty
           new == put_in(child, Tail(path), value)
       IN  Tree([k \in DOMAIN f \cup {Head(path)} |-> IF k = Head(path) THEN new ELSE f[k]])
put_in(t, path, value) ==
  IF path = <<>> THEN value
  ELSE IF ~IsMap(t) /\ t # Nil THEN Nothing
  ELSE LET f == IF t = Nil THEN Empty.map ELSE t.map
           child == IF Head(path) \in DOMAIN f THEN f[Head(path)] ELSE Empty
           new == put_in(child, Tail(path), value)
       IN  IF new = Nothing THEN Nothing
           ELSE Tree([k \in DOMAIN f \cup {Head(path)} |-> IF k = Head(path) THEN new ELSE f[k]])
-----------------------------------------------------------------------------
VARIABLES
  config,  \* the configuration a caller has
  last     \* the last call: its name, arguments and answer

vars == <<config, last>>

Ok(t) == [ok |-> t]
Error == [error |-> "error"]
IsOk(answer) == "ok" \in DOMAIN answer

Init ==
  /\ config \in Base
  /\ last = [op |-> "none", before |-> config, arg |-> Empty, path |-> <<>>, answer |-> Ok(config),
             calls |-> 0]

Answer(op, arg, path, answer) ==
  /\ last' = [op |-> op, before |-> config, arg |-> arg, path |-> path, answer |-> answer,
              calls |-> last.calls + 1]
  /\ config' = IF IsOk(answer) THEN answer.ok ELSE config

merge(map) ==
  /\ last.calls < MaxCalls
  /\ \/ \E normalized \in normalize_value(map) :
          Answer("merge", normalized, <<>>, Ok(deep_merge(config, normalized)))
     \/ normalize_value(map) = {} /\ Answer("merge", map, <<>>, Error)

insert(path, value) ==
  /\ last.calls < MaxCalls
  /\ \/ \E normalized \in normalize_value(value) :
          LET new == put_in(config, path, normalized)
          IN  Answer("insert", normalized, path, IF path = <<>> \/ new = Nothing THEN Error ELSE Ok(new))
     \/ normalize_value(value) = {} /\ Answer("insert", value, path, Error)

Next ==
  \/ \E map \in Given : merge(map)
  \/ \E path \in Paths, value \in Values : insert(path, value)

Spec == Init /\ [][Next]_vars
-----------------------------------------------------------------------------
Get(t, path) == fetch_path_value(t, path)

RECURSIVE PathsOf(_)
PathsOf(t) ==
  {<<>>} \cup (IF IsMap(t) THEN UNION {{<<k>> \o p : p \in PathsOf(t.map[k])} : k \in DOMAIN t.map}
               ELSE {})

RECURSIVE IsNormal(_)
IsNormal(t) ==
  IF IsMap(t)
  THEN \A k \in DOMAIN t.map : k \notin DOMAIN NameOf \cup BadKeys /\ IsNormal(t.map[k])
  ELSE IF IsList(t) THEN \A i \in DOMAIN t.list : IsNormal(t.list[i])
  ELSE t.leaf \notin Unsupported

\* Off every path of the given map, and not behind one of its leaves.
Untouched(given, path) ==
  /\ Get(given, path) = Nothing
  /\ \A i \in 0 .. Len(path) - 1 :
       Get(given, SubSeq(path, 1, i)) # Nothing => IsMap(Get(given, SubSeq(path, 1, i)))

\* "Keys in map overwrite corresponding keys in config.  Nested maps are merged
\* recursively, so unrelated sub-keys in config are preserved", at any depth of
\* a normalised configuration.
MergeOverwritesOrKeeps ==
  last.op = "merge" /\ IsOk(last.answer) =>
    \A p \in PathsOf(config) \cup PathsOf(last.before) \cup PathsOf(last.arg) :
      /\ Get(last.arg, p) # Nothing /\ ~IsMap(Get(last.arg, p)) => Get(config, p) = Get(last.arg, p)
      /\ Untouched(last.arg, p) => Get(config, p) = Get(last.before, p)
      /\ Get(last.arg, p) # Nothing /\ IsMap(Get(last.arg, p)) => IsMap(Get(config, p))

\* insert answers an error, and changes nothing, exactly when a list or a leaf
\* but nil is in its way, the path is empty or the value unsupported; else get
\* finds the value there, and every path beside it leads to what it led to before.
Blocked(t, path) ==
  \E i \in 1 .. Len(path) - 1 :
    LET on == Get(t, SubSeq(path, 1, i)) IN on \notin {Nothing, Nil} /\ ~IsMap(on)
InsertChangesOnlyThere ==
  last.op = "insert" =>
    /\ ~IsOk(last.answer) <=> last.path = <<>> \/ ~IsNormal(last.arg) \/ Blocked(last.before, last.path)
    /\ IsOk(last.answer) =>
         /\ Get(config, last.path) = last.arg
         /\ \A p \in PathsOf(config) \cup PathsOf(last.before) :
              ~IsPrefix(p, last.path) /\ ~IsPrefix(last.path, p) =>
                Get(config, p) = Get(last.before, p)

\* A normalised configuration stays normalised, and a merge into the empty map,
\* which Session.open does to a map, normalises whatever it is given.
StaysNormal ==
  last.op # "none" /\ IsOk(last.answer) /\ IsNormal(last.before) => IsNormal(config)
==========================================================================
