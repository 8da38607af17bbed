------------------------------ MODULE JsonBody ------------------------------
(***************************************************************************)
(* JSON bodies as the gateway reads and rewrites them: the operations of   *)
(* gjson and sjson that pkg/llmutils uses (external), the content fields,  *)
(* and llmutils.CollapseDuplicateKeys.                                     *)
(*                                                                         *)
(* A document is a tree.  A string is a sequence of words; an object keeps *)
(* its members in the order they are written, repeated keys included; a    *)
(* member has its decoded key, and whether the key is written with escapes. *)
(***************************************************************************)
EXTENDS Integers, FiniteSets, SequencesExt, TLC

CONSTANT MaxDepth    \* bound: nesting of a document

ASSUME JsonAssumption == MaxDepth \in Nat

Str(text) == [kind |-> "str", text |-> text]
Scalar(kind) == [kind |-> kind]     \* "null", "true", "number", "nonfinite" (NaN), "garbage"
Obj(members) == [kind |-> "obj", members |-> members]
Arr(items) == [kind |-> "arr", items |-> items]
Missing == [kind |-> "missing"]

Member(key, value) == [key |-> key, escaped |-> FALSE, value |-> value]
EscapedMember(key, value) == [key |-> key, escaped |-> TRUE, value |-> value]

Children(v) ==
    CASE v.kind = "obj" -> {v.members[n].value : n \in DOMAIN v.members}
      [] v.kind = "arr" -> {v.items[n] : n \in DOMAIN v.items}
      [] v.kind = "map" -> {v.map[k] : k \in DOMAIN v.map}
      [] OTHER -> {}

\* A document and all that is inside of it: the domain of the recursive
\* functions on documents.
Nodes(v) ==
    LET level[n \in 0 .. MaxDepth] == IF n = 0 THEN {v} ELSE UNION {Children(x) : x \in level[n - 1]}
    IN  UNION {level[n] : n \in 0 .. MaxDepth}

-----------------------------------------------------------------------------
(* gjson: the first of several members with a key; sjson writes there.      *)

First(v, key) ==
    CASE v.kind = "obj" -> SelectInSeq(v.members, LAMBDA m : m.key = key)
      [] v.kind = "arr" -> SelectInSeq([n \in DOMAIN v.items |-> ToString(n - 1)], LAMBDA c : c = key)
      [] OTHER -> 0

Get(v, key) == IF v.kind = "obj" /\ First(v, key) # 0 THEN v.members[First(v, key)].value ELSE Missing

\* Result.Array: a value that is not an array is an array of one.
Array(v) ==
    CASE v.kind = "arr" -> v.items
      [] v.kind \in {"missing", "null"} -> <<>>
      [] OTHER -> <<v>>

IsText(v) == v.kind = "str" /\ v.text # <<>>

TypeIs(v, types) == \E t \in types : Get(v, "type") = Str(<<t>>)

\* sjson.SetBytes and SetRawBytes: path components that are not there are made.
Nest(path, new) == FoldRight(LAMBDA key, v : Obj(<<Member(key, v)>>), path, new)

Child(v, key) ==
    LET at == First(v, key)
    IN  CASE v.kind = "obj" /\ at # 0 -> v.members[at].value
          [] v.kind = "arr" /\ at # 0 -> v.items[at]
          [] OTHER -> Missing

\* v with x in the place of that child.
WithChild(v, key, x) ==
    LET at == First(v, key)
    IN  CASE v.kind = "obj" /\ at # 0 -> [v EXCEPT !.members[at].value = x]
          [] v.kind = "arr" /\ at # 0 -> [v EXCEPT !.items[at] = x]
          [] v.kind = "obj" /\ at = 0 -> [v EXCEPT !.members = Append(@, Member(key, x))]
          [] OTHER -> v

Set(v, path, new) ==
    LET old[n \in 0 .. Len(path)] == IF n = 0 THEN v ELSE Child(old[n - 1], path[n])
        patched[n \in 0 .. Len(path)] ==
            CASE old[n] = Missing \/ n = Len(path) -> Nest(SubSeq(path, n + 1, Len(path)), new)
              [] OTHER -> WithChild(old[n], path[n + 1], patched[n + 1])
    IN  patched[0]

-----------------------------------------------------------------------------
(* ContentField.                                                            *)

Field(path, value) == [path |-> path, value |-> value]

TextField(v, path) == IF IsText(v) THEN <<Field(path, v)>> ELSE <<>>

\* The fields of the elements of an array, in order; path indices count from 0.
Each(items, fieldsOf(_, _), base) ==
    FlattenSeq([n \in DOMAIN items |-> fieldsOf(items[n], Append(base, ToString(n - 1)))])

\* Result.ForEach: the elements of an array, or the members of an object under
\* their keys.
ForEach(v, base) ==
    CASE v.kind = "arr" -> [n \in DOMAIN v.items |-> Field(Append(base, ToString(n - 1)), v.items[n])]
      [] v.kind = "obj" -> [n \in DOMAIN v.members |-> Field(Append(base, v.members[n].key), v.members[n].value)]
      [] OTHER -> <<>>

\* The texts of the parts whose type is one of types.
TextParts(v, base, types) ==
    Each(Array(v), LAMBDA part, path :
            IF TypeIs(part, types) THEN TextField(Get(part, "text"), Append(path, "text")) ELSE <<>>, base)

-----------------------------------------------------------------------------
(* CollapseDuplicateKeys.                                                   *)

HasDuplicateKeys(v) ==
    \E x \in Nodes(v) : /\ x.kind = "obj"
                        /\ \E i, j \in DOMAIN x.members : i < j /\ x.members[i].key = x.members[j].key

\* Mutant: keys are compared as they are written.
CollapseRawKeys(v) ==
    LET later(x, i) == {j \in DOMAIN x.members : /\ x.members[j].key = x.members[i].key
                                                 /\ x.members[j].escaped = x.members[i].escaped}
        firsts(x) == SelectSeq([i \in DOMAIN x.members |-> i], LAMBDA i : \A j \in later(x, i) : i <= j)
        newest(x, i) == CHOOSE j \in later(x, i) : \A k \in later(x, i) : k <= j
        collapsed[x \in Nodes(v)] ==
            CASE x.kind = "obj" ->
                    Obj([n \in DOMAIN firsts(x) |->
                           [x.members[firsts(x)[n]] EXCEPT
                              !.value = collapsed[x.members[newest(x, firsts(x)[n])].value]]])
              [] x.kind = "arr" -> Arr([i \in DOMAIN x.items |-> collapsed[x.items[i]]])
              [] OTHER -> x
    IN  collapsed[v]

\* Each key stays where it first occurred and takes its last value.
Collapse(v) ==
    LET same(x, i) == {j \in DOMAIN x.members : x.members[j].key = x.members[i].key}
        firsts(x) == SelectSeq([i \in DOMAIN x.members |-> i], LAMBDA i : \A j \in same(x, i) : i <= j)
        last(x, i) == CHOOSE j \in same(x, i) : \A k \in same(x, i) : k <= j
        collapsed[x \in Nodes(v)] ==
            CASE x.kind = "obj" ->
                    Obj([n \in DOMAIN firsts(x) |->
                           [x.members[firsts(x)[n]] EXCEPT
                              !.value = collapsed[x.members[last(x, firsts(x)[n])].value]]])
              [] x.kind = "arr" -> Arr([i \in DOMAIN x.items |-> collapsed[x.items[i]]])
              [] OTHER -> x
    IN  collapsed[v]

\* gjson.ValidBytes with the literals in allowed taken for numbers.
Valid(v, allowed) ==
    \A x \in Nodes(v) : x.kind \notin {"garbage", "missing", "nonfinite"} \ allowed

NonFiniteAsNumbers == {"nonfinite"}

\* A document that a strict parser rejects is never rebuilt.
CollapseDuplicateKeys(body) ==
    IF /\ body.kind \in {"obj", "arr"} /\ HasDuplicateKeys(body)
       /\ Valid(body, {}) \/ Valid(body, NonFiniteAsNumbers)
      THEN Collapse(body) ELSE body
=============================================================================
