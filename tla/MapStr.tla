------------------------------- MODULE MapStr -------------------------------
(***************************************************************************)
(* Nested maps with dotted keys (src/mapstr/mapstr.go, mapstr_pointer.go   *)
(* and src/safemapstr/safemapstr.go): one goroutine works on an event, on  *)
(* the fields it is given and on a clone of the event.                     *)
(*                                                                         *)
(* Go's maps and arrays are references, so the maps live in a heap: heap   *)
(* holds for each reference a function from keys to values.  A key is the  *)
(* sequence of its segments: <<"a", "b">> as a key OF a map is the literal *)
(* key "a.b", as an ARGUMENT it is the dotted path.  A value is            *)
(* [leaf |-> x], [map |-> reference] or, for an array, [arr |-> reference, *)
(* len |-> length, any |-> it is a []interface{}, not a []string]; arrays  *)
(* holds the backing array of each array, whose length is the capacity.    *)
(***************************************************************************)
EXTENDS Integers, Sequences, FiniteSets, TLC
LOCAL INSTANCE FiniteSetsExt
LOCAL INSTANCE SequencesExt

CONSTANTS
  InitialHeaps,   \* heaps to begin with: 1 is the event, 2 the fields
  InitialArrays,  \* the backing arrays they use
  Paths,          \* the dotted keys the operations are called with
  LowerOf,        \* strings.ToLower of the segments it changes
  Masked,         \* the keys of maskList
  MaxOps          \* bound on the number of operations

VARIABLES
  heap,    \* reference -> map
  arrays,  \* reference -> backing array
  event,   \* the map the Pointer holds
  clone,   \* the copy made by Clone, 0 before that
  op,      \* the last operation, its arguments and its result
  ops      \* number of operations

vars == <<heap, arrays, event, clone, op, ops>>

Fields == 2
EmptyMap == [k \in {} |-> 0]
FieldsKey == <<"fields">>
TagsKey == <<"tags">>
alternativeKey == <<"value">>
Leaf(x) == [leaf |-> x]
MapOf(r) == [map |-> r]
IsMap(v) == "map" \in DOMAIN v
IsArray(v) == "arr" \in DOMAIN v

New == [leaf |-> "new"]

(* m[k] = v, and a heap with one more map.                                 *)
Store(h, m, k, v) == [h EXCEPT ![m] = (k :> v) @@ h[m]]
Unset(h, m, k) == [h EXCEPT ![m] = [x \in DOMAIN h[m] \ {k} |-> h[m][x]]]
Alloc(h, m) == Append(h, m)

-----------------------------------------------------------------------------
(* Finding a key.                                                          *)

Found(h, err, key, m, present) ==
  [h |-> h, err |-> err, key |-> key, map |-> m, present |-> present]

\* Mutation: a value in the way is replaced by a map.
RECURSIVE mapFindOverwriting(_, _, _, _)
mapFindOverwriting(h, key, data, createMissing) ==
  IF key \in DOMAIN h[data] THEN Found(h, "", key, data, TRUE)
  ELSE IF Len(key) = 1 THEN Found(h, "", key, data, FALSE)
  ELSE LET k == <<Head(key)>>
           usable == k \in DOMAIN h[data] /\ IsMap(h[data][k])
           grown == Store(Alloc(h, EmptyMap), data, k, MapOf(Len(h) + 1))
           h2 == IF usable THEN h ELSE grown
       IN IF ~usable /\ ~createMissing THEN Found(h, "not found", key, data, FALSE)
          ELSE mapFindOverwriting(h2, Tail(key), h2[data][k].map, createMissing)

RECURSIVE findFrom(_, _, _, _)
findFrom(h, key, data, createMissing) ==
  IF key \in DOMAIN h[data] THEN Found(h, "", key, data, TRUE)
  ELSE IF Len(key) = 1 THEN Found(h, "", key, data, FALSE)
  ELSE LET k == <<Head(key)>>
           exists == k \in DOMAIN h[data]
           grown == Store(Alloc(h, EmptyMap), data, k, MapOf(Len(h) + 1))
           h2 == IF exists THEN h ELSE grown
       IN IF ~exists /\ ~createMissing THEN Found(h, "not found", key, data, FALSE)
          ELSE IF ~IsMap(h2[data][k]) THEN Found(h2, "not a map", key, data, FALSE)
          ELSE findFrom(h2, Tail(key), h2[data][k].map, createMissing)

mapFind(h, key, data, createMissing) == findFrom(h, key, data, createMissing)

(* GetValue: the value, or the error as a leaf.                            *)
GetValue(h, m, key) ==
  LET f == mapFind(h, key, m, FALSE)
  IN IF f.err = "" /\ f.present THEN f.h[f.map][f.key] ELSE Leaf("not found")

HasKey(h, m, key) == mapFind(h, key, m, FALSE).present

(* safemapstr.mapFind: a value in the way moves to "value" of a new map.   *)
RECURSIVE safeFind(_, _, _)
safeFind(h, key, data) ==
  IF key \in DOMAIN h[data]
  THEN IF IsMap(h[data][key]) THEN Found(h, "", alternativeKey, h[data][key].map, TRUE)
       ELSE Found(h, "", key, data, TRUE)
  ELSE IF Len(key) = 1 THEN Found(h, "", key, data, FALSE)
  ELSE LET k == <<Head(key)>>
           exists == k \in DOMAIN h[data]
           inner == IF exists THEN alternativeKey :> h[data][k] ELSE EmptyMap
           h2 == IF exists /\ IsMap(h[data][k]) THEN h
                 ELSE Store(Alloc(h, inner), data, k, MapOf(Len(h) + 1))
       IN safeFind(h2, Tail(key), h2[data][k].map)

-----------------------------------------------------------------------------
(* Copying and merging.                                                    *)

Update(h, m, d) == [h EXCEPT ![m] = h[d] @@ h[m]]

(* deepUpdateMap and deepUpdateValue: a nested map of d is merged into the *)
(* map there is, and becomes the value (the map itself, not a copy) where  *)
(* there is none.                                                          *)
RECURSIVE deepUpdateMap(_, _, _, _)
deepUpdateMap(h, m, d, overwrite) ==
  LET one(k, hh) ==
        LET v == hh[d][k]
            old == k \in DOMAIN hh[m]
        IN IF IsMap(v) /\ old /\ IsMap(hh[m][k])
           THEN deepUpdateMap(hh, hh[m][k].map, v.map, overwrite)
           ELSE IF IsMap(v) \/ overwrite \/ ~old THEN Store(hh, m, k, v)
           ELSE hh
  IN FoldSet(one, h, DOMAIN h[d])

\* Mutation: the references to the nested maps are copied.
cloneShallow(h, src) == Alloc(h, h[src])

(* Clone and cloneMap: the copy is the map at reference Len(h) + 1.        *)
RECURSIVE cloneDeep(_, _)
cloneDeep(h, src) ==
  LET dst == Len(h) + 1
      one(k, hh) ==
        IF IsMap(h[src][k])
        THEN Store(cloneDeep(hh, h[src][k].map), dst, k, MapOf(Len(hh) + 1))
        ELSE Store(hh, dst, k, h[src][k])
  IN FoldSet(one, Alloc(h, EmptyMap), DOMAIN h[src])

cloneMap(h, src) == cloneDeep(h, src)

(* mergeFieldsGetDestMap.                                                  *)
DestMap(h, target, underRoot) ==
  IF underRoot THEN Found(h, "", FieldsKey, target, TRUE)
  ELSE IF FieldsKey \notin DOMAIN h[target]
  THEN Found(Store(Alloc(h, EmptyMap), target, FieldsKey, MapOf(Len(h) + 1)),
             "", FieldsKey, Len(h) + 1, FALSE)
  ELSE LET f == h[target][FieldsKey]
       IN IF IsMap(f) THEN Found(h, "", FieldsKey, f.map, TRUE)
          ELSE Found(h, "not a map", FieldsKey, target, TRUE)

-----------------------------------------------------------------------------
(* Walking a path level by level, with or without regard to case.          *)

LowerKey(k) == [i \in DOMAIN k |-> IF k[i] \in DOMAIN LowerOf THEN LowerOf[k[i]] ELSE k[i]]
Match(segment, k, fold) ==
  IF fold THEN LowerKey(<<segment>>) = LowerKey(k) ELSE <<segment>> = k

(* The visitor of AlterPath with strings.ToLower, which keeps the order    *)
(* "look, delete, store"; alter is FALSE for a visitor that only reads.    *)
AlterVisitor(h, level, k, alter) ==
  LET newKey == LowerKey(k)
  IN IF ~alter \/ newKey = k THEN [h |-> h, err |-> ""]
     ELSE IF newKey \in DOMAIN h[level] THEN [h |-> h, err |-> "collision"]
     ELSE [h |-> Store(Unset(h, level, k), level, newKey, h[level][k]), err |-> ""]

(* The possible outcomes of Traverse.  The keys of a level come in any     *)
(* order, and a key the visitor adds to the map that is being ranged over  *)
(* may come too: it then counts as a second match.                         *)
RECURSIVE Traverse(_, _, _, _, _)
Traverse(h, level, segments, fold, alter) ==
  LET matching == {k \in DOMAIN h[level] : Match(Head(segments), k, fold)}
      last == Len(segments) = 1
      from(k) ==
        LET v == AlterVisitor(h, level, k, alter)
            next == h[level][k]
            seenAgain == fold /\ v.h # h
            again == [h |-> v.h, err |-> "collision", value |-> next]
        IN IF v.err # "" THEN {[h |-> v.h, err |-> v.err, value |-> next]}
           ELSE IF ~last /\ ~IsMap(next)
           THEN {[h |-> v.h, err |-> "not a map", value |-> next]}
           ELSE IF matching # {k} THEN {again}
           ELSE (IF seenAgain THEN {again} ELSE {})
                \cup (IF last THEN {[h |-> v.h, err |-> "", value |-> next]}
                      ELSE Traverse(v.h, next.map, Tail(segments), fold, alter))
  IN IF matching = {} THEN {[h |-> h, err |-> "not found", value |-> Leaf("none")]}
     ELSE UNION {from(k) : k \in matching}

FindFold(h, m, path) == Traverse(h, m, path, TRUE, FALSE)
AlterPath(h, m, path, fold) == Traverse(h, m, path, fold, TRUE)

-----------------------------------------------------------------------------
(* The tree under a map: every path of keys with what is there.            *)

RECURSIVE Nodes(_, _)
Nodes(h, m) ==
  UNION {LET v == h[m][k]
         IN IF IsMap(v)
            THEN {<<<<k>>, Leaf("map")>>}
                 \cup {<<<<k>> \o n[1], n[2]>> : n \in Nodes(h, v.map)}
            ELSE {<<<<k>>, v>>}
         : k \in DOMAIN h[m]}

Inner == Leaf("map")
PathsOf(N) == {n[1] : n \in N}
At(N, p) == (CHOOSE n \in N : n[1] = p)[2]
Dotted(p) == FlattenSeq(p)

(* flatten: where two nodes have one dotted name, the range order decides. *)
Flatten(h, m) ==
  LET N == {n \in Nodes(h, m) : n[2] # Inner}
      named(k) == {n[2] : n \in {x \in N : Dotted(x[1]) = k}}
      one(k, outs) == {(k :> v) @@ out : v \in named(k), out \in outs}
  IN FoldSet(one, {EmptyMap}, {Dotted(n[1]) : n \in N})

-----------------------------------------------------------------------------
(* The operations.                                                         *)

Init ==
  /\ heap \in InitialHeaps
  /\ arrays = InitialArrays
  /\ event = 1
  /\ clone = 0
  /\ op = [name |-> "none", m |-> 1, key |-> <<>>, err |-> "", flag |-> FALSE]
  /\ ops = 0

Done(name, m, key, err, flag) ==
  /\ ops < MaxOps
  /\ ops' = ops + 1
  /\ op' = [name |-> name, m |-> m, key |-> key, err |-> err, flag |-> flag]

Put(m, key) ==
  LET f == mapFind(heap, key, m, TRUE)
  IN /\ Done("put", m, key, f.err, FALSE)
     /\ heap' = IF f.err = "" THEN Store(f.h, f.map, f.key, New) ELSE f.h
     /\ UNCHANGED <<arrays, event, clone>>

Delete(m, key) ==
  LET f == mapFind(heap, key, m, FALSE)
      err == IF f.err = "" /\ ~f.present THEN "not found" ELSE f.err
  IN /\ Done("delete", m, key, err, FALSE)
     /\ heap' = IF err = "" THEN Unset(heap, f.map, f.key) ELSE heap
     /\ UNCHANGED <<arrays, event, clone>>

SafePut(m, key) ==
  LET f == safeFind(heap, key, m)
  IN /\ Done("safe put", m, key, "", FALSE)
     /\ heap' = Store(f.h, f.map, f.key, New)
     /\ UNCHANGED <<arrays, event, clone>>

DeepUpdate(overwrite) ==
  /\ Done("deep update", event, <<>>, "", overwrite)
  /\ heap' = deepUpdateMap(heap, event, Fields, overwrite)
  /\ UNCHANGED <<arrays, event, clone>>

UpdateEvent ==
  /\ Done("update", event, <<>>, "", FALSE)
  /\ heap' = Update(heap, event, Fields)
  /\ UNCHANGED <<arrays, event, clone>>

CopyFieldsTo(key) ==
  LET v == GetValue(heap, Fields, key)
      f == mapFind(heap, key, event, TRUE)
      err == IF ~HasKey(heap, Fields, key) THEN "not found" ELSE f.err
  IN /\ Done("copy", event, key, err, FALSE)
     /\ heap' = IF err = "" THEN Store(f.h, f.map, f.key, v)
                ELSE IF HasKey(heap, Fields, key) THEN f.h ELSE heap
     /\ UNCHANGED <<arrays, event, clone>>

Clone ==
  /\ clone = 0
  /\ Done("clone", event, <<>>, "", FALSE)
  /\ heap' = cloneMap(heap, event)
  /\ clone' = Len(heap) + 1
  /\ UNCHANGED <<arrays, event>>

(* MergeFields and MergeFieldsDeep of the fields into the event.           *)
MergeFields(deep, underRoot) ==
  LET d == DestMap(heap, event, underRoot)
  IN /\ DOMAIN heap[Fields] # {}
     /\ Done("merge", event, <<>>, d.err, underRoot)
     /\ heap' = IF d.err # "" THEN d.h
                ELSE IF deep THEN deepUpdateMap(d.h, d.map, Fields, TRUE)
                ELSE Update(d.h, d.map, Fields)
     /\ UNCHANGED <<arrays, event, clone>>

(* AddTagsWithKey with one tag: append writes into the backing array while *)
(* there is room, and moves to one of twice the size when there is not.    *)
AddTagsWithKey(m, key) ==
  LET f == mapFind(heap, key, m, TRUE)
      old == f.h[f.map][f.key]
      bad == f.err = "" /\ f.present /\ ~IsArray(old)
      room == f.present /\ IsArray(old) /\ old.len < Len(arrays[old.arr])
      moved == IF f.present /\ IsArray(old)
               THEN LET a == arrays[old.arr]
                    IN [i \in 1 .. 2 * Len(a) |->
                          IF i <= Len(a) THEN a[i] ELSE IF i = Len(a) + 1 THEN "tag" ELSE ""]
               ELSE <<"tag">>
  IN /\ Done("tags", m, key, IF bad THEN "not an array" ELSE f.err, FALSE)
     /\ IF bad \/ f.err # "" THEN heap' = f.h /\ UNCHANGED arrays
        ELSE IF room
        THEN /\ arrays' = [arrays EXCEPT ![old.arr][old.len + 1] = "tag"]
             /\ heap' = Store(f.h, f.map, f.key, [old EXCEPT !.len = @ + 1])
        ELSE /\ arrays' = Append(arrays, moved)
             /\ heap' = Store(f.h, f.map, f.key,
                    IF f.present THEN [old EXCEPT !.arr = Len(arrays) + 1, !.len = @ + 1]
                    ELSE [arr |-> Len(arrays) + 1, len |-> 1, any |-> FALSE])
     /\ UNCHANGED <<event, clone>>

Alter(m, key, fold) ==
  \E t \in AlterPath(heap, m, key, fold) :
    /\ Done("alter", m, key, t.err, fold)
    /\ heap' = t.h
    /\ UNCHANGED <<arrays, event, clone>>

(* ApplyLoggingMask on a clone c of a map, whose nested maps have type M   *)
(* and are passed over: a value is replaced in the clone, the elements of  *)
(* a []interface{} are replaced in the array, which the clone shares.      *)
ApplyLoggingMask(h, c, as) ==
  LET hidden == {k \in DOMAIN h[c] : k \in Masked /\ IsArray(h[c][k]) /\ h[c][k].any}
      longest(a) == Max({0} \cup {h[c][k].len : k \in {x \in hidden : h[c][x].arr = a}})
  IN [a \in DOMAIN as |->
        [i \in DOMAIN as[a] |-> IF i <= longest(a) THEN "xxxxx" ELSE as[a][i]]]

(* Format with %v or %s, and MarshalLogObject: the masked clone is written *)
(* out and forgotten.                                                      *)
Format(m) ==
  LET h == cloneMap(heap, m)
  IN /\ Done("print", m, <<>>, "", FALSE)
     /\ arrays' = ApplyLoggingMask(h, Len(heap) + 1, arrays)
     /\ UNCHANGED <<heap, event, clone>>

(* Pointer.Set of a new map: the union with the fields, or the flat map.   *)
SetUnion ==
  /\ Done("union", event, <<>>, "", FALSE)
  /\ heap' = Alloc(heap, heap[Fields] @@ heap[event])
  /\ event' = Len(heap) + 1
  /\ UNCHANGED <<arrays, clone>>

SetFlat ==
  \E f \in Flatten(heap, event) :
    /\ Done("flatten", event, <<>>, "", FALSE)
    /\ heap' = Alloc(heap, f)
    /\ event' = Len(heap) + 1
    /\ UNCHANGED <<arrays, clone>>

Next ==
  \/ \E m \in {event, Fields}, key \in Paths :
       Put(m, key) \/ Delete(m, key) \/ SafePut(m, key) \/ AddTagsWithKey(m, key)
  \/ \E m \in {event, Fields} : AddTagsWithKey(m, TagsKey)
  \/ \E key \in Paths, fold \in BOOLEAN : Alter(event, key, fold)
  \/ \E overwrite \in BOOLEAN : DeepUpdate(overwrite)
  \/ \E key \in Paths : CopyFieldsTo(key)
  \/ \E deep, underRoot \in BOOLEAN : MergeFields(deep, underRoot)
  \/ Format(event)
  \/ UpdateEvent
  \/ Clone
  \/ SetUnion
  \/ SetFlat

Spec == Init /\ [][Next]_vars

-----------------------------------------------------------------------------
(* What the operations do to the tree N, by paths.                         *)

NotUnder(N, place) == {n \in N : ~IsPrefix(place, n[1])}
Above(place) == {<<SubSeq(place, 1, i), Inner>> : i \in 1 .. Len(place) - 1}

IsPut(N, N2, key) ==
  \E place \in PathsOf(N2) :
    /\ Dotted(place) = key
    /\ N2 = NotUnder(N, place) \cup Above(place) \cup {<<place, New>>}

IsDelete(N, N2, key) ==
  \E place \in PathsOf(N) : Dotted(place) = key /\ N2 = NotUnder(N, place)

IsSafePut(N, N2, key) ==
  /\ \E n \in N2 : n[2] = New /\ Dotted(n[1]) \in {key, key \o alternativeKey}
  /\ \A n \in N :
       \/ n \in N2
       \/ n[2] # Inner /\ <<n[1] \o <<alternativeKey>>, n[2]>> \in N2
       \/ Dotted(n[1]) \in {key, key \o alternativeKey}
       \/ Dotted(n[1]) \o alternativeKey = key

IsDeepUpdate(N, N2, D, overwrite) ==
  LET both(p) == {q \in PathsOf(N) \cap PathsOf(D) : IsPrefix(q, p)}
      merged(q) == At(N, q) = Inner /\ At(D, q) = Inner
      grown(q) == At(N, q) # Inner /\ At(D, q) = Inner
      stays(q) == merged(q) \/ (~overwrite /\ ~grown(q))
      comes(q) == merged(q) \/ overwrite \/ grown(q)
  IN N2 = {n \in N : \A q \in both(n[1]) : stays(q)}
          \cup {n \in D : \A q \in both(n[1]) : comes(q)}

IsAlter(N, N2) ==
  LET low(n) == <<[i \in DOMAIN n[1] |-> LowerKey(n[1][i])], n[2]>>
  IN /\ Cardinality(N2) = Cardinality(N)
     /\ {low(n) : n \in N2} = {low(n) : n \in N}

(* No nested map is at two places of the tree under m.                     *)
RECURSIVE Refs(_, _)
Refs(h, m) ==
  {m} \cup UNION {Refs(h, h[m][k].map) : k \in {x \in DOMAIN h[m] : IsMap(h[m][x])}}
Unshared(h, m) ==
  Cardinality({n \in Nodes(h, m) : n[2] = Inner}) + 1 = Cardinality(Refs(h, m))

(* Every operation changes the map it is called on as its path says, and   *)
(* only there (mapstr.go and safemapstr.go), as long as no nested map is   *)
(* at two places of it.  Put and Delete replace or remove exactly what is  *)
(* at the key, and change nothing when they fail; safemapstr.Put loses no  *)
(* value but the one it replaces: a value in the way moves to "value";     *)
(* DeepUpdate merges by paths; and AlterPath, also one that fails half     *)
(* way, loses no value and only changes the case of keys.                  *)
StepsExact ==
  [][LET N == Nodes(heap, op'.m)
         N2 == Nodes(heap', op'.m)
         key == op'.key
     IN Unshared(heap, op'.m) =>
          /\ op'.name \in {"put", "delete"} /\ op'.err # "" => N2 = N
          /\ op'.name = "put" /\ op'.err = "" =>
               IsPut(N, N2, key) /\ GetValue(heap', op'.m, key) = New
          /\ op'.name = "delete" /\ op'.err = "" => IsDelete(N, N2, key)
          /\ op'.name = "safe put" => IsSafePut(N, N2, key)
          /\ op'.name = "deep update" =>
               IsDeepUpdate(N, N2, Nodes(heap, Fields), op'.flag)
          /\ op'.name = "alter" =>
               /\ IsAlter(N, N2)
               /\ op'.err = "" =>
                    \A t \in FindFold(heap', op'.m, key) : t.err # "not found"]_vars

(* Printing a map changes nothing a reader of the map can see (Format,     *)
(* mapstr.go:435).  mapstr_test.go:1097-1117 prints one map with each verb *)
(* in any order and expects the unmasked values after the masked ones.     *)
PrintingChangesNothing == [][op'.name = "print" => heap' = heap /\ arrays' = arrays]_vars

(* A clone stays as it was made, whatever is done to the event and to the  *)
(* fields later: Clone (mapstr.go:159) shares no map with its original.    *)
(* (Arrays are shared, as its comment says, and count by identity here.)   *)
CloneIsolated ==
  [][/\ clone # 0 => Nodes(heap', clone) = Nodes(heap, clone)
     /\ clone # clone' => Nodes(heap', clone') = Nodes(heap, event)]_vars

=============================================================================
