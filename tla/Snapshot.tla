------------------------------ MODULE Snapshot ------------------------------
(***************************************************************************)
(* Snapshots of the metrics (src/monitoring/snapshot.go, visitor*.go): the *)
(* registry and then expvar call a visitor, one call a step, and three     *)
(* visitors build the flat snapshot, the structured one and the pairs of   *)
(* KeyValueVisitor.  A registry is a sequence of entries [name, mode] with *)
(* either a value "leaf" or entries "sub"; an expvar entry has no mode but *)
(* a kind.  The tree does not change while it is visited (Registry models  *)
(* what happens when it does).                                             *)
(***************************************************************************)
EXTENDS Integers, Sequences, SequencesExt

CONSTANTS
  Trees,    \* the registries
  Expvars,  \* what is published with expvar
  Skipped   \* the names of expvar itself: memstats, cmdline

VARIABLES
  tree, expvars, mode, withExpvar,  \* the call
  calls,    \* the calls of the visitor still to come
  phase,    \* "registry", "expvar" or "done"
  flat,     \* flat snapshot: set of <<path, value>>
  level,    \* its stack of names, and that of KeyValueVisitor
  key, keys,      \* keyStack: current and stack
  event, events,  \* eventStack: current and stack
  depth,
  snapshot  \* what the registry's visit left in event.current

vars == <<tree, expvars, mode, withExpvar, calls, phase, flat, level, key, keys, event,
          events, depth, snapshot>>

Nil == [nil |-> TRUE]
Value(v) == [value |-> v]
Map(m) == [map |-> m]

-----------------------------------------------------------------------------
(* The calls.                                                              *)
Start == [call |-> "start"]
Finish == [call |-> "finish"]
OnKey(name) == [call |-> "key", name |-> name]
OnValue(v) == [call |-> "value", value |-> v]

IsSub(e) == "sub" \in DOMAIN e

(* Registry.Visit: entries of a lower mode only; a registry has no mode.   *)
RECURSIVE Visit(_, _)
Visit(entries, m) ==
  LET one(e) == IF IsSub(e) THEN <<OnKey(e.name)>> \o Visit(e.sub, m)
                ELSE IF e.mode <= m THEN <<OnKey(e.name), OnValue(e.leaf)>> ELSE <<>>
  IN <<Start>> \o FlattenSeq([k \in DOMAIN entries |-> one(entries[k])]) \o <<Finish>>

(* ignoreExpvar: variables of monitoring itself, and at the top level the  *)
(* ones expvar adds.                                                       *)
ignoreExpvar(e, top) == (~IsSub(e) /\ e.monitoring) \/ (top /\ e.name \in Skipped)

(* VisitExpvars.                                                           *)
RECURSIVE VisitExpvars(_, _)
VisitExpvars(entries, top) ==
  LET one(e) == IF ignoreExpvar(e, top) THEN <<>>
                ELSE IF IsSub(e) THEN <<OnKey(e.name)>> \o VisitExpvars(e.sub, FALSE)
                ELSE <<OnKey(e.name), OnValue(e.leaf)>>
  IN <<Start>> \o FlattenSeq([k \in DOMAIN entries |-> one(entries[k])]) \o <<Finish>>

Init ==
  /\ tree \in Trees /\ expvars \in Expvars
  /\ mode \in {0, 1} /\ withExpvar \in BOOLEAN
  /\ calls = Visit(tree, mode)
  /\ phase = "registry"
  /\ flat = {} /\ level = <<>>
  /\ key = "" /\ keys = <<>> /\ event = Nil /\ events = <<>> /\ depth = 0
  /\ snapshot = Nil

-----------------------------------------------------------------------------
(* The visitors.                                                           *)
IsNil(e) == "nil" \in DOMAIN e
Put(m, k, v) == Map([x \in {k} \cup (IF IsNil(m) THEN {} ELSE DOMAIN m.map) |->
                       IF x = k THEN v ELSE m.map[x]])

(* The flat snapshot joins the names on its stack.  KeyValueVisitor keeps  *)
(* the same stack, and its callback gets the pair the snapshot stores.     *)
getName == level
dropName == Front(level)
cb(v) == <<getName, v>>
flatten(v) == flat \cup {cb(v)}

(* The stacks of the structured snapshot.                                  *)
pushKey(k) == keys' = Append(keys, key) /\ key' = k
popKey == keys' = Front(keys) /\ key' = Last(keys)
pushEvent == events' = Append(events, event) /\ event' = Nil

Calls(c) == phase # "done" /\ calls # <<>> /\ Head(calls).call = c /\ calls' = Tail(calls)
fixed == <<tree, expvars, mode, withExpvar, phase, snapshot>>

OnRegistryStart ==
  /\ Calls("start")
  /\ IF depth > 0 THEN pushEvent
     ELSE UNCHANGED <<event, events>>
  /\ depth' = depth + 1
  /\ UNCHANGED <<fixed, flat, level, key, keys>>

OnKeyCall ==
  /\ Calls("key")
  /\ level' = Append(level, Head(calls).name)
  /\ pushKey(Head(calls).name)
  /\ UNCHANGED <<fixed, flat, event, events, depth>>

(* getName and setValue drop the name they use.                            *)
OnValueCall ==
  /\ Calls("value")
  /\ flat' = flatten(Head(calls).value)
  /\ level' = dropName
  /\ event' = Put(event, key, Value(Head(calls).value))
  /\ popKey
  /\ UNCHANGED <<fixed, events, depth>>

\* Mutation: the key of an empty registry stays.
FinishKeepingKey ==
  /\ Calls("finish")
  /\ level' = IF level # <<>> THEN dropName ELSE level
  /\ depth' = depth - 1
  /\ IF depth = 1 THEN UNCHANGED <<key, keys, event, events>>
     ELSE IF IsNil(event)
     THEN event' = Last(events) /\ events' = Front(events) /\ UNCHANGED <<key, keys>>
     ELSE /\ event' = Put(Last(events), key, event)
          /\ events' = Front(events)
          /\ popKey
  /\ UNCHANGED <<fixed, flat>>

(* OnRegistryFinished: an empty registry leaves nothing but its key to     *)
(* drop.                                                                   *)
OnRegistryFinished ==
  /\ Calls("finish")
  /\ level' = IF level # <<>> THEN dropName ELSE level
  /\ depth' = depth - 1
  /\ IF depth = 1 THEN UNCHANGED <<key, keys, event, events>>
     ELSE /\ event' = IF IsNil(event) THEN Last(events) ELSE Put(Last(events), key, event)
          /\ events' = Front(events)
          /\ popKey
  /\ UNCHANGED <<fixed, flat>>

(* CollectFlatSnapshot and CollectStructSnapshot: the structured snapshot  *)
(* of expvar is one of its own, merged into that of the registry, which is *)
(* nil when the registry is empty: a write into it panics.                 *)
Collected ==
  /\ phase = "registry" /\ calls = <<>>
  /\ snapshot' = event
  /\ phase' = IF withExpvar THEN "expvar" ELSE "done"
  /\ calls' = IF withExpvar THEN VisitExpvars(expvars, TRUE) ELSE <<>>
  /\ event' = IF withExpvar THEN Nil ELSE event
  /\ UNCHANGED <<tree, expvars, mode, withExpvar, flat, level, key, keys, events, depth>>

Merged ==
  /\ phase = "expvar" /\ calls = <<>>
  /\ phase' = IF ~IsNil(event) /\ IsNil(snapshot) THEN "panic" ELSE "done"
  /\ snapshot' = IF IsNil(event) \/ IsNil(snapshot) THEN snapshot
                 ELSE Map([k \in DOMAIN snapshot.map \cup DOMAIN event.map |->
                             IF k \in DOMAIN event.map THEN event.map[k] ELSE snapshot.map[k]])
  /\ UNCHANGED <<tree, expvars, mode, withExpvar, calls, flat, level, key, keys, event,
                 events, depth>>

Next == OnRegistryStart \/ OnKeyCall \/ OnValueCall \/ OnRegistryFinished \/ Collected \/ Merged

Spec == Init /\ [][Next]_vars

-----------------------------------------------------------------------------
(* What a snapshot is, without stacks: the leaves with their paths, and    *)
(* the tree without its empty registries.                                  *)
Shows(e, m, isVar, top) ==
  IF isVar THEN ~ignoreExpvar(e, top) ELSE IsSub(e) \/ e.mode <= m

RECURSIVE Leaves(_, _, _, _, _)
Leaves(entries, m, isVar, top, path) ==
  UNION {LET e == entries[k] IN
         IF ~Shows(e, m, isVar, top) THEN {}
         ELSE IF IsSub(e) THEN Leaves(e.sub, m, isVar, FALSE, Append(path, e.name))
         ELSE {<<Append(path, e.name), e.leaf>>} : k \in DOMAIN entries}

RECURSIVE Pruned(_)
Pruned(leaves) ==
  IF leaves = {} THEN Nil
  ELSE LET first == {l[1][1] : l \in leaves}
           under(n) == {l \in leaves : l[1][1] = n}
       IN Map([n \in first |->
                IF \E l \in under(n) : Len(l[1]) = 1
                THEN Value((CHOOSE l \in under(n) : TRUE)[2])
                ELSE Pruned({<<Tail(l[1]), l[2]>> : l \in under(n)})])

(* Both snapshots of a tree of registries hold exactly the variables of    *)
(* the mode under their full names, with those of expvar on top, and empty *)
(* registries leave no trace (snapshot.go:57-101): the stacks of names,    *)
(* keys and events are back where they were after every registry, however  *)
(* empty ones are nested and placed.                                       *)
SnapshotExact ==
  LET registry == Leaves(tree, mode, FALSE, TRUE, <<>>)
      published == IF withExpvar THEN Leaves(expvars, mode, TRUE, TRUE, <<>>) ELSE {}
      names == {l[1][1] : l \in published}
  IN /\ phase = "done" =>
          /\ flat = registry \cup published
          /\ snapshot = Pruned({l \in registry : l[1][1] \notin names} \cup published)
          /\ level = <<>> /\ keys = <<>> /\ events = <<>>
     /\ phase = "panic" => registry = {} /\ published # {}
=============================================================================
