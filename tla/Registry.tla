------------------------------ MODULE Registry ------------------------------
(***************************************************************************)
(* The metrics registry (src/monitoring/registry.go, metrics.go): a tree   *)
(* of registries, each with a lock of its own, that goroutines change,     *)
(* search and visit at the same time.                                      *)
(*                                                                         *)
(* A call walks down a path of names.  Add, GetOrCreateRegistry and Remove *)
(* keep the locks of all registries on their way, Get gives each one back  *)
(* before it goes on, and Visit keeps the read locks.  A step takes one    *)
(* lock and does what the code does while it holds it.  A goroutine calls  *)
(* methods of the root or of a registry it was given before, which may     *)
(* have been detached meanwhile.  Options and modes are left out: the      *)
(* visits are in mode Full and nothing is published with expvar.  A panic  *)
(* is an outcome of the call; its deferred unlocks run all the same.       *)
(***************************************************************************)
EXTENDS Integers, Sequences

CONSTANTS
  Threads,        \* the goroutines
  NoThread,       \* nobody
  Names,          \* names without dots
  Programs,       \* the programs that use the registry
  MaxRegistries   \* bound on the number of registries that are created

Methods == {"Add", "NewRegistry", "NewInt", "NewIntDefault", "GetOrCreateRegistry",
            "GetRegistry", "Remove", "Clear", "Visit"}

\* A program has the methods each goroutine calls, the names it passes to them,
\* split at the dots, how often it calls, and whether goroutines keep and use
\* registries they were given.
ASSUME ConstantsAssumption ==
  /\ NoThread \notin Threads
  /\ MaxRegistries \in Nat \ {0}
  /\ \A P \in Programs :
       /\ \A t \in Threads : P.methods[t] \subseteq Methods
       /\ P.paths \subseteq Seq(Names) \ {<< >>}

Root == 1
Registries == 1 .. MaxRegistries
None == [kind |-> "none", id |-> 0]
Reg(r) == [kind |-> "registry", id |-> r]
Var(x) == [kind |-> "variable", id |-> x]

VARIABLES
  program,     \* the program that is run
  entries,     \* Registry.entries of each registry
  registries,  \* number of registries so far
  variables,   \* number of variables so far
  writer,      \* who holds Registry.mu
  readers,     \* who holds Registry.mu for reading
  txMu,        \* who holds Registry.txMu
  thread,      \* what each goroutine is doing
  handle,      \* the registry it was given last
  result,      \* what its last call returned, or "panic"
  calls,       \* number of calls it has made
  seen,        \* how often its visit has met each variable
  steady,      \* the variables that have been below its base all through the visit
  views        \* what its path has led to since its call

treeVars == <<program, entries, registries, variables>>
lockVars == <<writer, readers, txMu>>
callVars == <<handle, result, calls>>
visitVars == <<seen, steady, views>>
vars == <<treeVars, lockVars, thread, callVars, visitVars>>

Idle == [op |-> "idle", base |-> Root, path |-> << >>, at |-> Root, rest |-> << >>,
         held |-> << >>]

Empty == [n \in Names |-> None]

-----------------------------------------------------------------------------
(* The tree.                                                               *)

\* A place is a registry and a name in it.
Places == {<<r, n>> : r \in Registries, n \in Names}
At(p) == entries[p[1]][p[2]]

\* What the registries R of a tree have among their entries, by kind.
Among(tree, R, kind) ==
  {tree[p[1]][p[2]].id : p \in {q \in Places : q[1] \in R /\ tree[q[1]][q[2]].kind = kind}}

\* down[k]: the registries at most k levels below r.
VariablesBelow(tree, r) ==
  LET down[k \in 0 .. MaxRegistries] ==
        IF k = 0 THEN {r}
        ELSE UNION {R \union Among(tree, R, "registry") : R \in {down[k - 1]}}
  IN  Among(tree, down[MaxRegistries], "variable")

\* What the path leads to in a tree, from registry r.
Find(tree, r, path) ==
  LET down[k \in 0 .. Len(path)] ==
        IF k = 0 THEN Reg(r)
        ELSE IF down[k - 1].kind = "registry" THEN tree[down[k - 1].id][path[k]]
        ELSE None
  IN  down[Len(path)]

-----------------------------------------------------------------------------
(* Locks and calls.                                                        *)

Init ==
  /\ program \in Programs
  /\ entries = [r \in Registries |-> Empty]
  /\ registries = 1
  /\ variables = 0
  /\ writer = [r \in Registries |-> NoThread]
  /\ readers = [r \in Registries |-> {}]
  /\ txMu = [r \in Registries |-> NoThread]
  /\ thread = [t \in Threads |-> Idle]
  /\ handle = [t \in Threads |-> Root]
  /\ result = [t \in Threads |-> None]
  /\ calls = [t \in Threads |-> 0]
  /\ seen = [t \in Threads |-> << >>]
  /\ steady = [t \in Threads |-> {}]
  /\ views = [t \in Threads |-> {}]

\* The method is called on the root or on the registry the goroutine was given.
Call(t, op, base, path) ==
  /\ thread[t].op = "idle"
  /\ calls[t] < program.calls
  /\ op = "NewIntDefault" => base = Root
  /\ calls' = [calls EXCEPT ![t] = @ + 1]
  /\ thread' = [thread EXCEPT ![t] =
                  [op |-> op, base |-> base, path |-> path, at |-> base, rest |-> path,
                   held |-> << >>]]
  /\ seen' = [seen EXCEPT ![t] = << >>]
  /\ steady' = [steady EXCEPT ![t] = IF op = "Visit" THEN VariablesBelow(entries, base) ELSE {}]
  /\ views' = [views EXCEPT ![t] = {Find(entries, base, path)}]
  /\ UNCHANGED <<treeVars, lockVars, handle, result>>

CanLock(r) == writer[r] = NoThread /\ readers[r] = {}
CanRLock(r) == writer[r] = NoThread

\* The call returns x, and the deferred unlocks give back every lock.
Return(t, x) ==
  /\ thread' = [thread EXCEPT ![t] = Idle]
  /\ result' = [result EXCEPT ![t] = x]
  /\ handle' = [handle EXCEPT ![t] = IF x.kind = "registry" /\ program.sharing THEN x.id ELSE @]
  /\ writer' = [r \in Registries |-> IF writer[r] = t THEN NoThread ELSE writer[r]]
  /\ readers' = [r \in Registries |-> readers[r] \ {t}]
  /\ txMu' = [r \in Registries |-> IF txMu[r] = t THEN NoThread ELSE txMu[r]]

Panic == [kind |-> "panic", id |-> 0]

\* Go on to registry r and keep the lock of this one.
Descend(t, r) ==
  /\ writer' = [writer EXCEPT ![thread[t].at] = t]
  /\ thread' = [thread EXCEPT ![t].at = r,
                              ![t].rest = Tail(@),
                              ![t].held = Append(@, [reg |-> thread[t].at,
                                                     name |-> Head(thread[t].rest)])]
  /\ UNCHANGED <<treeVars, readers, txMu, callVars>>

\* The entry a call is looking at.
Entry(t) == entries[thread[t].at][Head(thread[t].rest)]
Last(t) == Len(thread[t].rest) = 1

\* What a step that changes the tree means for the calls that are under way.
Watch ==
  /\ steady' = [t \in Threads |-> IF thread[t].op = "Visit"
                                  THEN steady[t] \intersect VariablesBelow(entries', thread[t].base)
                                  ELSE steady[t]]
  /\ views' = [t \in Threads |-> IF thread[t].op = "idle" THEN views[t]
                                 ELSE views[t] \union {Find(entries', thread[t].base, thread[t].path)}]
  /\ UNCHANGED seen

-----------------------------------------------------------------------------
(* addNames, for Add, NewRegistry and the New functions of the metrics.    *)

Adding(t) == thread[t].op \in {"Add", "NewRegistry", "insert"}

\* Put item at the end of a chain of new registries for the names before the last.
Insert(r, names, item) ==
  LET link(k) == IF k = Len(names) THEN item ELSE Reg(registries + k)
      new(q) == q - registries \in 1 .. Len(names) - 1
  IN  /\ UNCHANGED program
      /\ entries' = [q \in Registries |->
                       IF q = r THEN [entries[q] EXCEPT ![Head(names)] = link(1)]
                       ELSE IF new(q) THEN [Empty EXCEPT ![names[q - registries + 1]] =
                                              link(q - registries + 1)]
                       ELSE entries[q]]
      /\ registries' = registries + Len(names) - (IF item.kind = "variable" THEN 1 ELSE 0)
      /\ variables' = variables + (IF item.kind = "variable" THEN 1 ELSE 0)

NewItem(t) ==
  IF thread[t].op \in {"NewRegistry", "GetOrCreateRegistry"}
  THEN Reg(registries + Len(thread[t].rest))
  ELSE Var(variables + 1)

\* The bound on the registries leaves room for the names that are left.
Room(t) == registries + Len(thread[t].rest) <= MaxRegistries

\* The name is free: the item is added, below new registries if names are left.
AddFree(t) ==
  /\ Adding(t)
  /\ CanLock(thread[t].at)
  /\ Entry(t) = None
  /\ Room(t)
  /\ Insert(thread[t].at, thread[t].rest, NewItem(t))
  /\ Return(t, NewItem(t))
  /\ UNCHANGED calls
  /\ Watch

\* The name is in use: addNames returns an error and Add panics.
AddUsed(t) ==
  /\ Adding(t)
  /\ CanLock(thread[t].at)
  /\ Entry(t) # None
  /\ Entry(t).kind = "registry" => Last(t)
  /\ Return(t, Panic)
  /\ UNCHANGED <<treeVars, calls, visitVars>>

\* Mutation: the lock of the parent is given back first.
AddDescendUnlocked(t) ==
  /\ Adding(t)
  /\ CanLock(thread[t].at)
  /\ Entry(t).kind = "registry"
  /\ ~Last(t)
  /\ thread' = [thread EXCEPT ![t].at = Entry(t).id, ![t].rest = Tail(@)]
  /\ UNCHANGED <<treeVars, lockVars, callVars, visitVars>>

AddDescend(t) ==
  /\ Adding(t)
  /\ CanLock(thread[t].at)
  /\ Entry(t).kind = "registry"
  /\ ~Last(t)
  /\ Descend(t, Entry(t).id)
  /\ UNCHANGED visitVars

-----------------------------------------------------------------------------
(* NewInt and the like: get the variable or create it, under txMu.         *)

NextPhase(t) == IF thread[t].op = "NewInt" THEN "setup" ELSE "insert"

\* Mutation: without the transaction mutex.
NewLockNot(t) ==
  /\ thread[t].op \in {"NewInt", "NewIntDefault"}
  /\ thread' = [thread EXCEPT ![t].op = NextPhase(t)]
  /\ UNCHANGED <<treeVars, lockVars, callVars, visitVars>>

\* Lock txMu; without a registry, nothing is looked up and Default is used.
NewLock(t) ==
  /\ thread[t].op \in {"NewInt", "NewIntDefault"}
  /\ txMu[thread[t].base] = NoThread
  /\ txMu' = [txMu EXCEPT ![thread[t].base] = t]
  /\ thread' = [thread EXCEPT ![t].op = NextPhase(t)]
  /\ UNCHANGED <<treeVars, writer, readers, callVars, visitVars>>

\* A step of findNames, which gives the lock back before it goes on.
FindDescend(t) ==
  /\ thread[t].op \in {"setup", "GetRegistry"}
  /\ CanRLock(thread[t].at)
  /\ ~Last(t)
  /\ Entry(t).kind = "registry"
  /\ thread' = [thread EXCEPT ![t].at = Entry(t).id, ![t].rest = Tail(@)]
  /\ UNCHANGED <<treeVars, lockVars, callVars, visitVars>>

\* Mutation: the type of what was found is not looked at.
SetupFoundAny(t) ==
  /\ thread[t].op = "setup"
  /\ CanRLock(thread[t].at)
  /\ Last(t)
  /\ Entry(t) # None
  /\ Return(t, Entry(t))
  /\ UNCHANGED <<treeVars, calls, visitVars>>

\* findNames has found something.
SetupFound(t) ==
  /\ thread[t].op = "setup"
  /\ CanRLock(thread[t].at)
  /\ Last(t)
  /\ Entry(t) # None
  /\ Return(t, IF Entry(t).kind = "variable" THEN Entry(t) ELSE Panic)
  /\ UNCHANGED <<treeVars, calls, visitVars>>

\* findNames has found nothing, or a variable on the way: addVar starts.
SetupMissing(t) ==
  /\ thread[t].op = "setup"
  /\ CanRLock(thread[t].at)
  /\ IF Last(t) THEN Entry(t) = None ELSE Entry(t).kind # "registry"
  /\ thread' = [thread EXCEPT ![t].op = "insert", ![t].at = thread[t].base,
                              ![t].rest = thread[t].path]
  /\ UNCHANGED <<treeVars, lockVars, callVars, visitVars>>

GetReturn(t) ==
  /\ thread[t].op = "GetRegistry"
  /\ CanRLock(thread[t].at)
  /\ Entry(t).kind = "registry" => Last(t)
  /\ Return(t, IF Last(t) /\ Entry(t).kind = "registry" THEN Entry(t) ELSE None)
  /\ UNCHANGED <<treeVars, calls, visitVars>>

-----------------------------------------------------------------------------
(* getOrCreateRegistry.                                                    *)

CreateDescend(t) ==
  /\ thread[t].op = "GetOrCreateRegistry"
  /\ CanLock(thread[t].at)
  /\ Entry(t).kind = "registry"
  /\ ~Last(t)
  /\ Descend(t, Entry(t).id)
  /\ UNCHANGED visitVars

\* The registry exists, or a variable is in the way.
CreateFound(t) ==
  /\ thread[t].op = "GetOrCreateRegistry"
  /\ CanLock(thread[t].at)
  /\ Entry(t) # None
  /\ Entry(t).kind = "registry" => Last(t)
  /\ Return(t, IF Entry(t).kind = "registry" THEN Entry(t) ELSE None)
  /\ UNCHANGED <<treeVars, calls, visitVars>>

CreateChain(t) ==
  /\ thread[t].op = "GetOrCreateRegistry"
  /\ CanLock(thread[t].at)
  /\ Entry(t) = None
  /\ Room(t)
  /\ Insert(thread[t].at, thread[t].rest, NewItem(t))
  /\ Return(t, NewItem(t))
  /\ UNCHANGED calls
  /\ Watch

-----------------------------------------------------------------------------
(* removeNames.                                                            *)

RemoveDescend(t) ==
  /\ thread[t].op = "Remove"
  /\ CanLock(thread[t].at)
  /\ Entry(t).kind = "registry"
  /\ ~Last(t)
  /\ Descend(t, Entry(t).id)
  /\ UNCHANGED visitVars

\* The innermost call returns; the one around it looks at the sub-registry again.
Unwind(t) ==
  IF thread[t].held = << >>
  THEN Return(t, None)
  ELSE /\ thread' = [thread EXCEPT ![t].op = "prune"]
       /\ UNCHANGED <<lockVars, handle, result>>

\* Mutation: the lock of the innermost registry is not given back.
RemoveLastLocked(t) ==
  /\ thread[t].op = "Remove"
  /\ CanLock(thread[t].at)
  /\ Last(t)
  /\ thread[t].held # << >>
  /\ entries' = [entries EXCEPT ![thread[t].at][Head(thread[t].rest)] = None]
  /\ thread' = [thread EXCEPT ![t].op = "prune"]
  /\ writer' = [writer EXCEPT ![thread[t].at] = t]
  /\ UNCHANGED <<program, registries, variables, readers, txMu, callVars>>
  /\ Watch

RemoveLast(t) ==
  /\ thread[t].op = "Remove"
  /\ CanLock(thread[t].at)
  /\ Last(t)
  /\ entries' = [entries EXCEPT ![thread[t].at][Head(thread[t].rest)] = None]
  /\ Unwind(t)
  /\ UNCHANGED <<program, registries, variables, calls>>
  /\ Watch

RemoveMissing(t) ==
  /\ thread[t].op = "Remove"
  /\ CanLock(thread[t].at)
  /\ ~Last(t)
  /\ Entry(t).kind # "registry"
  /\ Unwind(t)
  /\ UNCHANGED <<treeVars, calls, visitVars>>

\* The frame that has called removeNames of a sub-registry.
Frame(t) == thread[t].held[Len(thread[t].held)]
Sub(t) == entries[Frame(t).reg][Frame(t).name].id

\* sub.mu.RLock, and whether the sub-registry is empty.
PruneLock(t) ==
  /\ thread[t].op = "prune"
  /\ CanRLock(Sub(t))
  /\ readers' = [readers EXCEPT ![Sub(t)] = @ \union {t}]
  /\ thread' = [thread EXCEPT ![t].op = IF entries[Sub(t)] = Empty THEN "delete" ELSE "keep"]
  /\ UNCHANGED <<treeVars, writer, txMu, callVars, visitVars>>

\* An empty sub-registry is removed, both locks are given back, and the call
\* around this one goes on.
PruneReturn(t) ==
  LET frame == Frame(t)
      outer == SubSeq(thread[t].held, 1, Len(thread[t].held) - 1)
  IN  /\ thread[t].op \in {"delete", "keep"}
      /\ entries' = IF thread[t].op = "delete"
                    THEN [entries EXCEPT ![frame.reg][frame.name] = None]
                    ELSE entries
      /\ IF outer = << >>
         THEN Return(t, None)
         ELSE /\ thread' = [thread EXCEPT ![t].op = "prune", ![t].held = outer]
              /\ writer' = [writer EXCEPT ![frame.reg] = NoThread]
              /\ readers' = [readers EXCEPT ![Sub(t)] = @ \ {t}]
              /\ UNCHANGED <<txMu, handle, result>>
      /\ UNCHANGED <<program, registries, variables, calls>>
      /\ Watch

Clear(t) ==
  /\ thread[t].op = "Clear"
  /\ CanLock(thread[t].at)
  /\ entries' = [entries EXCEPT ![thread[t].at] = Empty]
  /\ Return(t, None)
  /\ UNCHANGED <<program, registries, variables, calls>>
  /\ Watch

-----------------------------------------------------------------------------
(* doVisit.                                                                *)

Used(r) == {n \in Names : entries[r][n] # None}

\* The read lock of a registry is kept while its entries are visited.
VisitBase(t) ==
  /\ thread[t].op = "Visit"
  /\ thread[t].held = << >>
  /\ CanRLock(thread[t].base)
  /\ readers' = [readers EXCEPT ![thread[t].base] = @ \union {t}]
  /\ thread' = [thread EXCEPT ![t].held = <<[reg |-> thread[t].base, left |-> Used(thread[t].base)]>>]
  /\ UNCHANGED <<treeVars, writer, txMu, callVars, visitVars>>

\* The entries are met in any order.
VisitVariable(t) ==
  LET top == Len(thread[t].held)
  IN  /\ thread[t].op = "Visit"
      /\ thread[t].held # << >>
      /\ \E n \in Frame(t).left :
           LET e == entries[Frame(t).reg][n]
           IN  /\ e.kind = "variable"
               /\ seen' = [seen EXCEPT ![t] = Append(@, e.id)]
               /\ thread' = [thread EXCEPT ![t].held[top].left = @ \ {n}]
      /\ UNCHANGED <<treeVars, lockVars, callVars, steady, views>>

\* Mutation: the visit of a registry ends with its first sub-registry.
VisitRegistryLast(t) ==
  LET top == Len(thread[t].held)
  IN  /\ thread[t].op = "Visit"
      /\ thread[t].held # << >>
      /\ \E n \in Frame(t).left :
           LET e == entries[Frame(t).reg][n]
           IN  /\ e.kind = "registry"
               /\ CanRLock(e.id)
               /\ readers' = [readers EXCEPT ![e.id] = @ \union {t}]
               /\ thread' = [thread EXCEPT ![t].held =
                    Append([@ EXCEPT ![top].left = {}], [reg |-> e.id, left |-> Used(e.id)])]
      /\ UNCHANGED <<treeVars, writer, txMu, callVars, visitVars>>

VisitRegistry(t) ==
  LET top == Len(thread[t].held)
  IN  /\ thread[t].op = "Visit"
      /\ thread[t].held # << >>
      /\ \E n \in Frame(t).left :
           LET e == entries[Frame(t).reg][n]
           IN  /\ e.kind = "registry"
               /\ CanRLock(e.id)
               /\ readers' = [readers EXCEPT ![e.id] = @ \union {t}]
               /\ thread' = [thread EXCEPT ![t].held =
                    Append([thread[t].held EXCEPT ![top].left = @ \ {n}],
                           [reg |-> e.id, left |-> Used(e.id)])]
      /\ UNCHANGED <<treeVars, writer, txMu, callVars, visitVars>>

VisitLeave(t) ==
  /\ thread[t].op = "Visit"
  /\ thread[t].held # << >>
  /\ Frame(t).left = {}
  /\ IF Len(thread[t].held) = 1
     THEN Return(t, None)
     ELSE /\ readers' = [readers EXCEPT ![Frame(t).reg] = @ \ {t}]
          /\ thread' = [thread EXCEPT ![t].held = SubSeq(@, 1, Len(@) - 1)]
          /\ UNCHANGED <<writer, txMu, handle, result>>
  /\ UNCHANGED <<treeVars, calls, visitVars>>

-----------------------------------------------------------------------------
Step(t) ==
  \/ AddFree(t) \/ AddUsed(t) \/ AddDescend(t)
  \/ NewLock(t) \/ FindDescend(t) \/ SetupFound(t) \/ SetupMissing(t) \/ GetReturn(t)
  \/ CreateDescend(t) \/ CreateFound(t) \/ CreateChain(t)
  \/ RemoveDescend(t) \/ RemoveLast(t) \/ RemoveMissing(t) \/ PruneLock(t) \/ PruneReturn(t)
  \/ Clear(t)
  \/ VisitBase(t) \/ VisitVariable(t) \/ VisitRegistry(t) \/ VisitLeave(t)

\* Nobody is in a call: the program may end here.
Ended ==
  /\ \A t \in Threads : thread[t].op = "idle"
  /\ UNCHANGED vars

Next ==
  \/ \E t \in Threads :
       \/ \E op \in program.methods[t], base \in {Root, handle[t]}, path \in program.paths :
            Call(t, op, base, path)
       \/ Step(t)
  \/ Ended

Spec == Init /\ [][Next]_vars

-----------------------------------------------------------------------------
\* The registries stay a tree: whatever goroutines add, create and remove, no
\* registry and no variable is at two places, and nothing is above the root
\* (addNames and newRegistryChainWithLock make the chain before they hang it in).
AtOnePlace ==
  \A p, q \in Places :
    At(p) # None => At(p) # Reg(Root) /\ (At(p) = At(q) => p = q)

Creating(t) == thread[t].op \in {"Add", "NewRegistry", "insert", "GetOrCreateRegistry"}

\* A call that adds something, or gets or creates a registry, leaves it at its
\* path below the registry it was called on, even if others remove parts of the
\* path at that time: addNames and getOrCreateRegistry keep the locks of their way.
AddTakesEffect ==
  [][\A t \in Threads :
       (Creating(t) /\ thread'[t].op = "idle" /\ result'[t].kind \in {"registry", "variable"})
       => Find(entries', thread[t].base, thread[t].path) = result'[t]]_vars

\* A lookup (Get, or the first half of a New function) is atomic although it
\* gives back each lock before it takes the next one: what it finds was at its
\* path at some moment of the call, unless a goroutine adds to a removed registry.
LookupAtomic ==
  [][\A t \in Threads :
       (~program.sharing /\ thread[t].op \in {"GetRegistry", "setup"} /\ thread'[t].op = "idle")
       => \E x \in views[t] : result'[t] = IF x.kind = "registry" /\ thread[t].op = "setup" THEN Panic
                                           ELSE IF x.kind = "variable" /\ thread[t].op = "GetRegistry" THEN None
                                           ELSE x]_vars

NewOnly ==
  ~program.sharing /\ \A t \in Threads : program.methods[t] \intersect {"Add", "NewIntDefault"} = {}

\* Goroutines that create the same metric on one registry get the same variable:
\* NewInt never panics because the variable is there already, in a program that
\* adds variables in no other way.
NewFindsExisting ==
  [][\A t \in Threads :
       (NewOnly /\ thread[t].op = "insert" /\ result'[t] = Panic /\ thread'[t].op = "idle")
       => Find(entries, thread[t].base, thread[t].path).kind # "variable"]_vars

\* A visit reports every variable that is there from its start to its end, and
\* reports none twice, whatever is added and removed meanwhile.
VisitExact ==
  [][\A t \in Threads :
       (thread[t].op = "Visit" /\ thread'[t].op = "idle")
       => /\ steady[t] \subseteq {seen[t][k] : k \in DOMAIN seen[t]}
          /\ \A j, k \in DOMAIN seen[t] : seen[t][j] = seen[t][k] => j = k]_vars

-----------------------------------------------------------------------------
(* Who waits for whom.                                                     *)

\* The registries whose mu the next step of a call takes: the one it looks at,
\* the sub-registry Remove looks at again, or the ones a visit may go on to.
Needs(t) ==
  CASE thread[t].op \in {"idle", "NewInt", "NewIntDefault", "delete", "keep"} -> {}
    [] thread[t].op = "prune" -> {Sub(t)}
    [] thread[t].op = "Visit" /\ thread[t].held # << >> ->
         {entries[Frame(t).reg][n].id :
            n \in {m \in Frame(t).left : entries[Frame(t).reg][m].kind = "registry"}}
    [] OTHER -> {thread[t].at}

\* The call may have to wait: somebody holds a lock it may ask for next.
Waits(t) ==
  \/ thread[t].op \in {"NewInt", "NewIntDefault"} /\ txMu[thread[t].base] # NoThread
  \/ \E r \in Needs(t) : ~CanLock(r)

\* Calls never wait for each other's locks in a circle, and Remove does not wait
\* for a lock it holds: some call asks for locks only that nobody holds, so that
\* it goes on even where a waiting writer keeps readers out.
SomeoneGoesOn ==
  (\E t \in Threads : thread[t].op # "idle") =>
    \E t \in Threads : thread[t].op # "idle" /\ ~Waits(t)

\* The registries stay a tree, each variable and registry at one place
\* (addNames and removeNames, src/monitoring/registry.go:226,281), and the
\* locks of its paths never keep everyone waiting (registry.go:289).
TreeUsable == AtOnePlace /\ SomeoneGoesOn
=============================================================================
