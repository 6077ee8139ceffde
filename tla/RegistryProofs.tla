--------------------------- MODULE RegistryProofs ---------------------------
(***************************************************************************)
(* Proofs about Registry, for any goroutines, names and programs: the      *)
(* registries stay a tree, and calls never wait in a circle.               *)
(***************************************************************************)
EXTENDS Registry, TLAPS

-----------------------------------------------------------------------------
(* Sequences.                                                              *)

LEMMA SeqElement ==
  ASSUME NEW S, NEW s \in Seq(S), NEW k \in 1 .. Len(s)
  PROVE  s[k] \in S
OBVIOUS

LEMMA SeqEmpty ==
  ASSUME NEW S
  PROVE  << >> \in Seq(S) /\ Len(<< >>) = 0 /\ \A s \in Seq(S) : s # << >> => Len(s) \in Nat \ {0}
OBVIOUS

LEMMA SeqLen ==
  ASSUME NEW S, NEW s \in Seq(S)
  PROVE  Len(s) \in Nat /\ s \in [1 .. Len(s) -> S] /\ DOMAIN s = 1 .. Len(s)
OBVIOUS

LEMMA SeqHead ==
  ASSUME NEW S, NEW s \in Seq(S), s # << >>
  PROVE  /\ Head(s) \in S /\ Tail(s) \in Seq(S) /\ Len(Tail(s)) = Len(s) - 1
         /\ \A k \in 1 .. Len(Tail(s)) : Tail(s)[k] = s[k + 1]
OBVIOUS

LEMMA SeqAppend ==
  ASSUME NEW S, NEW s \in Seq(S), NEW x \in S
  PROVE  /\ Append(s, x) \in Seq(S) /\ Len(Append(s, x)) = Len(s) + 1
         /\ \A k \in 1 .. Len(s) : Append(s, x)[k] = s[k]
         /\ Append(s, x)[Len(s) + 1] = x
OBVIOUS

LEMMA SeqExcept ==
  ASSUME NEW S, NEW s \in Seq(S), NEW j \in 1 .. Len(s), NEW x \in S
  PROVE  /\ [s EXCEPT ![j] = x] \in Seq(S) /\ Len([s EXCEPT ![j] = x]) = Len(s)
         /\ \A k \in 1 .. Len(s) : [s EXCEPT ![j] = x][k] = IF k = j THEN x ELSE s[k]
<1> DEFINE f == [s EXCEPT ![j] = x]
<1>1. Len(s) \in Nat /\ s \in [1 .. Len(s) -> S]
  BY SeqLen
<1>2. f \in [1 .. Len(s) -> S] /\ \A k \in 1 .. Len(s) : f[k] = IF k = j THEN x ELSE s[k]
  BY <1>1
<1> HIDE DEF f
<1>3. f \in Seq(S) /\ Len(f) = Len(s)
  BY <1>1, <1>2
<1>4. QED
  BY <1>2, <1>3 DEF f

\* All but the last.
LEMMA SeqFront ==
  ASSUME NEW S, NEW s \in Seq(S), Len(s) # 0
  PROVE  /\ SubSeq(s, 1, Len(s) - 1) \in Seq(S)
         /\ Len(SubSeq(s, 1, Len(s) - 1)) = Len(s) - 1
         /\ \A k \in 1 .. Len(s) - 1 : SubSeq(s, 1, Len(s) - 1)[k] = s[k]
<1>1. \A n \in Nat : (\A k \in 1 .. n : s[k] \in S) =>
        /\ SubSeq(s, 1, n) \in Seq(S) /\ Len(SubSeq(s, 1, n)) = n
        /\ \A k \in 1 .. n : SubSeq(s, 1, n)[k] = s[k]
  OBVIOUS
<1>2. Len(s) - 1 \in Nat /\ \A k \in 1 .. Len(s) - 1 : s[k] \in S
  OBVIOUS
<1>3. QED
  BY <1>1, <1>2, Zenon

-----------------------------------------------------------------------------
(* Numbers.                                                                *)

LEMMA Arithmetic ==
  /\ Registries \subseteq Nat /\ Root \in Registries
  /\ \A r \in Registries : Root <= r
BY ConstantsAssumption DEF Registries, Root

\* Chains of comparisons.
LEMMA Orders == \A a \in Nat : \A b \in Nat : a < b => a # b
OBVIOUS

LEMMA Transitive == \A a \in Nat : \A b \in Nat : \A c \in Nat : a < b /\ b < c => a < c
OBVIOUS

\* A position up to the one behind the end.
LEMMA NextPosition ==
  \A n \in Nat : /\ n + 1 \in 1 .. n + 1 /\ 1 .. n \subseteq 1 .. n + 1
                /\ \A k \in 1 .. n + 1 : k \in 1 .. n \/ k = n + 1
OBVIOUS

LEMMA AtMost == \A a \in Nat : \A b \in Nat : \A c \in Nat : a <= b /\ b <= c => a <= c
OBVIOUS

LEMMA EarlierPosition == \A n \in Nat : \A j \in 1 .. n + 1 : \A k \in 1 .. n + 1 : j < k => j \in 1 .. n
OBVIOUS

\* A position up to the one before the end.
LEMMA LastPosition ==
  \A n \in Nat \ {0} : /\ n \in 1 .. n /\ 1 .. n - 1 \subseteq 1 .. n
                       /\ \A k \in 1 .. n : k = n \/ (k \in 1 .. n - 1 /\ k < n)
OBVIOUS

-----------------------------------------------------------------------------
(* The invariant.                                                          *)

Items == [kind : {"none", "registry", "variable"}, id : Nat]

\* Calls that keep the locks of the registries they have come through.
Climbing == {"Add", "NewRegistry", "insert", "GetOrCreateRegistry", "Remove"}
Pruning == {"prune", "delete", "keep"}
Waiting == {"NewInt", "NewIntDefault"}
Others == {"idle", "setup", "GetRegistry", "Clear"} \union Waiting
Ops == Climbing \union Pruning \union Others \union {"Visit"}

PathFrames == [reg : Registries, name : Names]
VisitFrames == [reg : Registries, left : SUBSET Names]

ThreadRecords ==
  [op : Ops, base : Registries, path : Seq(Names), at : Registries, rest : Seq(Names),
   held : Seq(PathFrames) \union Seq(VisitFrames)]

\* The registries are numbered in the order of their creation, and a registry is
\* created after the one it is in: that is why it is a tree, and why locks that
\* are taken on the way down are taken in one order.
TreeInv ==
  /\ registries \in Registries
  /\ variables \in Nat
  /\ entries \in [Registries -> [Names -> Items]]
  /\ \A r \in Registries, n \in Names :
       /\ entries[r][n].kind = "none" => entries[r][n].id = 0
       /\ entries[r][n].kind = "registry" => r < entries[r][n].id /\ entries[r][n].id <= registries
       /\ entries[r][n].kind = "variable" => entries[r][n].id <= variables
       /\ r > registries => entries[r][n].kind = "none"
  /\ AtOnePlace

LockTypes ==
  /\ writer \in [Registries -> Threads \union {NoThread}]
  /\ readers \in [Registries -> SUBSET Threads]
  /\ txMu \in [Registries -> Threads \union {NoThread}]

Types ==
  /\ program \in Programs
  /\ thread \in [Threads -> ThreadRecords]
  /\ handle \in [Threads -> Registries]
  /\ \A t \in Threads : handle[t] <= registries

\* The registries of a call's locks, outermost first.
Increases(held) ==
  \A j, k \in 1 .. Len(held) : j < k => held[j].reg < held[k].reg

\* What a call has come through: it holds the locks, so the names still lead to
\* registries, and the next registry was created later than all of them.
PathInv(t) ==
  LET held == thread[t].held IN
    /\ held \in Seq(PathFrames)
    /\ Increases(held)
    /\ \A k \in 1 .. Len(held) :
         /\ held[k].reg <= registries
         /\ writer[held[k].reg] = t
         /\ entries[held[k].reg][held[k].name].kind = "registry"
         /\ thread[t].op \in Climbing => held[k].reg < thread[t].at
    /\ thread[t].op \in Pruning => held # << >>

VisitInv(t) ==
  LET held == thread[t].held IN
    /\ held \in Seq(VisitFrames)
    /\ Increases(held)
    /\ \A k \in 1 .. Len(held) : held[k].reg <= registries

\* The locks a call holds are the ones of the frames of its recursion, the
\* sub-registry Remove looks at again, and txMu in the second half of NewInt.
OwnLocks(t) ==
  \A r \in Registries :
    /\ writer[r] = t =>
         /\ thread[t].op \in Climbing \union Pruning
         /\ \E k \in 1 .. Len(thread[t].held) : thread[t].held[k].reg = r
    /\ t \in readers[r] =>
         \/ /\ thread[t].op = "Visit"
            /\ \E k \in 1 .. Len(thread[t].held) : thread[t].held[k].reg = r
         \/ /\ thread[t].op \in {"delete", "keep"}
            /\ r = Sub(t)
    /\ txMu[r] = t => thread[t].op \in {"setup", "insert"}

ThreadInv(t) ==
  /\ thread[t].base <= registries
  /\ thread[t].at <= registries
  /\ thread[t].op # "idle" => thread[t].path # << >> /\ thread[t].rest # << >>
  /\ thread[t].op \in Climbing \union Pruning => PathInv(t)
  /\ thread[t].op = "Visit" => VisitInv(t)
  /\ thread[t].op \in Others => thread[t].held = << >>
  /\ OwnLocks(t)

Inv ==
  /\ TreeInv
  /\ LockTypes
  /\ Types
  /\ \A t \in Threads : ThreadInv(t)

-----------------------------------------------------------------------------
(* The frames of the locks a call holds.                                   *)

LEMMA PathFrameType ==
  \A r \in Registries : \A n \in Names :
    /\ [reg |-> r, name |-> n] \in PathFrames
    /\ [reg |-> r, name |-> n].reg = r /\ [reg |-> r, name |-> n].name = n
BY DEF PathFrames

LEMMA PathFrameAppend ==
  \A held \in Seq(PathFrames) : \A f \in PathFrames :
    /\ Append(held, f) \in Seq(PathFrames) /\ Len(held) \in Nat
    /\ Len(Append(held, f)) = Len(held) + 1 /\ Append(held, f)[Len(held) + 1] = f
    /\ \A k \in 1 .. Len(held) : Append(held, f)[k] = held[k]
BY SeqAppend, SeqLen

LEMMA FirstVisitFrame ==
  \A r \in Registries : \A left \in SUBSET Names :
    /\ <<[reg |-> r, left |-> left]>> \in Seq(VisitFrames)
    /\ Len(<<[reg |-> r, left |-> left]>>) = 1
    /\ <<[reg |-> r, left |-> left]>>[1].reg = r
BY DEF VisitFrames

LEMMA RecordType ==
  \A op \in Ops : \A base \in Registries : \A path \in Seq(Names) :
    \A held \in Seq(PathFrames) \union Seq(VisitFrames) :
      [op |-> op, base |-> base, path |-> path, at |-> base, rest |-> path, held |-> held]
        \in ThreadRecords
BY DEF ThreadRecords

LEMMA OnlyPosition == 1 \in 1 .. 1 /\ \A j, k \in 1 .. 1 : k = 1 /\ ~(j < k)
OBVIOUS

LEMMA NoFrames ==
  /\ << >> \in Seq(PathFrames) /\ << >> \in Seq(VisitFrames)
  /\ Len(<< >>) = 0 /\ \A k \in 1 .. Len(<< >>) : FALSE
BY SeqEmpty, SMTT(30)

-----------------------------------------------------------------------------
(* What a call needs, and what it holds.                                   *)

LEMMA NeedsCases ==
  ASSUME NEW t \in Threads, thread[t].op \in Ops
  PROVE  /\ thread[t].op \in {"idle", "NewInt", "NewIntDefault", "delete", "keep"} => Needs(t) = {}
         /\ thread[t].op = "prune" => Needs(t) = {Sub(t)}
         /\ thread[t].op = "Visit" /\ thread[t].held # << >> =>
              Needs(t) = {entries[Frame(t).reg][n].id :
                            n \in {m \in Frame(t).left : entries[Frame(t).reg][m].kind = "registry"}}
         /\ thread[t].op = "Visit" /\ thread[t].held = << >> => Needs(t) = {thread[t].at}
         /\ thread[t].op \in Climbing \union {"setup", "GetRegistry", "Clear"} =>
              Needs(t) = {thread[t].at}
BY DEF Needs, Ops, Climbing, Pruning, Others, Waiting

\* The innermost frame of a call that holds locks.
LEMMA FrameFacts ==
  ASSUME NEW t \in Threads, NEW F, thread[t].held \in Seq(F), thread[t].held # << >>
  PROVE  /\ Len(thread[t].held) \in 1 .. Len(thread[t].held)
         /\ Len(thread[t].held) \in Nat \ {0}
         /\ Frame(t) \in F
         /\ Frame(t) = thread[t].held[Len(thread[t].held)]
<1> DEFINE held == thread[t].held
<1>1. Len(held) \in Nat /\ Len(held) # 0
  BY SeqLen, SeqEmpty
<1>2. held[Len(held)] \in F
  BY <1>1, SeqElement
<1>3. QED
  BY <1>1, <1>2 DEF Frame

\* The frame of a call that prunes: the sub-registry it looks at was created
\* later than the registries it has come through.
LEMMA SubFacts ==
  ASSUME Inv, NEW t \in Threads, thread[t].op \in Pruning
  PROVE  /\ Frame(t) \in PathFrames
         /\ Frame(t).reg <= registries
         /\ writer[Frame(t).reg] = t
         /\ entries[Frame(t).reg][Frame(t).name] = Reg(Sub(t))
         /\ Sub(t) \in Registries /\ Sub(t) <= registries
         /\ \A k \in 1 .. Len(thread[t].held) : thread[t].held[k].reg < Sub(t)
         /\ thread[t].held \in Seq(PathFrames) /\ thread[t].held # << >>
<1> DEFINE held == thread[t].held
           f == Frame(t)
<1>1. PathInv(t) /\ held \in Seq(PathFrames) /\ held # << >>
  BY ZenonT(30) DEF Inv, ThreadInv, PathInv
<1>2. /\ Len(held) \in 1 .. Len(held) /\ Len(held) \in Nat /\ f \in PathFrames
      /\ f = held[Len(held)]
  BY <1>1, FrameFacts
<1>3. /\ f.reg <= registries /\ writer[f.reg] = t
      /\ entries[f.reg][f.name].kind = "registry"
      /\ f.reg \in Registries /\ f.name \in Names
  BY <1>1, <1>2, Zenon DEF PathInv, PathFrames
<1>4. /\ entries[f.reg][f.name] \in Items
      /\ f.reg < Sub(t) /\ Sub(t) <= registries /\ Sub(t) \in Nat
      /\ registries \in Registries
  BY <1>3 DEF Inv, TreeInv, Sub, Items
<1>5. entries[f.reg][f.name] = Reg(Sub(t))
  BY <1>3, <1>4 DEF Items, Reg, Sub
<1>6. Sub(t) \in Registries
  BY <1>3, <1>4, ConstantsAssumption DEF Registries
<1>7. ASSUME NEW k \in 1 .. Len(held) PROVE held[k].reg < Sub(t)
  <2>1. held[k].reg \in Registries
    <3>1. held[k] \in PathFrames
      BY <1>1, SeqElement, ZenonT(30)
    <3>2. QED
      BY <3>1 DEF PathFrames
  <2>2. k = Len(held) \/ held[k].reg < f.reg
    BY <1>1, <1>2, SMTT(30) DEF PathInv, Increases
  <2>3. held[k].reg \in Nat /\ f.reg \in Nat
    BY <1>3, <2>1, ConstantsAssumption, SMTT(30) DEF Registries
  <2>4. CASE k = Len(held)
    BY <1>2, <1>4, <2>4
  <2>5. CASE held[k].reg < f.reg
    BY <1>4, <2>3, <2>5, SMTT(30)
  <2>6. QED
    BY <2>2, <2>4, <2>5
<1>8. QED
  BY <1>1, <1>2, <1>3, <1>4, <1>5, <1>6, <1>7, ZenonT(30)

\* A visit goes on to registries that were created later than the ones it is in.
LEMMA VisitNeeds ==
  ASSUME Inv, NEW t \in Threads, thread[t].op = "Visit", thread[t].held # << >>,
         NEW n \in Frame(t).left, entries[Frame(t).reg][n].kind = "registry"
  PROVE  LET q == entries[Frame(t).reg][n].id
         IN  /\ q \in Registries /\ q <= registries
             /\ \A k \in 1 .. Len(thread[t].held) : thread[t].held[k].reg < q
<1> DEFINE held == thread[t].held
           f == Frame(t)
           q == entries[f.reg][n].id
<1>1. VisitInv(t) /\ held \in Seq(VisitFrames)
  BY DEF Inv, ThreadInv, VisitInv
<1>2. Len(held) \in 1 .. Len(held) /\ f \in VisitFrames /\ f = held[Len(held)]
  BY <1>1, FrameFacts, SMTT(30)
<1>3. f.reg \in Registries /\ n \in Names
  BY <1>2 DEF VisitFrames
<1>4. f.reg < q /\ q <= registries /\ q \in Nat /\ registries \in Registries
  BY <1>3 DEF Inv, TreeInv, Items
<1>5. q \in Registries
  BY <1>3, <1>4, ConstantsAssumption DEF Registries
<1>6. ASSUME NEW k \in 1 .. Len(held) PROVE held[k].reg < q
  <2>1. held[k].reg \in Registries
    <3>1. held[k] \in VisitFrames
      BY <1>1, SeqElement, SMTT(30)
    <3>2. QED
      BY <3>1 DEF VisitFrames
  <2>2. k = Len(held) \/ held[k].reg < f.reg
    BY <1>1, <1>2 DEF VisitInv, Increases
  <2>3. held[k].reg \in Nat /\ f.reg \in Nat
    BY <1>3, <2>1, ConstantsAssumption, SMTT(30) DEF Registries
  <2>4. CASE k = Len(held)
    BY <1>2, <1>4, <2>4, Zenon
  <2>5. CASE held[k].reg < f.reg
    BY <1>4, <2>3, <2>5
  <2>6. QED
    BY <2>2, <2>4, <2>5
<1>7. QED
  BY <1>4, <1>5, <1>6

\* The locks a call may ask for are of registries that exist, and created later
\* than any registry whose lock it holds.
LEMMA NeedsAbove ==
  ASSUME Inv, NEW t \in Threads, NEW q \in Needs(t)
  PROVE  /\ q \in Registries
         /\ \A r \in Registries : writer[r] = t \/ t \in readers[r] => r < q
<1>0. /\ thread[t] \in ThreadRecords /\ thread[t].op \in Ops
      /\ thread[t].at \in Registries /\ ThreadInv(t)
  BY DEF Inv, Types, ThreadRecords
<1>1. CASE thread[t].op \in Climbing
  <2>1. q = thread[t].at
    BY <1>0, <1>1, NeedsCases, ZenonT(30)
  <2>2. \A k \in 1 .. Len(thread[t].held) : thread[t].held[k].reg < thread[t].at
    BY <1>0, <1>1, ZenonT(30) DEF ThreadInv, PathInv
  <2>3. QED
    BY <1>0, <1>1, <2>1, <2>2 DEF ThreadInv, OwnLocks, Climbing
<1>2. CASE thread[t].op = "prune"
  <2>1. q = Sub(t)
    BY <1>0, <1>2, NeedsCases
  <2>2. /\ q \in Registries
        /\ \A k \in 1 .. Len(thread[t].held) : thread[t].held[k].reg < q
    BY <1>2, <2>1, SubFacts DEF Pruning
  <2>3. QED
    BY <1>0, <1>2, <2>2 DEF ThreadInv, OwnLocks
<1>3. CASE thread[t].op = "Visit" /\ thread[t].held # << >>
  <2>1. PICK n \in Frame(t).left : /\ entries[Frame(t).reg][n].kind = "registry"
                                   /\ q = entries[Frame(t).reg][n].id
    BY <1>0, <1>3, NeedsCases
  <2>2. /\ q \in Registries
        /\ \A k \in 1 .. Len(thread[t].held) : thread[t].held[k].reg < q
    BY <1>3, <2>1, VisitNeeds
  <2>3. QED
    BY <1>0, <1>3, <2>2 DEF ThreadInv, OwnLocks, Climbing, Pruning
<1>4. CASE \/ thread[t].op = "Visit" /\ thread[t].held = << >>
           \/ thread[t].op \in {"setup", "GetRegistry", "Clear"}
  <2>1. q = thread[t].at
    BY <1>0, <1>4, NeedsCases
  <2>2. Len(thread[t].held) = 0
    BY <1>0, <1>4, SeqEmpty DEF ThreadInv, Others
  <2>3. QED
    BY <1>0, <1>4, <2>1, <2>2, SMTT(30) DEF ThreadInv, OwnLocks, Climbing, Pruning
<1>5. CASE thread[t].op \in {"idle", "NewInt", "NewIntDefault", "delete", "keep"}
  BY <1>0, <1>5, NeedsCases
<1>6. QED
  BY <1>0, <1>1, <1>2, <1>3, <1>4, <1>5 DEF Ops, Pruning, Others, Waiting

-----------------------------------------------------------------------------
(* The tree.                                                               *)

\* AtOnePlace, with the registry and the name of a place apart.
Unique(tree) ==
  \A r, s \in Registries, m, n \in Names :
    tree[r][m] # None =>
      tree[r][m] # Reg(Root) /\ (tree[r][m] = tree[s][n] => r = s /\ m = n)

LEMMA AtOnePlaceForm == AtOnePlace <=> Unique(entries)
<1>1. ASSUME AtOnePlace PROVE Unique(entries)
  <2> SUFFICES ASSUME NEW r \in Registries, NEW s \in Registries, NEW m \in Names,
                      NEW n \in Names, entries[r][m] # None
               PROVE  /\ entries[r][m] # Reg(Root)
                      /\ entries[r][m] = entries[s][n] => r = s /\ m = n
    BY DEF Unique
  <2>1. <<r, m>> \in Places /\ <<s, n>> \in Places
    BY DEF Places
  <2>2. At(<<r, m>>) = entries[r][m] /\ At(<<s, n>>) = entries[s][n]
    BY DEF At
  <2>3. QED
    BY <1>1, <2>1, <2>2 DEF AtOnePlace
<1>2. ASSUME Unique(entries) PROVE AtOnePlace
  <2> SUFFICES ASSUME NEW p \in Places, NEW q \in Places, At(p) # None
               PROVE  At(p) # Reg(Root) /\ (At(p) = At(q) => p = q)
    BY DEF AtOnePlace
  <2>1. PICK r \in Registries, m \in Names : p = <<r, m>>
    BY DEF Places
  <2>2. PICK s \in Registries, n \in Names : q = <<s, n>>
    BY DEF Places
  <2>3. At(p) = entries[r][m] /\ At(q) = entries[s][n]
    BY <2>1, <2>2 DEF At
  <2>4. QED
    BY <1>2, <2>1, <2>2, <2>3 DEF Unique
<1>3. QED
  BY <1>1, <1>2

\* An entry of a registry, as TreeInv has it.
EntryOK(r, e, last, vars_) ==
  /\ e \in Items
  /\ e.kind = "none" => e.id = 0
  /\ e.kind = "registry" => r < e.id /\ e.id <= last
  /\ e.kind = "variable" => e.id <= vars_
  /\ r > last => e.kind = "none"

TreeOK(tree, last, vars_) ==
  /\ last \in Registries
  /\ vars_ \in Nat
  /\ tree \in [Registries -> [Names -> Items]]
  /\ \A r \in Registries, n \in Names : EntryOK(r, tree[r][n], last, vars_)
  /\ Unique(tree)

LEMMA TreeInvForm == TreeInv <=> TreeOK(entries, registries, variables)
BY AtOnePlaceForm DEF TreeInv, TreeOK, EntryOK

LEMMA TreeInvFormNext == TreeInv' <=> TreeOK(entries', registries', variables')
<1>1. (AtOnePlace <=> Unique(entries))'
  BY AtOnePlaceForm, PTL
<1>2. QED
  BY <1>1 DEF TreeInv, TreeOK, EntryOK

LEMMA NoneItem == None \in Items /\ None.kind = "none" /\ None.id = 0
BY DEF None, Items

LEMMA EmptyType == Empty \in [Names -> Items] /\ \A n \in Names : Empty[n] = None
BY NoneItem DEF Empty

LEMMA ItemIsNone ==
  ASSUME NEW e \in Items, e.kind = "none", e.id = 0
  PROVE  e = None
BY DEF Items, None

\* Entries are only taken away.
LEMMA TreeRemove ==
  ASSUME NEW last, NEW vars_, NEW tree, TreeOK(tree, last, vars_),
         NEW new \in [Registries -> [Names -> Items]],
         \A r \in Registries, n \in Names : new[r][n] \in {tree[r][n], None}
  PROVE  TreeOK(new, last, vars_)
<1>1. \A r \in Registries, n \in Names : EntryOK(r, new[r][n], last, vars_)
  BY NoneItem DEF TreeOK, EntryOK
<1>2. Unique(new)
  <2> SUFFICES ASSUME NEW r \in Registries, NEW s \in Registries, NEW m \in Names,
                      NEW n \in Names, new[r][m] # None
               PROVE  /\ new[r][m] # Reg(Root)
                      /\ new[r][m] = new[s][n] => r = s /\ m = n
    BY DEF Unique
  <2>1. new[r][m] = tree[r][m] /\ (new[r][m] = new[s][n] => new[s][n] = tree[s][n])
    OBVIOUS
  <2>2. QED
    BY <2>1 DEF TreeOK, Unique
<1>3. QED
  BY <1>1, <1>2 DEF TreeOK

\* What Insert hangs into the tree: the item with a new number, below new
\* registries.
LEMMA TreeInsert ==
  ASSUME TreeInv, NEW r \in Registries, r <= registries,
         NEW names \in Seq(Names), names # << >>,
         registries + Len(names) <= MaxRegistries,
         NEW item, item \in {Reg(registries + Len(names)), Var(variables + 1)},
         Insert(r, names, item)
  PROVE  /\ TreeInv'
         /\ registries <= registries'
         /\ item.kind = "registry" => item.id \in Registries /\ item.id <= registries'
         /\ \A q \in Registries : q # r /\ q <= registries => entries'[q] = entries[q]
<1> DEFINE N == Len(names)
           isVar == item.kind = "variable"
           link(k) == IF k = N THEN item ELSE Reg(registries + k)
           place(k) == IF k = 1 THEN r ELSE registries + k - 1
           new(q) == q - registries \in 1 .. N - 1
<1> USE ConstantsAssumption
<1>1. /\ registries \in Registries /\ registries \in Nat /\ variables \in Nat
      /\ N \in Nat \ {0} /\ r \in Nat /\ r >= 1
      /\ TreeOK(entries, registries, variables)
  <2>1. N \in Nat /\ N # 0
    BY SeqLen, SeqEmpty
  <2>2. TreeOK(entries, registries, variables)
    BY TreeInvForm
  <2>3. QED
    BY <2>1, <2>2 DEF TreeOK, Registries
<1>2. \A k \in 1 .. N : names[k] \in Names
  BY SeqElement
<1>3. Head(names) = names[1] /\ names[1] \in Names
  BY <1>1, <1>2, SeqHead
<1>4. /\ isVar => item = [kind |-> "variable", id |-> variables + 1]
      /\ ~isVar => item = [kind |-> "registry", id |-> registries + N]
  BY DEF Reg, Var
<1>5. ASSUME NEW k \in 1 .. N
      PROVE  /\ link(k) \in Items
             /\ \/ link(k).kind = "registry" /\ link(k).id = registries + k
                \/ link(k).kind = "variable" /\ link(k).id = variables + 1 /\ k = N
             /\ place(k) < registries + k /\ place(k) \in Registries
  <2>1. CASE k = N /\ isVar
    BY <1>1, <1>4, <2>1 DEF Items, Registries
  <2>2. CASE k = N /\ ~isVar
    BY <1>1, <1>4, <2>2 DEF Items, Registries
  <2>3. CASE k # N
    BY <1>1, <2>3 DEF Items, Reg, Registries
  <2>4. QED
    BY <2>1, <2>2, <2>3
<1>6. /\ registries' = registries + (IF isVar THEN N - 1 ELSE N)
      /\ variables' = variables + (IF isVar THEN 1 ELSE 0)
  BY <1>1 DEF Insert
<1>7. /\ registries' \in Registries /\ registries' \in Nat /\ variables' \in Nat
      /\ registries <= registries' /\ variables <= variables'
      /\ \A k \in 1 .. N : link(k).kind = "registry" => link(k).id <= registries'
      /\ \A k \in 1 .. N : link(k).kind = "variable" => link(k).id <= variables'
      /\ \A k \in 1 .. N : place(k) <= registries'
  <2>1. /\ registries' \in Registries /\ registries' \in Nat /\ variables' \in Nat
        /\ registries <= registries' /\ variables <= variables'
    BY <1>1, <1>6 DEF Registries
  <2>2. ASSUME NEW k \in 1 .. N
        PROVE  /\ link(k).kind = "registry" => link(k).id <= registries'
               /\ link(k).kind = "variable" => link(k).id <= variables'
               /\ place(k) <= registries'
    BY <1>1, <1>4, <1>5, <1>6, SMTT(30)
  <2>3. QED
    BY <2>1, <2>2
<1>8. entries' = [q \in Registries |->
                   IF q = r THEN [entries[q] EXCEPT ![names[1]] = link(1)]
                   ELSE IF new(q) THEN [Empty EXCEPT ![names[q - registries + 1]] =
                                          link(q - registries + 1)]
                   ELSE entries[q]]
  BY <1>3, Zenon DEF Insert
<1> HIDE DEF link
<1>9. ASSUME NEW q \in Registries, NEW n \in Names
      PROVE  /\ entries'[q] \in [Names -> Items]
             /\ \/ entries'[q][n] = entries[q][n] /\ (q <= registries \/ entries[q][n] = None)
                \/ entries'[q][n] = None
                \/ \E k \in 1 .. N : q = place(k) /\ n = names[k] /\ entries'[q][n] = link(k)
  <2>0. entries[q] \in [Names -> Items] /\ q \in Nat /\ EntryOK(q, entries[q][n], registries, variables)
    BY <1>1 DEF TreeOK, Registries
  <2>1. CASE q = r
    <3>1. entries'[q] = [entries[q] EXCEPT ![names[1]] = link(1)] /\ 1 \in 1 .. N
      BY <1>1, <1>8, <2>1
    <3>2. QED
      BY <1>1, <1>3, <1>5, <2>0, <2>1, <3>1
  <2>2. CASE q # r /\ new(q)
    <3> DEFINE k == q - registries + 1
    <3>1. entries'[q] = [Empty EXCEPT ![names[k]] = link(k)]
      BY <1>8, <2>2
    <3>2. k \in 1 .. N /\ k # 1 /\ place(k) = q
      BY <1>1, <2>0, <2>2, SMTT(30)
    <3>3. names[k] \in Names /\ link(k) \in Items
      BY <1>2, <1>5, <3>2
    <3> HIDE DEF k
    <3>4. entries'[q] \in [Names -> Items] /\ entries'[q][n] = IF n = names[k] THEN link(k) ELSE None
      BY <3>1, <3>3, EmptyType
    <3>5. QED
      BY <3>2, <3>4
  <2>3. CASE q # r /\ ~new(q)
    <3>1. entries'[q] = entries[q]
      BY <1>8, <2>3
    <3>2. q <= registries \/ entries[q][n] = None
      BY <1>1, <2>0, ItemIsNone DEF EntryOK
    <3>3. QED
      BY <2>0, <3>1, <3>2
  <2>4. QED
    BY <2>1, <2>2, <2>3
<1> HIDE DEF place
<1>10. ASSUME NEW q \in Registries, NEW n \in Names
       PROVE  EntryOK(q, entries'[q][n], registries', variables')
  <2>0. EntryOK(q, entries[q][n], registries, variables) /\ q \in Nat
    BY <1>1, SMTT(30) DEF TreeOK, Registries
  <2>1. CASE entries'[q][n] = entries[q][n] /\ (q <= registries \/ entries[q][n] = None)
    BY <1>1, <1>7, <2>0, <2>1, NoneItem, SMTT(30) DEF EntryOK, Items
  <2>2. CASE entries'[q][n] = None
    BY <2>2, NoneItem, SMTT(30) DEF EntryOK
  <2>3. ASSUME NEW k \in 1 .. N, q = place(k), entries'[q][n] = link(k)
        PROVE  EntryOK(q, entries'[q][n], registries', variables')
    BY <1>1, <1>5, <1>7, <2>0, <2>3, SMTT(30) DEF EntryOK
  <2>4. QED
    BY <1>9, <2>1, <2>2, <2>3, SMTT(30)
<1>11. ASSUME NEW q \in Registries, NEW s \in Registries, NEW m \in Names, NEW n \in Names,
              entries'[q][m] # None
       PROVE  /\ entries'[q][m] # Reg(Root)
              /\ entries'[q][m] = entries'[s][n] => q = s /\ m = n
  <2>1. entries'[q][m] # Reg(Root)
    <3>1. EntryOK(q, entries'[q][m], registries', variables') /\ q \in Nat /\ q >= 1
      BY <1>10 DEF Registries
    <3>2. Reg(Root).kind = "registry" /\ Reg(Root).id = 1
      BY DEF Reg, Root
    <3>3. QED
      BY <3>1, <3>2, SMTT(30) DEF EntryOK
  <2> SUFFICES ASSUME entries'[q][m] = entries'[s][n] PROVE q = s /\ m = n
    BY <2>1
  <2>2. /\ EntryOK(q, entries[q][m], registries, variables)
        /\ EntryOK(s, entries[s][n], registries, variables)
    BY <1>1 DEF TreeOK
  <2>3. CASE entries'[q][m] = entries[q][m] /\ entries'[s][n] = entries[s][n]
    <3>1. entries[q][m] # None /\ entries[q][m] = entries[s][n]
      BY <1>11, <2>3, Zenon
    <3>2. Unique(entries)
      BY <1>1 DEF TreeOK
    <3>3. QED
      BY <3>1, <3>2 DEF Unique
  <2>a. ASSUME NEW k \in 1 .. N, NEW p, EntryOK(p, link(k), registries, variables)
        PROVE  FALSE
    <3>1. \/ link(k).kind = "registry" /\ link(k).id = registries + k
          \/ link(k).kind = "variable" /\ link(k).id = variables + 1
      BY <1>5
    <3>2. QED
      BY <1>1, <2>a, <3>1 DEF EntryOK
  <2>4. ASSUME NEW k \in 1 .. N, entries'[q][m] = link(k), entries'[s][n] = entries[s][n]
        PROVE  FALSE
    BY <2>2, <2>4, <2>a, Zenon
  <2>5. ASSUME NEW k \in 1 .. N, entries'[s][n] = link(k), entries'[q][m] = entries[q][m]
        PROVE  FALSE
    BY <2>2, <2>5, <2>a, SMTT(30)
  <2>6. ASSUME NEW j \in 1 .. N, NEW k \in 1 .. N, entries'[q][m] = link(j),
               entries'[s][n] = link(k), q = place(j), m = names[j], s = place(k), n = names[k]
        PROVE  q = s /\ m = n
    <3>1. link(j) = link(k)
      BY <2>6, Zenon
    <3>2. /\ \/ link(j).kind = "registry" /\ link(j).id = registries + j
             \/ link(j).kind = "variable" /\ j = N
          /\ \/ link(k).kind = "registry" /\ link(k).id = registries + k
             \/ link(k).kind = "variable" /\ k = N
      BY <1>5
    <3>3. j = k
      BY <1>1, <3>1, <3>2, SMTT(30)
    <3>4. QED
      BY <2>6, <3>3
  <2>7. \/ entries'[q][m] = entries[q][m]
        \/ \E j \in 1 .. N : q = place(j) /\ m = names[j] /\ entries'[q][m] = link(j)
    BY <1>9, <1>11
  <2>8. \/ entries'[s][n] = entries[s][n]
        \/ \E k \in 1 .. N : s = place(k) /\ n = names[k] /\ entries'[s][n] = link(k)
    BY <1>9, <1>11
  <2>9. QED
    BY <2>3, <2>4, <2>5, <2>6, <2>7, <2>8, SMTT(30)
<1>12. entries' \in [Registries -> [Names -> Items]]
  <2>1. \A q \in Registries : entries'[q] \in [Names -> Items]
    BY <1>3, <1>9
  <2>2. DOMAIN entries' = Registries
    BY <1>8
  <2>3. entries' = [q \in Registries |-> entries'[q]]
    BY <1>8
  <2>4. QED
    BY <2>1, <2>3
<1>13. TreeInv'
  BY <1>7, <1>10, <1>11, <1>12, TreeInvFormNext DEF TreeOK, Unique
<1>14. ASSUME NEW q \in Registries, q # r, q <= registries PROVE entries'[q] = entries[q]
  <2>1. ~new(q)
    BY <1>1, <1>14 DEF Registries
  <2>2. QED
    BY <1>8, <1>14, <2>1
<1>15. item.kind = "registry" => item.id \in Registries /\ item.id <= registries'
  BY <1>1, <1>4, <1>6 DEF Registries
<1>16. QED
  BY <1>7, <1>13, <1>14, <1>15

-----------------------------------------------------------------------------
(* What a step of one call leaves alone.                                   *)

\* The step changes locks of t only, and no registry that another call holds.
OnlyOwn(t) ==
  /\ registries <= registries'
  /\ \A u \in Threads \ {t} :
       /\ thread'[u] = thread[u]
       /\ \A r \in Registries :
            /\ writer'[r] = u <=> writer[r] = u
            /\ u \in readers'[r] <=> u \in readers[r]
            /\ txMu'[r] = u <=> txMu[r] = u
            /\ writer[r] = u /\ r <= registries => entries'[r] = entries[r]

\* For the calls of others the invariant stays.
LEMMA OthersKeep ==
  ASSUME Inv, NEW t \in Threads, OnlyOwn(t), registries' \in Registries,
         NEW u \in Threads \ {t}
  PROVE  ThreadInv(u)'
<1> DEFINE th == thread[u]
           held == th.held
<1>1. /\ ThreadInv(u) /\ th \in ThreadRecords /\ thread'[u] = th
      /\ registries \in Nat /\ registries' \in Nat /\ registries <= registries'
      /\ th.base \in Nat /\ th.at \in Nat
  BY ConstantsAssumption, SMTT(30) DEF Inv, TreeInv, Types, ThreadRecords, OnlyOwn, Registries
<1>2. th.base <= registries' /\ th.at <= registries'
  BY <1>1 DEF ThreadInv
<1>3. th.op \in Climbing \union Pruning => PathInv(u)'
  <2> SUFFICES ASSUME th.op \in Climbing \union Pruning PROVE PathInv(u)'
    OBVIOUS
  <2>1. PathInv(u) /\ held \in Seq(PathFrames)
    BY <1>1, Zenon DEF ThreadInv, PathInv
  <2>2. ASSUME NEW k \in 1 .. Len(held)
        PROVE  /\ held[k].reg <= registries'
               /\ writer'[held[k].reg] = u
               /\ entries'[held[k].reg][held[k].name].kind = "registry"
               /\ th.op \in Climbing => held[k].reg < th.at
    <3>1. held[k] \in PathFrames
      BY <2>1, SeqElement
    <3>2. held[k].reg \in Registries
      BY <3>1 DEF PathFrames
    <3>3. held[k].reg \in Nat
      BY <3>2, ConstantsAssumption DEF Registries
    <3>4. /\ held[k].reg <= registries /\ writer[held[k].reg] = u
          /\ entries[held[k].reg][held[k].name].kind = "registry"
          /\ th.op \in Climbing => held[k].reg < th.at
      BY <2>1, Zenon DEF PathInv
    <3>5. writer'[held[k].reg] = u /\ entries'[held[k].reg] = entries[held[k].reg]
      BY <3>2, <3>4, ZenonT(30) DEF OnlyOwn
    <3>6. held[k].reg <= registries'
      BY <1>1, <3>3, <3>4, AtMost, Zenon
    <3>7. QED
      BY <3>4, <3>5, <3>6, Zenon
  <2>3. Increases(held) /\ (th.op \in Pruning => held # << >>)
    BY <2>1, SMTT(30) DEF PathInv
  <2>4. QED
    BY <1>1, <2>1, <2>2, <2>3, Zenon DEF PathInv
<1>4. th.op = "Visit" => VisitInv(u)'
  <2> SUFFICES ASSUME th.op = "Visit" PROVE VisitInv(u)'
    BY SMTT(30)
  <2>1. VisitInv(u) /\ held \in Seq(VisitFrames)
    BY <1>1, SMTT(30) DEF ThreadInv, VisitInv
  <2>2. ASSUME NEW k \in 1 .. Len(held) PROVE held[k].reg <= registries'
    <3>1. held[k] \in VisitFrames
      BY <2>1, SeqElement
    <3>2. held[k].reg \in Nat
      BY <3>1, ConstantsAssumption DEF VisitFrames, Registries
    <3>3. QED
      BY <1>1, <2>1, <3>2 DEF VisitInv
  <2>3. Increases(held)
    BY <2>1 DEF VisitInv
  <2>4. QED
    BY <1>1, <2>1, <2>2, <2>3 DEF VisitInv
<1>5. OwnLocks(u)'
  <2> SUFFICES ASSUME NEW r \in Registries
               PROVE  /\ writer'[r] = u =>
                           /\ th.op \in Climbing \union Pruning
                           /\ \E k \in 1 .. Len(held) : held[k].reg = r
                      /\ u \in readers'[r] =>
                           \/ /\ th.op = "Visit"
                              /\ \E k \in 1 .. Len(held) : held[k].reg = r
                           \/ /\ th.op \in {"delete", "keep"}
                              /\ r = Sub(u)'
                      /\ txMu'[r] = u => th.op \in {"setup", "insert"}
    BY <1>1, Zenon DEF OwnLocks
  <2>1. /\ writer'[r] = u <=> writer[r] = u
        /\ u \in readers'[r] <=> u \in readers[r]
        /\ txMu'[r] = u <=> txMu[r] = u
    BY DEF OnlyOwn
  <2>2. OwnLocks(u)
    BY <1>1 DEF ThreadInv
  <2>3. th.op \in {"delete", "keep"} => Sub(u)' = Sub(u)
    <3> SUFFICES ASSUME th.op \in {"delete", "keep"} PROVE Sub(u)' = Sub(u)
      OBVIOUS
    <3>1. /\ Frame(u) \in PathFrames /\ Frame(u).reg <= registries
          /\ writer[Frame(u).reg] = u
      BY SubFacts DEF Pruning
    <3>2. Frame(u).reg \in Registries
      BY <3>1 DEF PathFrames
    <3>3. entries'[Frame(u).reg] = entries[Frame(u).reg]
      BY <3>1, <3>2 DEF OnlyOwn
    <3>4. Frame(u)' = Frame(u)
      BY <1>1 DEF Frame
    <3>5. QED
      BY <3>3, <3>4 DEF Sub
  <2>4. QED
    BY <2>1, <2>2, <2>3 DEF OwnLocks
<1>6. QED
  BY <1>1, <1>2, <1>3, <1>4, <1>5, ZenonT(30) DEF ThreadInv

LEMMA StepKeeps ==
  ASSUME Inv, NEW t \in Threads, OnlyOwn(t), TreeInv', LockTypes', Types', ThreadInv(t)'
  PROVE  Inv'
<1>1. registries' \in Registries
  BY DEF TreeInv
<1>2. \A u \in Threads : ThreadInv(u)'
  BY <1>1, OthersKeep
<1>3. QED
  BY <1>2 DEF Inv

-----------------------------------------------------------------------------
(* The steps.                                                              *)

LEMMA IdleRecord == Idle \in ThreadRecords
<1>1. Root \in Registries
  BY ConstantsAssumption DEF Root, Registries
<1>2. "idle" \in Ops
  BY DEF Ops, Others
<1>3. << >> \in Seq(Names) /\ << >> \in Seq(PathFrames)
  BY SeqEmpty
<1>4. QED
  BY <1>1, <1>2, <1>3 DEF Idle, ThreadRecords

\* A call that returns gives back every lock it holds.
LEMMA ReturnKeeps ==
  ASSUME Inv, NEW t \in Threads, NEW x, Return(t, x), TreeInv', UNCHANGED program,
         registries <= registries',
         x.kind = "registry" => x.id \in Registries /\ x.id <= registries',
         \A r \in Registries :
           r <= registries /\ writer[r] \in Threads \ {t} => entries'[r] = entries[r]
  PROVE  Inv'
<1>0. /\ thread \in [Threads -> ThreadRecords] /\ handle \in [Threads -> Registries]
      /\ LockTypes /\ program \in Programs /\ NoThread \notin Threads
      /\ \A u \in Threads : handle[u] <= registries
      /\ registries \in Registries /\ registries' \in Registries
  BY ConstantsAssumption, SMTT(30) DEF Inv, Types, TreeInv
<1>1. /\ thread' = [thread EXCEPT ![t] = Idle]
      /\ handle' = [handle EXCEPT ![t] = IF x.kind = "registry" /\ program.sharing
                                           THEN x.id ELSE handle[t]]
      /\ writer' = [r \in Registries |-> IF writer[r] = t THEN NoThread ELSE writer[r]]
      /\ readers' = [r \in Registries |-> readers[r] \ {t}]
      /\ txMu' = [r \in Registries |-> IF txMu[r] = t THEN NoThread ELSE txMu[r]]
  BY SMTT(30) DEF Return
<1>2. LockTypes'
  BY <1>0, <1>1, SMTT(30) DEF LockTypes
<1>3. Types'
  <2>1. thread' \in [Threads -> ThreadRecords]
    BY <1>0, <1>1, IdleRecord, SMTT(30)
  <2>2. handle' \in [Threads -> Registries]
    BY <1>0, <1>1
  <2>3. ASSUME NEW u \in Threads PROVE handle'[u] <= registries'
    <3>1. handle[u] \in Nat /\ registries \in Nat /\ registries' \in Nat /\ handle[u] <= registries
      BY <1>0, Arithmetic, Zenon
    <3>2. CASE u = t /\ x.kind = "registry" /\ program.sharing
      BY <1>0, <1>1, <3>2, SMTT(30)
    <3>3. CASE ~(u = t /\ x.kind = "registry" /\ program.sharing)
      <4>1. handle'[u] = handle[u]
        BY <1>0, <1>1, <3>3, Zenon
      <4>2. QED
        BY <3>1, <4>1
    <3>4. QED
      BY <3>2, <3>3
  <2>4. QED
    BY <1>0, <2>1, <2>2, <2>3, SMTT(30) DEF Types
<1>4. ThreadInv(t)'
  <2>1. thread'[t] = Idle
    BY <1>0, <1>1, SMTT(30)
  <2>2. /\ thread'[t].op = "idle" /\ thread'[t].base = Root /\ thread'[t].at = Root
        /\ thread'[t].held = << >>
    BY <2>1 DEF Idle
  <2>3. Root <= registries'
    BY <1>0, Arithmetic, SMTT(30)
  <2>4. \A r \in Registries : writer'[r] # t /\ t \notin readers'[r] /\ txMu'[r] # t
    BY <1>0, <1>1
  <2>5. QED
    BY <2>2, <2>3, <2>4, Zenon DEF ThreadInv, OwnLocks, Climbing, Pruning
<1>5. OnlyOwn(t)
  BY <1>0, <1>1 DEF OnlyOwn
<1>6. QED
  BY <1>2, <1>3, <1>4, <1>5, StepKeeps, ZenonT(30)

LEMMA SameTree ==
  ASSUME Inv, UNCHANGED treeVars
  PROVE  /\ TreeInv' /\ registries' = registries /\ registries <= registries'
         /\ entries' = entries /\ UNCHANGED program
<1>1. UNCHANGED <<program, entries, registries, variables>>
  BY SMTT(30) DEF treeVars
<1>2. TreeInv' /\ registries \in Registries
  BY <1>1 DEF Inv, TreeInv, AtOnePlace, At
<1>3. QED
  BY <1>1, <1>2, Arithmetic

\* A call that returns without having changed the tree.
LEMMA PlainReturn ==
  ASSUME Inv, NEW t \in Threads, NEW x, Return(t, x), UNCHANGED treeVars,
         x.kind = "registry" => x.id \in Registries /\ x.id <= registries
  PROVE  Inv'
<1>1. /\ TreeInv' /\ registries' = registries /\ registries <= registries'
      /\ entries' = entries /\ UNCHANGED program
  BY SameTree, SMTT(30)
<1>2. QED
  BY <1>1, ReturnKeeps

\* What a busy call looks at.
LEMMA EntryFacts ==
  ASSUME Inv, NEW t \in Threads, thread[t].op # "idle"
  PROVE  /\ thread[t].rest \in Seq(Names) /\ thread[t].rest # << >>
         /\ thread[t].path \in Seq(Names) /\ thread[t].path # << >>
         /\ Head(thread[t].rest) \in Names
         /\ thread[t].at \in Registries /\ thread[t].at <= registries
         /\ thread[t].base \in Registries /\ thread[t].base <= registries
         /\ Entry(t) \in Items
         /\ Entry(t).kind = "registry" =>
              Entry(t).id \in Registries /\ thread[t].at < Entry(t).id /\ Entry(t).id <= registries
         /\ Entry(t) = None <=> Entry(t).kind = "none"
         /\ ~Last(t) => Tail(thread[t].rest) \in Seq(Names) /\ Tail(thread[t].rest) # << >>
<1>1. /\ thread[t].rest \in Seq(Names) /\ thread[t].rest # << >>
      /\ thread[t].path \in Seq(Names) /\ thread[t].path # << >>
      /\ thread[t].at \in Registries /\ thread[t].at <= registries
      /\ thread[t].base \in Registries /\ thread[t].base <= registries
  BY DEF Inv, Types, ThreadRecords, ThreadInv
<1>2. Head(thread[t].rest) \in Names
  BY <1>1, SeqHead
<1>3. TreeOK(entries, registries, variables)
  BY TreeInvForm, SMTT(30) DEF Inv
<1>4. EntryOK(thread[t].at, Entry(t), registries, variables) /\ registries \in Registries
  BY <1>1, <1>2, <1>3 DEF TreeOK, Entry
<1>5. Entry(t) \in Items /\ (Entry(t) = None <=> Entry(t).kind = "none")
  BY <1>4, ItemIsNone, NoneItem, SMTT(30) DEF EntryOK
<1>6. Entry(t).kind = "registry" =>
        Entry(t).id \in Registries /\ thread[t].at < Entry(t).id /\ Entry(t).id <= registries
  BY <1>1, <1>4, ConstantsAssumption, SMTT(30) DEF EntryOK, Items, Registries
<1>7. ~Last(t) => Tail(thread[t].rest) \in Seq(Names) /\ Tail(thread[t].rest) # << >>
  <2> SUFFICES ASSUME ~Last(t)
               PROVE  Tail(thread[t].rest) \in Seq(Names) /\ Tail(thread[t].rest) # << >>
    OBVIOUS
  <2>1. Len(thread[t].rest) \in Nat /\ Len(thread[t].rest) # 1 /\ Len(thread[t].rest) # 0
    BY <1>1, SeqLen, SeqEmpty DEF Last
  <2>2. Tail(thread[t].rest) \in Seq(Names) /\ Len(Tail(thread[t].rest)) = Len(thread[t].rest) - 1
    BY <1>1, SeqHead
  <2>3. Len(Tail(thread[t].rest)) # 0
    BY <2>1, <2>2
  <2>4. \A s \in Seq(Names) : Len(s) # 0 => s # << >>
    BY SeqEmpty
  <2>5. QED
    BY <2>2, <2>3, <2>4, Zenon
<1>8. QED
  BY <1>1, <1>2, <1>5, <1>6, <1>7, SMTT(30)

LEMMA InvInit == Init => Inv
<1> SUFFICES ASSUME Init PROVE Inv
  OBVIOUS
<1>1. TreeInv
  <2>1. /\ registries = 1 /\ variables = 0
        /\ \A r \in Registries, n \in Names : entries[r][n] = None
        /\ entries \in [Registries -> [Names -> Items]]
    BY NoneItem, EmptyType, SMTT(30) DEF Init, Empty
  <2>2. AtOnePlace
    BY <2>1 DEF AtOnePlace, Places, At
  <2>3. 1 \in Registries
    BY Arithmetic DEF Root
  <2>4. None.kind = "none" /\ None.id = 0
    BY DEF None
  <2>5. QED
    BY <2>1, <2>2, <2>3, <2>4 DEF TreeInv
<1>2. LockTypes
  BY DEF Init, LockTypes
<1>3. Types
  <2>1. handle \in [Threads -> Registries] /\ program \in Programs /\ registries = Root
    BY Arithmetic DEF Init, Root
  <2>2. thread \in [Threads -> ThreadRecords]
    BY IdleRecord DEF Init
  <2>3. \A t \in Threads : handle[t] <= registries
    BY Arithmetic, Zenon DEF Init, Root
  <2>4. QED
    BY <2>1, <2>2, <2>3 DEF Types
<1>4. ASSUME NEW t \in Threads PROVE ThreadInv(t)
  <2>1. /\ thread[t].op = "idle" /\ thread[t].base = Root /\ thread[t].at = Root
        /\ thread[t].held = << >> /\ Root <= registries
    BY Arithmetic, Zenon DEF Init, Idle, Root
  <2>2. \A r \in Registries : writer[r] # t /\ t \notin readers[r] /\ txMu[r] # t
    BY ConstantsAssumption DEF Init
  <2>3. QED
    BY <2>1, <2>2 DEF ThreadInv, OwnLocks, Climbing, Pruning
<1>5. QED
  BY <1>1, <1>2, <1>3, <1>4 DEF Inv

\* A step after which the call is still under way.
LEMMA GoesOn ==
  ASSUME Inv, NEW t \in Threads, UNCHANGED <<program, registries, handle>>,
         thread' = [thread EXCEPT ![t] = thread'[t]], thread'[t] \in ThreadRecords,
         TreeInv', LockTypes', ThreadInv(t)',
         \A u \in Threads \ {t}, r \in Registries :
           /\ writer'[r] = u <=> writer[r] = u
           /\ u \in readers'[r] <=> u \in readers[r]
           /\ txMu'[r] = u <=> txMu[r] = u
           /\ writer[r] = u /\ r <= registries => entries'[r] = entries[r]
  PROVE  Inv'
<1>1. Types'
  BY DEF Inv, Types
<1>2. OnlyOwn(t)
  <2>1. registries <= registries'
    BY Arithmetic, SMTT(30) DEF Inv, TreeInv
  <2>2. \A u \in Threads \ {t} : thread'[u] = thread[u]
    BY DEF Inv, Types
  <2>3. QED
    BY <2>1, <2>2, SMTT(30) DEF OnlyOwn
<1>3. QED
  BY <1>1, <1>2, StepKeeps, SMTT(30)

\* The same for a step that changes neither the tree nor a lock.
LEMMA GoesOnQuietly ==
  ASSUME Inv, NEW t \in Threads, UNCHANGED <<treeVars, lockVars, handle>>,
         thread' = [thread EXCEPT ![t] = thread'[t]], thread'[t] \in ThreadRecords,
         ThreadInv(t)'
  PROVE  Inv'
<1>1. TreeInv' /\ entries' = entries /\ UNCHANGED <<program, registries, handle>>
  BY SameTree
<1>2. UNCHANGED <<writer, readers, txMu>> /\ LockTypes'
  BY DEF Inv, lockVars, LockTypes
<1>3. QED
  BY <1>1, <1>2, GoesOn

\* The registries a method may be called on.
LEMMA HandleFacts ==
  ASSUME Inv, NEW t \in Threads, NEW base \in {Root, handle[t]}
  PROVE  base \in Registries /\ base <= registries
<1>1. handle[t] \in Registries /\ handle[t] <= registries /\ registries \in Registries
  BY DEF Inv, Types, TreeInv
<1>2. QED
  BY <1>1, Arithmetic

LEMMA CallKeeps ==
  ASSUME Inv, NEW t \in Threads, NEW op \in program.methods[t],
         NEW base \in {Root, handle[t]}, NEW path \in program.paths, Call(t, op, base, path)
  PROVE  Inv'
<1>1. base \in Registries /\ base <= registries
  BY HandleFacts, SMTT(30)
<1>2. op \in Methods /\ path \in Seq(Names) /\ path # << >>
  BY ConstantsAssumption DEF Inv, Types
<1>3. op \in Ops /\ op \notin Pruning /\ op # "idle"
  BY <1>2, SMTT(30) DEF Methods, Ops, Climbing, Pruning, Others, Waiting
<1>4. /\ thread' = [thread EXCEPT ![t] = [op |-> op, base |-> base, path |-> path, at |-> base,
                                          rest |-> path, held |-> << >>]]
      /\ thread[t].op = "idle" /\ UNCHANGED <<treeVars, lockVars, handle>>
  BY DEF Call
<1>5. thread'[t] = [op |-> op, base |-> base, path |-> path, at |-> base,
                    rest |-> path, held |-> << >>]
  BY <1>4, Zenon DEF Inv, Types
<1>6. << >> \in Seq(PathFrames) /\ << >> \in Seq(VisitFrames)
  BY NoFrames, Zenon
<1>7. thread'[t] \in ThreadRecords
  <2>1. << >> \in Seq(PathFrames) \union Seq(VisitFrames)
    BY <1>6, Zenon
  <2>2. QED
    BY <1>1, <1>2, <1>3, <1>5, <2>1, RecordType, ZenonT(30)
<1>8. ThreadInv(t)'
  <2>1. ThreadInv(t) /\ UNCHANGED <<registries, entries, writer, readers, txMu>>
    BY <1>4, Zenon DEF Inv, treeVars, lockVars
  <2>2. thread[t].held = << >>
    BY <1>4, <2>1, Zenon DEF ThreadInv, Others
  <2>3. \A r \in Registries : writer'[r] # t /\ t \notin readers'[r] /\ txMu'[r] # t
    <3> SUFFICES ASSUME NEW r \in Registries
                 PROVE  writer[r] # t /\ t \notin readers[r] /\ txMu[r] # t
      BY <2>1, Zenon
    <3>1. OwnLocks(t) /\ ~ \E k \in 1 .. Len(thread[t].held) : thread[t].held[k].reg = r
      BY <2>1, <2>2, NoFrames, ZenonT(30) DEF ThreadInv
    <3>2. thread[t].op \notin {"Visit", "delete", "keep", "setup", "insert"}
      BY <1>4, ZenonT(30)
    <3>3. QED
      BY <3>1, <3>2, Zenon DEF OwnLocks
  <2>4. OwnLocks(t)'
    BY <2>3, Zenon DEF OwnLocks
  <2>5. /\ thread'[t].op = op /\ thread'[t].held = << >> /\ thread'[t].base = base
        /\ thread'[t].at = base /\ thread'[t].path = path /\ thread'[t].rest = path
    BY <1>5, SMTT(30)
  <2>6. PathInv(t)' /\ VisitInv(t)'
    BY <1>3, <1>6, <2>5 DEF PathInv, VisitInv, Increases
  <2>7. QED
    BY <1>1, <1>2, <2>1, <2>4, <2>5, <2>6, ZenonT(30) DEF ThreadInv
<1>9. QED
  BY <1>4, <1>5, <1>7, <1>8, GoesOnQuietly, Zenon

LEMMA NewLockKeeps ==
  ASSUME Inv, NEW t \in Threads, NewLock(t)
  PROVE  Inv'
<1> DEFINE b == thread[t].base
<1>1. /\ thread[t].op \in Waiting /\ txMu[b] = NoThread
      /\ txMu' = [txMu EXCEPT ![b] = t]
      /\ thread' = [thread EXCEPT ![t].op = NextPhase(t)]
      /\ UNCHANGED <<treeVars, writer, readers, handle>>
  BY DEF NewLock, Waiting, callVars
<1>2. NextPhase(t) \in {"setup", "insert"}
  BY DEF NextPhase
<1>3. thread[t] \in ThreadRecords /\ ThreadInv(t)
  BY DEF Inv, Types
<1>4. /\ thread'[t] \in ThreadRecords
      /\ thread'[t].op \in {"setup", "insert"}
      /\ thread'[t].base = b /\ thread'[t].at = thread[t].at
      /\ thread'[t].rest = thread[t].rest /\ thread'[t].path = thread[t].path
      /\ thread'[t].held = thread[t].held
      /\ thread' = [thread EXCEPT ![t] = thread'[t]]
  BY <1>1, <1>2, <1>3, Zenon DEF Inv, Types, ThreadRecords, Ops, Climbing, Others
<1>5. TreeInv' /\ entries' = entries /\ UNCHANGED <<program, registries, handle>>
  BY <1>1, SameTree
<1>6. LockTypes' /\ \A u \in Threads \ {t}, r \in Registries : txMu'[r] = u <=> txMu[r] = u
  BY <1>1, <1>3, ConstantsAssumption, SMTT(30) DEF Inv, LockTypes, ThreadRecords
<1>7. ThreadInv(t)'
  <2>1. /\ thread[t].held = << >> /\ thread[t].path # << >> /\ thread[t].rest # << >>
        /\ thread[t].base <= registries /\ thread[t].at <= registries
    BY <1>1, <1>3 DEF ThreadInv, Others, Waiting
  <2>2. \A r \in Registries : writer'[r] # t /\ t \notin readers'[r]
    BY <1>1, <1>3, SMTT(30) DEF ThreadInv, OwnLocks, Climbing, Pruning, Waiting
  <2>3. OwnLocks(t)'
    BY <1>4, <2>2 DEF OwnLocks
  <2>4. << >> \in Seq(PathFrames)
    BY NoFrames, Zenon
  <2>5. PathInv(t)'
    BY <1>4, <2>1, <2>4, SMTT(30) DEF PathInv, Increases, Pruning
  <2>6. QED
    BY <1>4, <1>5, <2>1, <2>3, <2>5 DEF ThreadInv, Climbing, Pruning, Others
<1>8. QED
  BY <1>1, <1>4, <1>5, <1>6, <1>7, GoesOn, Zenon

\* A lookup that goes on, or that starts again to insert the variable.
LEMMA LookupKeeps ==
  ASSUME Inv, NEW t \in Threads, FindDescend(t) \/ SetupMissing(t)
  PROVE  Inv'
<1>1. thread[t].op \in {"setup", "GetRegistry"} /\ UNCHANGED <<treeVars, lockVars, handle>>
  BY DEF FindDescend, SetupMissing, callVars
<1>2. thread[t] \in ThreadRecords /\ ThreadInv(t) /\ thread \in [Threads -> ThreadRecords]
  BY DEF Inv, Types
<1>3. PICK op \in {thread[t].op, "insert"}, at \in Registries, rest \in Seq(Names) :
        /\ thread' = [thread EXCEPT ![t].op = op, ![t].at = at, ![t].rest = rest]
        /\ at <= registries /\ rest # << >>
        /\ op = "insert" => thread[t].op = "setup"
  <2>1. CASE FindDescend(t)
    <3>1. /\ thread' = [thread EXCEPT ![t].at = Entry(t).id, ![t].rest = Tail(@)]
          /\ ~Last(t) /\ Entry(t).kind = "registry"
      BY <2>1 DEF FindDescend
    <3>2. /\ Entry(t).id \in Registries /\ Entry(t).id <= registries
          /\ Tail(thread[t].rest) \in Seq(Names) /\ Tail(thread[t].rest) # << >>
      BY <1>1, <3>1, EntryFacts
    <3>3. thread' = [thread EXCEPT ![t].op = thread[t].op, ![t].at = Entry(t).id,
                                   ![t].rest = Tail(thread[t].rest)]
      BY <1>2, <3>1, Zenon DEF ThreadRecords
    <3>4. QED
      BY <1>1, <3>2, <3>3, Zenon
  <2>2. CASE SetupMissing(t)
    <3>1. /\ thread' = [thread EXCEPT ![t].op = "insert", ![t].at = thread[t].base,
                                      ![t].rest = thread[t].path]
          /\ thread[t].op = "setup"
      BY <2>2, Zenon DEF SetupMissing
    <3>2. /\ thread[t].base \in Registries /\ thread[t].base <= registries
          /\ thread[t].path \in Seq(Names) /\ thread[t].path # << >>
      BY <1>1, EntryFacts
    <3>3. QED
      BY <3>1, <3>2, Zenon
  <2>3. QED
    BY <2>1, <2>2, Zenon
<1>4. /\ thread'[t] \in ThreadRecords
      /\ thread'[t].op = op /\ thread'[t].at = at /\ thread'[t].rest = rest
      /\ thread'[t].base = thread[t].base /\ thread'[t].path = thread[t].path
      /\ thread'[t].held = thread[t].held
      /\ thread' = [thread EXCEPT ![t] = thread'[t]]
  BY <1>1, <1>2, <1>3, Zenon DEF ThreadRecords, Ops, Climbing, Others
<1>5. UNCHANGED <<program, registries, entries, writer, readers, txMu>>
  BY <1>1 DEF treeVars, lockVars
<1>6. ThreadInv(t)'
  <2>1. /\ thread[t].held = << >> /\ thread[t].path # << >> /\ thread[t].base <= registries
    BY <1>1, <1>2, ZenonT(30) DEF ThreadInv, Others, Waiting
  <2>2. \A r \in Registries : writer'[r] # t /\ t \notin readers'[r]
    BY <1>1, <1>2, <1>5 DEF ThreadInv, OwnLocks, Climbing, Pruning
  <2>3. \A r \in Registries : txMu'[r] = t => op \in {"setup", "insert"}
    BY <1>2, <1>3, <1>5, Zenon DEF ThreadInv, OwnLocks
  <2>4. OwnLocks(t)'
    BY <1>4, <2>2, <2>3, SMTT(30) DEF OwnLocks
  <2>5. << >> \in Seq(PathFrames)
    BY SeqEmpty
  <2>6. op \notin Pruning /\ op \in {"setup", "GetRegistry", "insert"}
    BY <1>1, ZenonT(30) DEF Pruning
  <2>7. PathInv(t)'
    BY <1>4, <2>1, <2>5, <2>6 DEF PathInv, Increases
  <2>8. QED
    BY <1>3, <1>4, <1>5, <2>1, <2>4, <2>6, <2>7, Zenon DEF ThreadInv, Climbing, Others
<1>7. QED
  BY <1>1, <1>4, <1>6, GoesOnQuietly

\* A call that goes down keeps the lock of the registry it comes from.
LEMMA DescendKeeps ==
  ASSUME Inv, NEW t \in Threads, thread[t].op \in Climbing, CanLock(thread[t].at),
         Entry(t).kind = "registry", ~Last(t), Descend(t, Entry(t).id)
  PROVE  Inv'
<1> DEFINE r == thread[t].at
           held == thread[t].held
           frame == [reg |-> r, name |-> Head(thread[t].rest)]
<1>1. thread[t] \in ThreadRecords /\ ThreadInv(t) /\ thread \in [Threads -> ThreadRecords] /\ LockTypes
  BY ZenonT(30) DEF Inv, Types
<1>2. /\ Head(thread[t].rest) \in Names /\ r \in Registries /\ r <= registries
      /\ Entry(t).id \in Registries /\ r < Entry(t).id /\ Entry(t).id <= registries
      /\ Tail(thread[t].rest) \in Seq(Names) /\ Tail(thread[t].rest) # << >>
  BY EntryFacts, SMTT(30) DEF Climbing
<1>3. /\ PathInv(t) /\ held \in Seq(PathFrames) /\ frame \in PathFrames
      /\ frame.reg = r /\ frame.name = Head(thread[t].rest)
  <2>1. PathInv(t) /\ held \in Seq(PathFrames)
    BY <1>1, Zenon DEF ThreadInv, PathInv
  <2>2. frame \in PathFrames /\ frame.reg = r /\ frame.name = Head(thread[t].rest)
    BY <1>2, PathFrameType, Zenon
  <2>3. QED
    BY <2>1, <2>2, Zenon
<1>4. /\ Append(held, frame) \in Seq(PathFrames) /\ Len(held) \in Nat
      /\ Len(Append(held, frame)) = Len(held) + 1
      /\ Append(held, frame)[Len(held) + 1] = frame
      /\ \A k \in 1 .. Len(held) : Append(held, frame)[k] = held[k]
  BY <1>3, PathFrameAppend, ZenonT(30)
<1>5. /\ writer' = [writer EXCEPT ![r] = t]
      /\ thread' = [thread EXCEPT ![t].at = Entry(t).id, ![t].rest = Tail(@),
                                  ![t].held = Append(@, frame)]
      /\ UNCHANGED <<treeVars, readers, txMu, handle>>
  BY DEF Descend, callVars
<1>6. /\ thread'[t] \in ThreadRecords
      /\ thread'[t].op = thread[t].op /\ thread'[t].at = Entry(t).id
      /\ thread'[t].rest = Tail(thread[t].rest)
      /\ thread'[t].base = thread[t].base /\ thread'[t].path = thread[t].path
      /\ thread'[t].held = Append(held, frame)
      /\ thread' = [thread EXCEPT ![t] = thread'[t]]
  BY <1>1, <1>2, <1>4, <1>5 DEF ThreadRecords
<1> HIDE DEF frame
<1>7. TreeInv' /\ entries' = entries /\ UNCHANGED <<program, registries, handle>>
  BY <1>5, SameTree
<1>8. /\ LockTypes'
      /\ \A u \in Threads \ {t}, q \in Registries : writer'[q] = u <=> writer[q] = u
  BY <1>1, <1>2, <1>5, ConstantsAssumption DEF LockTypes, CanLock
<1>9. ThreadInv(t)'
  <2>1. ASSUME NEW k \in 1 .. Len(held)
        PROVE  /\ held[k].reg \in Registries /\ held[k].reg < r
               /\ held[k].reg < Entry(t).id /\ held[k].reg <= registries
               /\ writer'[held[k].reg] = t
               /\ entries[held[k].reg][held[k].name].kind = "registry"
    <3>1. held[k] \in PathFrames
      BY <1>3, SeqElement, ZenonT(30)
    <3>2. held[k].reg \in Registries
      BY <3>1 DEF PathFrames
    <3>3. /\ held[k].reg < r /\ held[k].reg <= registries /\ writer[held[k].reg] = t
          /\ entries[held[k].reg][held[k].name].kind = "registry"
      BY <1>3, Zenon DEF PathInv
    <3>4. held[k].reg < Entry(t).id
      <4>1. held[k].reg \in Nat /\ r \in Nat /\ Entry(t).id \in Nat
        BY <1>2, <3>2, Arithmetic, ZenonT(30)
      <4>2. QED
        BY <1>2, <3>3, <4>1, Transitive, Zenon
    <3>5. writer'[held[k].reg] = t
      BY <1>1, <1>5, <3>2, <3>3 DEF LockTypes
    <3>6. QED
      BY <3>2, <3>3, <3>4, <3>5, Zenon
  <2>2. Increases(Append(held, frame))
    <3> SUFFICES ASSUME NEW j \in 1 .. Len(held) + 1, NEW k \in 1 .. Len(held) + 1, j < k
                 PROVE  Append(held, frame)[j].reg < Append(held, frame)[k].reg
      BY <1>4, Zenon DEF Increases
    <3>1. j \in 1 .. Len(held)
      BY <1>4, EarlierPosition, Zenon
    <3>2. CASE k \in 1 .. Len(held)
      BY <1>3, <1>4, <3>1, <3>2, Zenon DEF PathInv, Increases
    <3>3. CASE k = Len(held) + 1
      <4>1. Append(held, frame)[k].reg = r
        BY <1>3, <1>4, <3>3, Zenon
      <4>2. QED
        BY <1>4, <2>1, <3>1, <4>1, Zenon
    <3>4. QED
      BY <1>4, <3>2, <3>3, NextPosition, Zenon
  <2>3. ASSUME NEW k \in 1 .. Len(held) + 1
        PROVE  /\ Append(held, frame)[k].reg <= registries
               /\ writer'[Append(held, frame)[k].reg] = t
               /\ entries[Append(held, frame)[k].reg][Append(held, frame)[k].name].kind = "registry"
               /\ Append(held, frame)[k].reg < Entry(t).id
    <3>1. CASE k \in 1 .. Len(held)
      BY <1>4, <2>1, <3>1, Zenon
    <3>2. CASE k = Len(held) + 1
      <4>1. frame.reg = r /\ frame.name = Head(thread[t].rest)
        BY <1>3
      <4>2. writer'[r] = t
        BY <1>1, <1>2, <1>5 DEF LockTypes
      <4>3. QED
        BY <1>2, <1>4, <3>2, <4>1, <4>2, Zenon DEF Entry
    <3>3. k \in 1 .. Len(held) \/ k = Len(held) + 1
      BY <1>4, NextPosition, Zenon
    <3>4. QED
      BY <3>1, <3>2, <3>3, Zenon
  <2>4. thread[t].op \notin Pruning /\ thread[t].op # "Visit" /\ thread[t].op \notin Others
    BY DEF Climbing, Pruning, Others, Waiting
  <2>5. PathInv(t)'
    BY <1>4, <1>6, <1>7, <2>2, <2>3, <2>4, Zenon DEF PathInv
  <2>6. OwnLocks(t)'
    <3> SUFFICES ASSUME NEW q \in Registries
                 PROVE  /\ writer'[q] = t => \E k \in 1 .. Len(held) + 1 : Append(held, frame)[k].reg = q
                        /\ t \notin readers'[q]
                        /\ txMu'[q] = t => thread[t].op \in {"setup", "insert"}
      <4>1. thread'[t].op = thread[t].op /\ thread'[t].held = Append(held, frame)
        BY <1>6, Zenon
      <4>2. QED
        BY <1>4, <4>1, ZenonT(30) DEF OwnLocks
    <3>1. OwnLocks(t)
      BY <1>1 DEF ThreadInv
    <3>2. t \notin readers'[q] /\ (txMu'[q] = t => thread[t].op \in {"setup", "insert"})
      BY <1>5, <2>4, <3>1 DEF OwnLocks, Pruning
    <3>3. CASE q = r
      BY <1>3, <1>4, <3>2, <3>3, NextPosition, Zenon
    <3>4. CASE q # r
      <4>1. writer'[q] = writer[q]
        BY <1>1, <1>5, <3>4, SMTT(30) DEF LockTypes
      <4>2. writer[q] = t => \E k \in 1 .. Len(held) : held[k].reg = q
        BY <3>1 DEF OwnLocks
      <4>3. QED
        BY <1>4, <3>2, <4>1, <4>2, NextPosition, Zenon
    <3>5. QED
      BY <3>3, <3>4, Zenon
  <2>7. thread[t].base <= registries /\ thread[t].path # << >>
    BY <1>1, Zenon DEF ThreadInv, Climbing
  <2>8. QED
    BY <1>2, <1>6, <1>7, <2>4, <2>5, <2>6, <2>7, Zenon DEF ThreadInv
<1>10. QED
  <2>1. UNCHANGED <<readers, txMu>>
    BY <1>5
  <2>2. QED
    BY <1>6, <1>7, <1>8, <1>9, <2>1, GoesOn, Zenon

\* The calls that return what they have found.
LEMMA FoundKeeps ==
  ASSUME Inv, NEW t \in Threads,
         AddUsed(t) \/ SetupFound(t) \/ GetReturn(t) \/ CreateFound(t)
  PROVE  Inv'
<1>1. thread[t].op # "idle" /\ UNCHANGED treeVars
  <2>1. UNCHANGED treeVars
    BY Zenon DEF AddUsed, SetupFound, GetReturn, CreateFound
  <2>2. thread[t].op \in {"Add", "NewRegistry", "insert", "setup", "GetRegistry", "GetOrCreateRegistry"}
    BY Zenon DEF AddUsed, SetupFound, GetReturn, CreateFound, Adding
  <2>3. QED
    BY <2>1, <2>2
<1>2. Entry(t).kind = "registry" => Entry(t).id \in Registries /\ Entry(t).id <= registries
  BY <1>1, EntryFacts
<1>3. Panic.kind # "registry" /\ None.kind # "registry"
  BY DEF Panic, None
<1>4. PICK x \in {Entry(t), Panic, None} : Return(t, x)
  BY Zenon DEF AddUsed, SetupFound, GetReturn, CreateFound
<1>5. QED
  BY <1>1, <1>2, <1>3, <1>4, PlainReturn, ZenonT(30)

\* The calls that hang a chain into the tree.
LEMMA InsertKeeps ==
  ASSUME Inv, NEW t \in Threads, AddFree(t) \/ CreateChain(t)
  PROVE  Inv'
<1>1. /\ thread[t].op # "idle" /\ CanLock(thread[t].at)
      /\ Insert(thread[t].at, thread[t].rest, NewItem(t)) /\ Return(t, NewItem(t))
      /\ registries + Len(thread[t].rest) <= MaxRegistries
  <2>1. /\ CanLock(thread[t].at) /\ Return(t, NewItem(t))
        /\ Insert(thread[t].at, thread[t].rest, NewItem(t))
        /\ registries + Len(thread[t].rest) <= MaxRegistries
    BY Zenon DEF AddFree, CreateChain, Room
  <2>2. thread[t].op \in {"Add", "NewRegistry", "insert", "GetOrCreateRegistry"}
    BY ZenonT(30) DEF AddFree, CreateChain, Adding
  <2>3. QED
    BY <2>1, <2>2
<1>2. /\ thread[t].at \in Registries /\ thread[t].at <= registries
      /\ thread[t].rest \in Seq(Names) /\ thread[t].rest # << >>
  BY <1>1, EntryFacts
<1>3. NewItem(t) \in {Reg(registries + Len(thread[t].rest)), Var(variables + 1)}
  BY DEF NewItem
<1>4. TreeInv
  BY DEF Inv
<1>5. /\ TreeInv' /\ registries <= registries'
      /\ NewItem(t).kind = "registry" =>
           NewItem(t).id \in Registries /\ NewItem(t).id <= registries'
      /\ \A q \in Registries : q # thread[t].at /\ q <= registries => entries'[q] = entries[q]
  BY <1>1, <1>2, <1>3, <1>4, TreeInsert, ZenonT(30)
<1>6. UNCHANGED program
  BY <1>1, Zenon DEF Insert
<1>7. writer[thread[t].at] \notin Threads
  BY <1>1, ConstantsAssumption DEF CanLock
<1>8. QED
  BY <1>1, <1>5, <1>6, <1>7, ReturnKeeps, Zenon

\* Entries that are removed leave a tree.
LEMMA RemovalKeepsTree ==
  ASSUME Inv, UNCHANGED <<registries, variables>>,
         entries' \in [Registries -> [Names -> Items]],
         \A r \in Registries, n \in Names : entries'[r][n] \in {entries[r][n], None}
  PROVE  TreeInv'
<1>1. TreeOK(entries, registries, variables)
  BY TreeInvForm, SMTT(30) DEF Inv
<1>2. TreeOK(entries', registries, variables)
  BY <1>1, TreeRemove, SMTT(30)
<1>3. QED
  BY <1>2, TreeInvFormNext

LEMMA EntryRemoved ==
  ASSUME Inv, NEW r \in Registries, NEW n \in Names, UNCHANGED <<registries, variables>>,
         entries' = [entries EXCEPT ![r][n] = None]
  PROVE  /\ TreeInv'
         /\ \A q \in Registries : q # r => entries'[q] = entries[q]
         /\ \A q \in Registries, m \in Names : <<q, m>> # <<r, n>> => entries'[q][m] = entries[q][m]
<1>1. entries \in [Registries -> [Names -> Items]]
  BY DEF Inv, TreeInv
<1>2. /\ entries' \in [Registries -> [Names -> Items]]
      /\ \A q \in Registries, m \in Names : entries'[q][m] \in {entries[q][m], None}
  BY <1>1, NoneItem
<1>3. TreeInv'
  BY <1>2, RemovalKeepsTree, Zenon
<1>4. QED
  BY <1>1, <1>3

LEMMA ClearKeeps ==
  ASSUME Inv, NEW t \in Threads, Clear(t)
  PROVE  Inv'
<1>1. /\ thread[t].op # "idle" /\ CanLock(thread[t].at) /\ Return(t, None)
      /\ entries' = [entries EXCEPT ![thread[t].at] = Empty]
      /\ UNCHANGED <<program, registries, variables>>
  BY ZenonT(30) DEF Clear
<1>2. thread[t].at \in Registries
  BY <1>1, EntryFacts, SMTT(30)
<1>3. /\ entries' \in [Registries -> [Names -> Items]]
      /\ \A q \in Registries, m \in Names : entries'[q][m] \in {entries[q][m], None}
      /\ \A q \in Registries : q # thread[t].at => entries'[q] = entries[q]
  BY <1>1, <1>2, EmptyType, Zenon DEF Inv, TreeInv, Empty
<1>4. TreeInv'
  BY <1>1, <1>3, RemovalKeepsTree, Zenon
<1>5. writer[thread[t].at] \notin Threads
  BY <1>1, ConstantsAssumption, Zenon DEF CanLock
<1>6. None.kind # "registry" /\ registries <= registries'
  BY <1>1, Arithmetic DEF None, Inv, TreeInv
<1>7. QED
  BY <1>1, <1>3, <1>4, <1>5, <1>6, ReturnKeeps, Zenon

\* The innermost call of Remove returns, having removed an entry or nothing.
LEMMA UnwindKeeps ==
  ASSUME Inv, NEW t \in Threads, RemoveLast(t) \/ RemoveMissing(t)
  PROVE  Inv'
<1> DEFINE r == thread[t].at
           n == Head(thread[t].rest)
           held == thread[t].held
<1>1. /\ thread[t].op = "Remove" /\ CanLock(r) /\ Unwind(t)
      /\ UNCHANGED <<program, registries, variables>>
      /\ entries' = [entries EXCEPT ![r][n] = None] \/ entries' = entries
  BY DEF RemoveLast, RemoveMissing, treeVars
<1>2. r \in Registries /\ r <= registries /\ n \in Names
  BY <1>1, EntryFacts
<1>3. TreeInv' /\ \A q \in Registries : q # r => entries'[q] = entries[q]
  <2>1. CASE entries' = entries
    BY <1>1, <2>1, SameTree DEF treeVars
  <2>2. CASE entries' = [entries EXCEPT ![r][n] = None]
    BY <1>1, <1>2, <2>2, EntryRemoved, Zenon
  <2>3. QED
    BY <1>1, <2>1, <2>2
<1>4. writer[r] \notin Threads
  BY <1>1, ConstantsAssumption, ZenonT(30) DEF CanLock
<1>5. None.kind # "registry" /\ registries <= registries'
  BY <1>1, Arithmetic, SMTT(30) DEF None, Inv, TreeInv
<1>6. CASE held = << >>
  <2>1. Return(t, None)
    BY <1>1, <1>6 DEF Unwind
  <2>2. QED
    BY <1>1, <1>3, <1>4, <1>5, <2>1, ReturnKeeps, SMTT(30)
<1>7. CASE held # << >>
  <2>1. thread' = [thread EXCEPT ![t].op = "prune"] /\ UNCHANGED <<lockVars, handle>>
    BY <1>1, <1>7 DEF Unwind
  <2>2. thread[t] \in ThreadRecords /\ ThreadInv(t) /\ thread \in [Threads -> ThreadRecords]
    BY DEF Inv, Types
  <2>3. /\ thread'[t] \in ThreadRecords
        /\ thread'[t].op = "prune" /\ thread'[t].at = r /\ thread'[t].held = held
        /\ thread'[t].rest = thread[t].rest
        /\ thread'[t].base = thread[t].base /\ thread'[t].path = thread[t].path
        /\ thread' = [thread EXCEPT ![t] = thread'[t]]
    BY <2>1, <2>2, Zenon DEF ThreadRecords, Ops, Pruning
  <2>4. UNCHANGED <<writer, readers, txMu>> /\ LockTypes'
    BY <2>1 DEF Inv, lockVars, LockTypes
  <2>5. PathInv(t) /\ held \in Seq(PathFrames)
    BY <1>1, <2>2, Zenon DEF ThreadInv, PathInv, Climbing
  <2>6. ASSUME NEW k \in 1 .. Len(held)
        PROVE  /\ held[k].reg <= registries'
               /\ writer'[held[k].reg] = t
               /\ entries'[held[k].reg][held[k].name].kind = "registry"
    <3>1. held[k] \in PathFrames
      BY <2>5, SeqElement, Zenon
    <3>2. held[k].reg \in Registries
      BY <3>1 DEF PathFrames
    <3>3. /\ held[k].reg < r /\ held[k].reg <= registries /\ writer[held[k].reg] = t
          /\ entries[held[k].reg][held[k].name].kind = "registry"
      BY <1>1, <2>5, Zenon DEF PathInv, Climbing
    <3>4. held[k].reg # r
      <4>1. held[k].reg \in Nat /\ r \in Nat
        BY <1>2, <3>2, Arithmetic, Zenon
      <4>2. QED
        BY <3>3, <4>1, Orders, Zenon
    <3>5. QED
      BY <1>1, <1>3, <2>4, <3>2, <3>3, <3>4, Zenon
  <2>7. PathInv(t)'
    BY <1>7, <2>3, <2>5, <2>6, ZenonT(30) DEF PathInv, Climbing
  <2>8. OwnLocks(t)'
    BY <1>1, <2>2, <2>3, <2>4, SMTT(30) DEF ThreadInv, OwnLocks, Pruning
  <2>9. ThreadInv(t)'
    BY <1>1, <2>2, <2>3, <2>7, <2>8 DEF ThreadInv, Others, Waiting
  <2>10. QED
    BY <1>1, <1>3, <1>4, <2>1, <2>3, <2>4, <2>9, GoesOn, ZenonT(30)
<1>8. QED
  BY <1>6, <1>7

LEMMA PruneLockKeeps ==
  ASSUME Inv, NEW t \in Threads, PruneLock(t)
  PROVE  Inv'
<1> DEFINE held == thread[t].held
           op == IF entries[Sub(t)] = Empty THEN "delete" ELSE "keep"
<1>1. /\ thread[t].op = "prune"
      /\ readers' = [readers EXCEPT ![Sub(t)] = @ \union {t}]
      /\ thread' = [thread EXCEPT ![t].op = op]
      /\ UNCHANGED <<treeVars, writer, txMu, handle>>
  BY DEF PruneLock, callVars
<1>2. Sub(t) \in Registries /\ held \in Seq(PathFrames) /\ held # << >>
  BY <1>1, SubFacts DEF Pruning
<1>3. thread[t] \in ThreadRecords /\ ThreadInv(t) /\ thread \in [Threads -> ThreadRecords] /\ LockTypes
  BY DEF Inv, Types
<1>4. /\ thread'[t] \in ThreadRecords
      /\ thread'[t].op = op /\ thread'[t].at = thread[t].at /\ thread'[t].held = held
      /\ thread'[t].rest = thread[t].rest
      /\ thread'[t].base = thread[t].base /\ thread'[t].path = thread[t].path
      /\ thread' = [thread EXCEPT ![t] = thread'[t]]
  BY <1>1, <1>3, Zenon DEF ThreadRecords, Ops, Pruning
<1>5. TreeInv' /\ entries' = entries /\ UNCHANGED <<program, registries, handle>>
  BY <1>1, SameTree
<1>6. /\ LockTypes'
      /\ \A u \in Threads \ {t}, q \in Registries : u \in readers'[q] <=> u \in readers[q]
      /\ \A q \in Registries : t \in readers'[q] <=> t \in readers[q] \/ q = Sub(t)
  BY <1>1, <1>2, <1>3 DEF LockTypes
<1>7. Sub(t)' = Sub(t)
  BY <1>4, <1>5, Zenon DEF Sub, Frame
<1>8. op \in {"delete", "keep"} /\ op \in Pruning
  BY DEF Pruning
<1>9. PathInv(t)'
  <2>1. PathInv(t)
    BY <1>1, <1>3 DEF ThreadInv, Pruning
  <2>2. op \notin Climbing
    BY DEF Climbing
  <2>3. /\ thread'[t].held = thread[t].held /\ thread'[t].op \notin Climbing
        /\ thread[t].held # << >>
    BY <1>2, <1>4, <2>2, Zenon
  <2>4. writer' = writer /\ entries' = entries /\ registries' = registries
    BY <1>1, <1>5, SMT
  <2>5. QED
    BY <2>1, <2>3, <2>4, Zenon DEF PathInv
<1>10. OwnLocks(t)'
  <2> SUFFICES ASSUME NEW q \in Registries
               PROVE  /\ writer'[q] = t => \E k \in 1 .. Len(held) : held[k].reg = q
                      /\ t \in readers'[q] => q = Sub(t)
                      /\ txMu'[q] # t
    BY <1>4, <1>7, <1>8, SMTT(30) DEF OwnLocks
  <2>1. OwnLocks(t)
    BY <1>3 DEF ThreadInv
  <2>2. QED
    BY <1>1, <1>6, <2>1, SMTT(30) DEF OwnLocks
<1>11. ThreadInv(t)'
  <2>1. op # "Visit" /\ op \notin Others
    BY DEF Others, Waiting
  <2>2. QED
    BY <1>1, <1>3, <1>4, <1>5, <1>9, <1>10, <2>1, SMTT(30) DEF ThreadInv
<1>12. UNCHANGED <<writer, txMu>>
  BY <1>1
<1>13. QED
  BY <1>4, <1>5, <1>6, <1>11, <1>12, GoesOn, Zenon

\* removeNames looks at the sub-registry again, removes it if it is empty, and
\* the call around it goes on.
LEMMA PruneReturnKeeps ==
  ASSUME Inv, NEW t \in Threads, PruneReturn(t)
  PROVE  Inv'
<1> DEFINE held == thread[t].held
           N == Len(held)
           frame == Frame(t)
           outer == SubSeq(held, 1, N - 1)
<1>1. /\ thread[t].op \in {"delete", "keep"}
      /\ UNCHANGED <<program, registries, variables>>
      /\ entries' = [entries EXCEPT ![frame.reg][frame.name] = None] \/ entries' = entries
      /\ IF outer = << >>
         THEN Return(t, None)
         ELSE /\ thread' = [thread EXCEPT ![t].op = "prune", ![t].held = outer]
              /\ writer' = [writer EXCEPT ![frame.reg] = NoThread]
              /\ readers' = [readers EXCEPT ![Sub(t)] = @ \ {t}]
              /\ UNCHANGED <<txMu, handle>>
  BY DEF PruneReturn
<1>2. /\ frame \in PathFrames /\ writer[frame.reg] = t
      /\ Sub(t) \in Registries /\ held \in Seq(PathFrames) /\ held # << >>
  BY <1>1, SubFacts DEF Pruning
<1>3. frame.reg \in Registries /\ frame.name \in Names
  BY <1>2 DEF PathFrames
<1>4. TreeInv' /\ \A q \in Registries : q # frame.reg => entries'[q] = entries[q]
  <2>1. CASE entries' = entries
    BY <1>1, <2>1, SameTree DEF treeVars
  <2>2. CASE entries' = [entries EXCEPT ![frame.reg][frame.name] = None]
    BY <1>1, <1>3, <2>2, EntryRemoved, Zenon
  <2>3. QED
    BY <1>1, <2>1, <2>2, Zenon
<1>5. CASE outer = << >>
  <2>1. None.kind # "registry" /\ registries <= registries'
    BY <1>1, Arithmetic DEF None, Inv, TreeInv
  <2>2. QED
    BY <1>1, <1>2, <1>4, <1>5, <2>1, ReturnKeeps, SMTT(30)
<1>6. CASE outer # << >>
  <2>1. /\ thread' = [thread EXCEPT ![t].op = "prune", ![t].held = outer]
        /\ writer' = [writer EXCEPT ![frame.reg] = NoThread]
        /\ readers' = [readers EXCEPT ![Sub(t)] = @ \ {t}]
        /\ UNCHANGED <<txMu, handle>>
    BY <1>1, <1>6
  <2>2. /\ N \in Nat \ {0} /\ frame = held[N]
    BY <1>2, FrameFacts, SMTT(30)
  <2>3. /\ outer \in Seq(PathFrames) /\ Len(outer) = N - 1
        /\ \A k \in 1 .. N - 1 : outer[k] = held[k]
    BY <1>2, <2>2, SeqFront
  <2>4. thread[t] \in ThreadRecords /\ ThreadInv(t) /\ thread \in [Threads -> ThreadRecords] /\ LockTypes
    BY DEF Inv, Types
  <2>5. /\ thread'[t] \in ThreadRecords
        /\ thread'[t].op = "prune" /\ thread'[t].at = thread[t].at /\ thread'[t].held = outer
        /\ thread'[t].rest = thread[t].rest
        /\ thread'[t].base = thread[t].base /\ thread'[t].path = thread[t].path
        /\ thread' = [thread EXCEPT ![t] = thread'[t]]
    BY <2>1, <2>3, <2>4, Zenon DEF ThreadRecords, Ops, Pruning
  <2>6. PathInv(t)
    BY <1>1, <2>4 DEF ThreadInv, Pruning
  <2>7. ASSUME NEW k \in 1 .. N - 1
        PROVE  /\ held[k].reg \in Registries /\ held[k].reg <= registries
               /\ held[k].reg # frame.reg /\ writer'[held[k].reg] = t
               /\ entries'[held[k].reg][held[k].name].kind = "registry"
    <3>1. k \in 1 .. N /\ k < N /\ N \in 1 .. N
      BY <2>2
    <3>2. held[k] \in PathFrames
      BY <1>2, <3>1, SeqElement
    <3>3. held[k].reg \in Registries
      BY <3>2 DEF PathFrames
    <3>4. /\ held[k].reg < held[N].reg /\ held[k].reg <= registries /\ writer[held[k].reg] = t
          /\ entries[held[k].reg][held[k].name].kind = "registry"
      BY <2>6, <3>1, Zenon DEF PathInv, Increases
    <3>5. held[k].reg # frame.reg
      <4>1. held[k].reg \in Nat /\ frame.reg \in Nat
        BY <1>3, <3>3, Arithmetic, ZenonT(30)
      <4>2. QED
        BY <2>2, <3>4, <4>1, Orders, Zenon
    <3>6. writer'[held[k].reg] = t
      BY <2>1, <2>4, <3>3, <3>4, <3>5 DEF LockTypes
    <3>7. QED
      BY <1>4, <3>3, <3>4, <3>5, <3>6, Zenon
  <2>8. Increases(outer)
    <3> SUFFICES ASSUME NEW j \in 1 .. N - 1, NEW k \in 1 .. N - 1, j < k
                 PROVE  outer[j].reg < outer[k].reg
      BY <2>3 DEF Increases
    <3>1. j \in 1 .. N /\ k \in 1 .. N
      BY <2>2
    <3>2. QED
      BY <2>3, <2>6, <3>1, Zenon DEF PathInv, Increases
  <2>9. PathInv(t)'
    <3>1. \A k \in 1 .. Len(outer) :
            /\ outer[k].reg <= registries'
            /\ writer'[outer[k].reg] = t
            /\ entries'[outer[k].reg][outer[k].name].kind = "registry"
      BY <1>1, <2>3, <2>7, Zenon
    <3>2. QED
      BY <1>6, <2>3, <2>5, <2>8, <3>1, Zenon DEF PathInv, Climbing
  <2>10. /\ LockTypes'
         /\ \A u \in Threads \ {t}, q \in Registries :
              /\ writer'[q] = u <=> writer[q] = u
              /\ u \in readers'[q] <=> u \in readers[q]
    BY <1>2, <1>3, <2>1, <2>4, ConstantsAssumption DEF LockTypes
  <2>11. OwnLocks(t)'
    <3> SUFFICES ASSUME NEW q \in Registries
                 PROVE  /\ writer'[q] = t => \E k \in 1 .. N - 1 : outer[k].reg = q
                        /\ t \notin readers'[q]
                        /\ txMu'[q] # t
      BY <2>3, <2>5 DEF OwnLocks, Pruning
    <3>1. OwnLocks(t)
      BY <2>4 DEF ThreadInv
    <3>2. t \notin readers'[q]
      BY <1>1, <1>2, <2>1, <2>4, <3>1, SMTT(30) DEF OwnLocks, LockTypes
    <3>3. txMu'[q] # t
      BY <1>1, <2>1, <3>1, SMTT(30) DEF OwnLocks
    <3>4. ASSUME writer'[q] = t PROVE \E k \in 1 .. N - 1 : outer[k].reg = q
      <4>1. writer[q] = t /\ q # frame.reg
        BY <1>3, <2>1, <2>4, <3>4, ConstantsAssumption, Zenon DEF LockTypes
      <4>2. PICK k \in 1 .. N : held[k].reg = q
        BY <3>1, <4>1 DEF OwnLocks
      <4>3. k \in 1 .. N - 1
        BY <2>2, <4>1, <4>2, LastPosition, Zenon
      <4>4. QED
        BY <2>3, <4>2, <4>3
    <3>5. QED
      BY <3>2, <3>3, <3>4, ZenonT(30)
  <2>12. ThreadInv(t)'
    BY <1>1, <2>4, <2>5, <2>9, <2>11 DEF ThreadInv, Others, Waiting
  <2>13. QED
    <3>1. \A u \in Threads \ {t}, q \in Registries : writer[q] = u => entries'[q] = entries[q]
      BY <1>2, <1>3, <1>4
    <3>2. UNCHANGED <<program, registries, handle>> /\ UNCHANGED txMu
      BY <1>1, <2>1
    <3>3. QED
      BY <1>4, <2>5, <2>10, <2>12, <3>1, <3>2, GoesOn, ZenonT(30)
<1>7. QED
  BY <1>5, <1>6

-----------------------------------------------------------------------------
(* doVisit.                                                                *)

\* A visit that goes on: its frames stay in the order of creation, and it holds
\* read locks of their registries only.
LEMMA VisitKeeps ==
  ASSUME Inv, NEW t \in Threads, thread[t].op = "Visit",
         UNCHANGED <<treeVars, writer, txMu, handle>>,
         NEW new \in Seq(VisitFrames), Increases(new),
         \A k \in 1 .. Len(new) : new[k].reg <= registries,
         thread' = [thread EXCEPT ![t].held = new],
         readers' \in [Registries -> SUBSET Threads],
         \A u \in Threads \ {t}, q \in Registries : u \in readers'[q] <=> u \in readers[q],
         \A q \in Registries : t \in readers'[q] => \E k \in 1 .. Len(new) : new[k].reg = q
  PROVE  Inv'
<1>1. thread[t] \in ThreadRecords /\ ThreadInv(t) /\ thread \in [Threads -> ThreadRecords] /\ LockTypes
  BY DEF Inv, Types
<1>2. /\ thread'[t] \in ThreadRecords
      /\ thread'[t].op = "Visit" /\ thread'[t].at = thread[t].at /\ thread'[t].held = new
      /\ thread'[t].rest = thread[t].rest
      /\ thread'[t].base = thread[t].base /\ thread'[t].path = thread[t].path
      /\ thread' = [thread EXCEPT ![t] = thread'[t]]
  BY <1>1, Zenon DEF ThreadRecords
<1>3. TreeInv' /\ entries' = entries /\ UNCHANGED <<program, registries, handle>>
  BY SameTree
<1>4. UNCHANGED <<writer, txMu>> /\ LockTypes'
  BY <1>1 DEF LockTypes
<1>5. VisitInv(t)'
  BY <1>2, <1>3 DEF VisitInv
<1>6. OwnLocks(t)'
  <2>1. \A q \in Registries : writer'[q] # t /\ txMu'[q] # t
    BY <1>1, <1>4 DEF ThreadInv, OwnLocks, Climbing, Pruning
  <2>2. QED
    BY <1>2, <2>1 DEF OwnLocks
<1>7. ThreadInv(t)'
  BY <1>1, <1>2, <1>3, <1>5, <1>6 DEF ThreadInv, Climbing, Pruning, Others, Waiting
<1>8. QED
  BY <1>2, <1>3, <1>4, <1>7, GoesOn, Zenon

LEMMA VisitBaseKeeps ==
  ASSUME Inv, NEW t \in Threads, VisitBase(t)
  PROVE  Inv'
<1> DEFINE frame == [reg |-> thread[t].base, left |-> Used(thread[t].base)]
<1>1. /\ thread[t].op = "Visit" /\ thread[t].held = << >>
      /\ readers' = [readers EXCEPT ![thread[t].base] = @ \union {t}]
      /\ thread' = [thread EXCEPT ![t].held = <<frame>>]
      /\ UNCHANGED <<treeVars, writer, txMu, handle>>
  BY DEF VisitBase, callVars
<1>2. thread[t].base \in Registries /\ thread[t].base <= registries
  BY <1>1, EntryFacts, Zenon
<1>3. /\ <<frame>> \in Seq(VisitFrames) /\ Len(<<frame>>) = 1
      /\ <<frame>>[1].reg = thread[t].base
  <2>1. Used(thread[t].base) \in SUBSET Names
    BY Zenon DEF Used
  <2>2. QED
    BY <1>2, <2>1, FirstVisitFrame, Zenon
<1>4. Increases(<<frame>>) /\ \A k \in 1 .. Len(<<frame>>) : <<frame>>[k].reg <= registries
  BY <1>2, <1>3, OnlyPosition, Zenon DEF Increases
<1>5. readers \in [Registries -> SUBSET Threads]
  BY DEF Inv, LockTypes
<1>6. /\ readers' \in [Registries -> SUBSET Threads]
      /\ \A u \in Threads \ {t}, q \in Registries : u \in readers'[q] <=> u \in readers[q]
      /\ \A q \in Registries : t \in readers'[q] => t \in readers[q] \/ q = thread[t].base
  BY <1>1, <1>2, <1>5
<1>7. \A q \in Registries : t \notin readers[q]
  <2> SUFFICES ASSUME NEW q \in Registries PROVE t \notin readers[q]
    OBVIOUS
  <2>1. OwnLocks(t) /\ ~ \E k \in 1 .. Len(thread[t].held) : thread[t].held[k].reg = q
    BY <1>1, NoFrames, Zenon DEF Inv, ThreadInv
  <2>2. thread[t].op \notin {"delete", "keep"}
    BY <1>1
  <2>3. QED
    BY <2>1, <2>2, Zenon DEF OwnLocks
<1>8. \A q \in Registries : t \in readers'[q] => \E k \in 1 .. Len(<<frame>>) : <<frame>>[k].reg = q
  BY <1>3, <1>6, <1>7, OnlyPosition, ZenonT(30)
<1>9. QED
  BY <1>1, <1>3, <1>4, <1>6, <1>8, VisitKeeps, Zenon

\* What a visit with frames looks at.
LEMMA VisitFacts ==
  ASSUME Inv, NEW t \in Threads, thread[t].op = "Visit", thread[t].held # << >>
  PROVE  /\ thread[t].held \in Seq(VisitFrames) /\ Len(thread[t].held) \in Nat \ {0}
         /\ Frame(t) = thread[t].held[Len(thread[t].held)] /\ Frame(t) \in VisitFrames
         /\ Increases(thread[t].held)
         /\ \A k \in 1 .. Len(thread[t].held) :
              /\ thread[t].held[k] \in VisitFrames
              /\ thread[t].held[k].reg \in Registries /\ thread[t].held[k].reg <= registries
         /\ \A q \in Registries :
              t \in readers[q] => \E k \in 1 .. Len(thread[t].held) : thread[t].held[k].reg = q
<1> DEFINE held == thread[t].held
<1>1. ThreadInv(t)
  BY SMTT(30) DEF Inv
<1>2. VisitInv(t) /\ held \in Seq(VisitFrames)
  BY <1>1 DEF ThreadInv, VisitInv
<1>3. Len(held) \in Nat \ {0} /\ Frame(t) = held[Len(held)] /\ Frame(t) \in VisitFrames
  BY <1>2, FrameFacts
<1>4. \A k \in 1 .. Len(held) : held[k] \in VisitFrames
  BY <1>2, SeqElement
<1>5. \A k \in 1 .. Len(held) : held[k].reg \in Registries /\ held[k].reg <= registries
  BY <1>2, <1>4, Zenon DEF VisitInv, VisitFrames
<1>6. \A q \in Registries : t \in readers[q] => \E k \in 1 .. Len(held) : held[k].reg = q
  BY <1>1, Zenon DEF ThreadInv, OwnLocks
<1>7. QED
  BY <1>2, <1>3, <1>4, <1>5, <1>6 DEF VisitInv

\* A frame with fewer entries left is a frame of the same registry.
LEMMA FewerLeft ==
  ASSUME Inv, NEW t \in Threads, thread[t].op = "Visit", thread[t].held # << >>, NEW n
  PROVE  LET held == thread[t].held
             new == [held EXCEPT ![Len(held)].left = @ \ {n}]
         IN  /\ new \in Seq(VisitFrames) /\ Len(new) = Len(held)
             /\ \A k \in 1 .. Len(held) : new[k].reg = held[k].reg
             /\ Increases(new)
<1> DEFINE held == thread[t].held
           N == Len(held)
           e == [held[N] EXCEPT !.left = @ \ {n}]
           new == [held EXCEPT ![N] = e]
<1>1. /\ held \in Seq(VisitFrames) /\ N \in Nat \ {0} /\ N \in 1 .. N /\ Increases(held)
      /\ held[N] \in VisitFrames
  BY VisitFacts
<1>2. e \in VisitFrames /\ e.reg = held[N].reg
  BY <1>1, SMTT(30) DEF VisitFrames
<1>3. /\ new \in Seq(VisitFrames) /\ Len(new) = N /\ new[N] = e
      /\ \A k \in 1 .. N : k # N => new[k] = held[k]
  <2> HIDE DEF e
  <2>1. QED
    BY <1>1, <1>2, SeqExcept, SMTT(30)
<1>4. \A k \in 1 .. N : new[k].reg = held[k].reg
  <2> HIDE DEF e, new
  <2>1. QED
    BY <1>2, <1>3
<1>5. Increases(new)
  <2> HIDE DEF new
  <2>1. QED
    BY <1>1, <1>3, <1>4 DEF Increases
<1>6. QED
  BY <1>3, <1>4, <1>5, SMTT(30)

LEMMA VisitVariableKeeps ==
  ASSUME Inv, NEW t \in Threads, VisitVariable(t)
  PROVE  Inv'
<1> DEFINE held == thread[t].held
           new(n) == [held EXCEPT ![Len(held)].left = @ \ {n}]
<1>1. /\ thread[t].op = "Visit" /\ held # << >>
      /\ UNCHANGED <<treeVars, lockVars, handle>>
  BY DEF VisitVariable, callVars
<1>2. PICK n \in Frame(t).left : thread' = [thread EXCEPT ![t].held[Len(held)].left = @ \ {n}]
  BY Zenon DEF VisitVariable
<1>3. thread' = [thread EXCEPT ![t].held = new(n)]
  BY <1>2
<1>4. /\ new(n) \in Seq(VisitFrames) /\ Len(new(n)) = Len(held)
      /\ \A k \in 1 .. Len(held) : new(n)[k].reg = held[k].reg
      /\ Increases(new(n))
  BY <1>1, FewerLeft, Zenon
<1>5. /\ \A k \in 1 .. Len(held) : held[k].reg <= registries
      /\ \A q \in Registries : t \in readers[q] => \E k \in 1 .. Len(held) : held[k].reg = q
  BY <1>1, VisitFacts, Zenon
<1>6. readers \in [Registries -> SUBSET Threads] /\ UNCHANGED <<writer, readers, txMu, handle, treeVars>>
  BY <1>1 DEF Inv, LockTypes, lockVars
<1> HIDE DEF new
<1>7. \A k \in 1 .. Len(new(n)) : new(n)[k].reg <= registries
  BY <1>4, <1>5, Zenon
<1>8. \A q \in Registries : t \in readers'[q] => \E k \in 1 .. Len(new(n)) : new(n)[k].reg = q
  BY <1>4, <1>5, <1>6, Zenon
<1>9. QED
  BY <1>1, <1>3, <1>4, <1>6, <1>7, <1>8, VisitKeeps, Zenon

LEMMA VisitRegistryKeeps ==
  ASSUME Inv, NEW t \in Threads, VisitRegistry(t)
  PROVE  Inv'
<1> DEFINE held == thread[t].held
           N == Len(held)
           f == Frame(t)
           e(n) == entries[f.reg][n]
           frame(n) == [reg |-> e(n).id, left |-> Used(e(n).id)]
           shorter(n) == [held EXCEPT ![N].left = @ \ {n}]
           new(n) == Append(shorter(n), frame(n))
<1>1. /\ thread[t].op = "Visit" /\ held # << >>
      /\ UNCHANGED <<treeVars, writer, txMu, handle>>
  BY DEF VisitRegistry, callVars
<1>2. PICK n \in f.left :
        /\ e(n).kind = "registry"
        /\ readers' = [readers EXCEPT ![e(n).id] = @ \union {t}]
        /\ thread' = [thread EXCEPT ![t].held = new(n)]
  BY Zenon DEF VisitRegistry
<1>3. /\ N \in Nat \ {0} /\ f = held[N] /\ f \in VisitFrames /\ Increases(held)
      /\ \A k \in 1 .. N : held[k].reg \in Registries /\ held[k].reg <= registries
      /\ \A q \in Registries : t \in readers[q] => \E k \in 1 .. N : held[k].reg = q
  BY <1>1, VisitFacts, Zenon
<1>4. f.reg \in Registries /\ n \in Names
  BY <1>2, <1>3, ZenonT(30) DEF VisitFrames
<1>5. e(n).id \in Registries /\ f.reg < e(n).id /\ e(n).id <= registries
  <2>1. TreeOK(entries, registries, variables)
    BY TreeInvForm DEF Inv
  <2>2. EntryOK(f.reg, e(n), registries, variables) /\ registries \in Registries
    BY <1>4, <2>1, ZenonT(30) DEF TreeOK
  <2>3. QED
    BY <1>2, <1>4, <2>2, ConstantsAssumption, SMTT(30) DEF EntryOK, Items, Registries
<1>6. frame(n) \in VisitFrames /\ frame(n).reg = e(n).id
  BY <1>5 DEF VisitFrames, Used
<1>7. /\ shorter(n) \in Seq(VisitFrames) /\ Len(shorter(n)) = N
      /\ \A k \in 1 .. N : shorter(n)[k].reg = held[k].reg
  BY <1>1, FewerLeft, ZenonT(30)
<1> HIDE DEF shorter, frame, e
<1>8. /\ new(n) \in Seq(VisitFrames) /\ Len(new(n)) = N + 1
      /\ new(n)[N + 1].reg = e(n).id
      /\ \A k \in 1 .. N : new(n)[k].reg = held[k].reg
  BY <1>6, <1>7, SeqAppend, SMTT(30)
<1> HIDE DEF new
<1>9. \A k \in 1 .. N : held[k].reg \in Nat /\ held[k].reg < e(n).id
  <2> SUFFICES ASSUME NEW k \in 1 .. N PROVE held[k].reg \in Nat /\ held[k].reg < e(n).id
    OBVIOUS
  <2>1. held[k].reg \in Nat /\ held[N].reg \in Nat /\ e(n).id \in Nat
    <3>1. N \in 1 .. N
      BY <1>3, LastPosition, ZenonT(30)
    <3>2. QED
      BY <1>3, <1>5, <3>1, Arithmetic, Zenon
  <2>2. k < N => held[k].reg < held[N].reg
    BY <1>3 DEF Increases
  <2>3. k = N \/ k < N
    BY <1>3, LastPosition, Zenon
  <2>4. QED
    BY <1>3, <1>5, <2>1, <2>2, <2>3, Transitive, Zenon
<1>10. Increases(new(n))
  <2> SUFFICES ASSUME NEW j \in 1 .. N + 1, NEW k \in 1 .. N + 1, j < k
               PROVE  new(n)[j].reg < new(n)[k].reg
    BY <1>8, Zenon DEF Increases
  <2>1. j \in 1 .. N /\ (k \in 1 .. N \/ k = N + 1)
    BY <1>3, EarlierPosition, NextPosition, Zenon
  <2>2. CASE k \in 1 .. N
    BY <1>3, <1>8, <2>1, <2>2, ZenonT(30) DEF Increases
  <2>3. CASE k = N + 1
    BY <1>8, <1>9, <2>1, <2>3
  <2>4. QED
    BY <2>1, <2>2, <2>3
<1>11. \A k \in 1 .. Len(new(n)) : new(n)[k].reg <= registries
  <2> SUFFICES ASSUME NEW k \in 1 .. N + 1 PROVE new(n)[k].reg <= registries
    BY <1>8, Zenon
  <2>1. k \in 1 .. N \/ k = N + 1
    BY <1>3, NextPosition, Zenon
  <2>2. QED
    BY <1>3, <1>5, <1>8, <2>1, Zenon
<1>12. readers \in [Registries -> SUBSET Threads]
  BY DEF Inv, LockTypes
<1>13. /\ readers' \in [Registries -> SUBSET Threads]
       /\ \A u \in Threads \ {t}, q \in Registries : u \in readers'[q] <=> u \in readers[q]
       /\ \A q \in Registries : t \in readers'[q] => t \in readers[q] \/ q = e(n).id
  BY <1>2, <1>5, <1>12
<1>14. ASSUME NEW q \in Registries, t \in readers'[q]
       PROVE  \E k \in 1 .. Len(new(n)) : new(n)[k].reg = q
  <2>1. N + 1 \in 1 .. N + 1 /\ 1 .. N \subseteq 1 .. N + 1
    BY <1>3, NextPosition, Zenon
  <2>2. QED
    BY <1>3, <1>8, <1>13, <1>14, <2>1, Zenon
<1>15. QED
  BY <1>1, <1>2, <1>8, <1>10, <1>11, <1>13, <1>14, VisitKeeps, ZenonT(30)

LEMMA VisitLeaveKeeps ==
  ASSUME Inv, NEW t \in Threads, VisitLeave(t)
  PROVE  Inv'
<1> DEFINE held == thread[t].held
           N == Len(held)
           f == Frame(t)
           outer == SubSeq(held, 1, N - 1)
<1>1. /\ thread[t].op = "Visit" /\ held # << >> /\ UNCHANGED treeVars
      /\ IF N = 1
         THEN Return(t, None)
         ELSE /\ readers' = [readers EXCEPT ![f.reg] = @ \ {t}]
              /\ thread' = [thread EXCEPT ![t].held = outer]
              /\ UNCHANGED <<writer, txMu, handle>>
  BY DEF VisitLeave
<1>2. CASE N = 1
  BY <1>1, <1>2, PlainReturn DEF None
<1>3. CASE N # 1
  <2>1. /\ readers' = [readers EXCEPT ![f.reg] = @ \ {t}]
        /\ thread' = [thread EXCEPT ![t].held = outer]
        /\ UNCHANGED <<treeVars, writer, txMu, handle>>
    BY <1>1, <1>3
  <2>2. /\ held \in Seq(VisitFrames) /\ N \in Nat \ {0} /\ f = held[N]
        /\ Increases(held)
        /\ \A k \in 1 .. N : held[k].reg \in Registries /\ held[k].reg <= registries
        /\ \A q \in Registries : t \in readers[q] => \E k \in 1 .. N : held[k].reg = q
    BY <1>1, VisitFacts, SMTT(30)
  <2>3. /\ outer \in Seq(VisitFrames) /\ Len(outer) = N - 1
        /\ \A k \in 1 .. N - 1 : outer[k] = held[k]
    <3>1. Len(held) # 0
      BY <2>2, SMTT(30)
    <3>2. QED
      BY <2>2, <3>1, SeqFront, ZenonT(30)
  <2>4. f.reg \in Registries
    BY <2>2
  <2>5. readers \in [Registries -> SUBSET Threads]
    BY DEF Inv, LockTypes
  <2>6. /\ readers' \in [Registries -> SUBSET Threads]
        /\ \A u \in Threads \ {t}, q \in Registries : u \in readers'[q] <=> u \in readers[q]
        /\ \A q \in Registries : t \in readers'[q] => t \in readers[q] /\ q # f.reg
    BY <2>1, <2>4, <2>5
  <2> HIDE DEF outer
  <2>7. 1 .. N - 1 \subseteq 1 .. N
    BY <2>2, LastPosition, Zenon
  <2>8. Increases(outer) /\ \A k \in 1 .. Len(outer) : outer[k].reg <= registries
    BY <2>2, <2>3, <2>7, Zenon DEF Increases
  <2>9. ASSUME NEW q \in Registries, t \in readers'[q]
        PROVE  \E k \in 1 .. Len(outer) : outer[k].reg = q
    <3>1. PICK k \in 1 .. N : held[k].reg = q
      BY <2>2, <2>6, <2>9, Zenon
    <3>2. k # N
      BY <2>2, <2>6, <2>9, <3>1, Zenon
    <3>3. k \in 1 .. N - 1
      BY <2>2, <3>2, LastPosition, Zenon
    <3>4. QED
      BY <2>3, <3>1, <3>3, Zenon
  <2>10. QED
    BY <1>1, <2>1, <2>3, <2>6, <2>8, <2>9, VisitKeeps, Zenon
<1>4. QED
  BY <1>2, <1>3

-----------------------------------------------------------------------------

LEMMA InvStep == Inv /\ [Next]_vars => Inv'
<1> SUFFICES ASSUME Inv, [Next]_vars PROVE Inv'
  OBVIOUS
<1>1. ASSUME NEW t \in Threads, NEW op \in program.methods[t], NEW base \in {Root, handle[t]},
             NEW path \in program.paths, Call(t, op, base, path)
      PROVE  Inv'
  BY <1>1, CallKeeps, Zenon
<1>2. ASSUME NEW t \in Threads, Step(t) PROVE Inv'
  <2>1. CASE AddFree(t) \/ CreateChain(t)
    BY <2>1, InsertKeeps
  <2>2. CASE AddUsed(t) \/ SetupFound(t) \/ GetReturn(t) \/ CreateFound(t)
    BY <2>2, FoundKeeps
  <2>3. CASE AddDescend(t) \/ CreateDescend(t) \/ RemoveDescend(t)
    BY <2>3, DescendKeeps, Zenon DEF AddDescend, CreateDescend, RemoveDescend, Adding, Climbing
  <2>4. CASE NewLock(t)
    BY <2>4, NewLockKeeps
  <2>5. CASE FindDescend(t) \/ SetupMissing(t)
    BY <2>5, LookupKeeps
  <2>6. CASE RemoveLast(t) \/ RemoveMissing(t)
    BY <2>6, UnwindKeeps
  <2>7. CASE PruneLock(t)
    BY <2>7, PruneLockKeeps, Zenon
  <2>8. CASE PruneReturn(t)
    BY <2>8, PruneReturnKeeps
  <2>9. CASE Clear(t)
    BY <2>9, ClearKeeps
  <2>10. CASE VisitBase(t)
    BY <2>10, VisitBaseKeeps
  <2>11. CASE VisitVariable(t)
    BY <2>11, VisitVariableKeeps
  <2>12. CASE VisitRegistry(t)
    BY <2>12, VisitRegistryKeeps
  <2>13. CASE VisitLeave(t)
    BY <2>13, VisitLeaveKeeps
  <2>14. QED
    BY <1>2, <2>1, <2>2, <2>3, <2>4, <2>5, <2>6, <2>7, <2>8, <2>9, <2>10, <2>11, <2>12, <2>13, Zenon
       DEF Step
<1>3. CASE UNCHANGED vars
  <2>1. /\ UNCHANGED <<program, entries, registries, variables>> /\ UNCHANGED <<thread, handle>>
        /\ UNCHANGED <<writer, readers, txMu>>
    BY <1>3 DEF vars, treeVars, lockVars, callVars
  <2>2. TreeInv'
    BY <2>1, SameTree DEF treeVars
  <2>3. LockTypes' /\ Types'
    BY <2>1 DEF Inv, LockTypes, Types
  <2>4. ASSUME NEW t \in Threads PROVE ThreadInv(t)'
    <3>1. ThreadInv(t)
      BY DEF Inv
    <3>2. (PathInv(t)' <=> PathInv(t)) /\ (VisitInv(t)' <=> VisitInv(t)) /\ (OwnLocks(t)' <=> OwnLocks(t))
      BY <2>1, Zenon DEF PathInv, VisitInv, OwnLocks, Sub, Frame
    <3>3. QED
      BY <2>1, <3>1, <3>2, Zenon DEF ThreadInv
  <2>5. QED
    BY <2>2, <2>3, <2>4 DEF Inv
<1>4. QED
  BY <1>1, <1>2, <1>3 DEF Next, Ended

\* The invariant of the registries, the locks and the calls holds.
THEOREM Invariance == Spec => []Inv
<1>1. QED
  BY InvInit, InvStep, PTL DEF Spec

-----------------------------------------------------------------------------
(* The one that waits for the registry created last can go on.             *)

LOCAL INSTANCE Induction

\* The locks are taken in the order of creation, so among the locks that calls
\* wait for the last one has nobody who could keep it.
LEMMA NoCircle == Inv => SomeoneGoesOn
<1> SUFFICES ASSUME Inv, NEW b \in Threads, thread[b].op # "idle",
                    \A t \in Threads : thread[t].op # "idle" => Waits(t)
             PROVE  FALSE
  BY DEF SomeoneGoesOn
<1> DEFINE T == {r \in Registries : ~CanLock(r) /\ \E t \in Threads : r \in Needs(t)}
<1>1. ASSUME NEW t \in Threads, thread[t].op \notin {"idle", "NewInt", "NewIntDefault"}
      PROVE  \E q \in T : q \in Needs(t)
  <2>1. PICK q \in Needs(t) : ~CanLock(q)
    BY <1>1, Zenon DEF Waits
  <2>2. q \in Registries
    BY NeedsAbove
  <2>3. QED
    BY <2>1, <2>2, Zenon
<1>2. T # {}
  <2>1. CASE thread[b].op \in {"NewInt", "NewIntDefault"}
    <3>1. thread[b].base \in Registries /\ thread[b].op \in Ops
      BY Zenon DEF Inv, Types, ThreadRecords
    <3>2. Needs(b) = {}
      BY <2>1, <3>1, NeedsCases, Zenon
    <3>3. txMu[thread[b].base] # NoThread
      BY <3>2, Zenon DEF Waits
    <3>4. PICK u \in Threads : txMu[thread[b].base] = u
      BY <3>1, <3>3, SMTT(30) DEF Inv, LockTypes
    <3>5. thread[u].op \in {"setup", "insert"}
      BY <3>1, <3>4, ZenonT(30) DEF Inv, ThreadInv, OwnLocks
    <3>6. QED
      BY <1>1, <3>5
  <2>2. CASE thread[b].op \notin {"NewInt", "NewIntDefault"}
    BY <1>1, <2>2, Zenon
  <2>3. QED
    BY <2>1, <2>2, Zenon
<1>3. PICK r \in T : \A q \in T : q <= r
  <2>1. T \in SUBSET (0 .. MaxRegistries) /\ MaxRegistries \in Nat
    BY ConstantsAssumption, SMTT(30) DEF Registries
  <2> HIDE DEF T
  <2>2. QED
    BY <1>2, <2>1, MaxExists
<1>4. PICK u \in Threads : writer[r] = u \/ u \in readers[r]
  BY <1>3, SMTT(30) DEF CanLock, Inv, LockTypes
<1>5. thread[u].op \notin {"idle", "NewInt", "NewIntDefault"}
  BY <1>3, <1>4, Zenon DEF Inv, ThreadInv, OwnLocks, Climbing, Pruning
<1>6. PICK q \in T : q \in Needs(u)
  BY <1>1, <1>5, Zenon
<1>7. r < q /\ q <= r /\ r \in Nat /\ q \in Nat
  BY <1>3, <1>4, <1>6, NeedsAbove DEF Registries
<1>8. QED
  BY <1>7

\* Whatever methods goroutines call, on whatever registries and paths: no registry
\* and no variable is ever at two places or above the root, and calls never wait
\* for each other's locks in a circle (src/monitoring/registry.go:226,281,289).
THEOREM Usable == Spec => []TreeUsable
<1>1. Inv => TreeUsable
  BY NoCircle DEF TreeUsable, Inv, TreeInv
<1>2. QED
  BY <1>1, Invariance, PTL
=============================================================================
