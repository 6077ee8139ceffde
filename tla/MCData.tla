------------------------------- MODULE MCData -------------------------------
(***************************************************************************)
(* Instances of the parts that keep and transform data: the file keystore, *)
(* versions, maps, dissect, string matchers, the configuration loader and  *)
(* configurations.  The parts do not meet here: a behaviour is one of      *)
(* "part", and the others stay in an initial state.                        *)
(***************************************************************************)
EXTENDS Data, TLC
LOCAL INSTANCE SequencesExt

VARIABLES
  part,
  heap, backing, event, clone, op, ops,
  parser, message, scanning, scanned, offset, positions, dissected,
  pattern, exact, regex, rounds, matcher,
  files, read, merged, inputsList, loaded, fromKeys, given, skipKeys, skipped, cfgKeys, from

-----------------------------------------------------------------------------
(* Versions: two values for each number, and what New rejects.  Namespaces *)
(* of up to three fields.                                                  *)
MCTexts ==
  [numbers  : [1 .. 3 -> {0, 1}] \union {<<1>>, <<1, 1>>, <<1, 1, 1, 1>>,
                                         <<1, NotANumber, 0>>, <<0, 1, NotANumber>>},
   suffixes : {<< >>, <<0>>, <<1>>, <<2>>, <<1, 2>>}]

MCSections == UNION {[S -> {"value", "disabled", "enabled"}] : S \in SUBSET {"x", "y", "z"}}

-----------------------------------------------------------------------------
(* Maps: keys that differ in case, dotted keys, maps at three levels, a    *)
(* value where a path needs a map, and an array two maps share.            *)
Leaf(x) == [leaf |-> x]
Nested(r) == [map |-> r]
Array == [arr |-> 1, len |-> 1, any |-> TRUE]
MCHeaps ==
  {<<(<<"a">> :> Leaf("v1")) @@ (<<"A">> :> Leaf("v2")), <<"a">> :> Nested(3), <<"b">> :> Leaf("v3")>>,
   <<(<<"a">> :> Nested(3)) @@ (<<"a", "b">> :> Leaf("v4")) @@ (<<"hosts">> :> Array),
     (<<"a">> :> Nested(4)) @@ (<<"b">> :> Leaf("v5")),
     (<<"B">> :> Leaf("v1")) @@ (<<"value">> :> Array),
     (<<"b">> :> Leaf("v6")) @@ (<<"c">> :> Leaf("v7"))>>,
   <<<<"A">> :> Nested(3), <<"a">> :> Leaf("v8"), <<"b">> :> Leaf("v1")>>}

Map == INSTANCE MapStr WITH
  arrays <- backing,
  InitialHeaps <- MCHeaps, InitialArrays <- << <<"x">> >>,
  Paths <- {<<"a">>, <<"a", "b">>, <<"a", "value">>, <<"a", "b", "c">>},
  Masked <- {<<"hosts">>}, LowerOf <- [A |-> "a", B |-> "b"], MaxOps <- 3

-----------------------------------------------------------------------------
(* Dissect: tokenizers of two and three fields of every kind, and all      *)
(* short messages.                                                         *)
Raw(before, prefix, key) ==
  [before |-> before, prefix |-> prefix, key |-> <<key>>, ordinal |-> 0, length |-> 0,
   greedy |-> FALSE, type |-> ""]
Dash == <<"-">>
FirstFields ==
  {Raw(<< >>, p, "k") : p \in {"", "?", "*"}}
  \cup {[Raw(Dash, "", "k") EXCEPT !.type = "integer"], [Raw(<< >>, "", "k") EXCEPT !.greedy = TRUE],
        [Raw(<< >>, "+", "k") EXCEPT !.ordinal = 1], [Raw(<< >>, "", "k") EXCEPT !.length = 2]}
NextFields ==
  {Raw(d, p, "k") : d \in {Dash, <<"-", "-">>}, p \in {"", "+", "&"}}
  \cup {[Raw(Dash, "", "l") EXCEPT !.greedy = TRUE], Raw(<< >>, "", "l"), Raw(Dash, "skip", ""),
        [Raw(Dash, "", "l") EXCEPT !.length = 1], Raw(Dash, "+&", "l"),
        [Raw(Dash, "", "l") EXCEPT !.type = "|"]}
MCTokenizers ==
  {[fields |-> <<a, b>>, after |-> c] : a \in FirstFields, b \in NextFields, c \in {<< >>, Dash}}
  \cup {[fields |-> <<a, b, c>>, after |-> << >>] :
          a \in FirstFields, b \in NextFields, c \in {Raw(Dash, "&", "k"), Raw(Dash, "+", "k")}}
MCMessages == SeqOf({"k", "-"}, 4) \cup SeqOf({"k", "-", "1"}, 3)

Dis == INSTANCE Dissect WITH
  s <- message, pc <- scanning, i <- scanned, result <- dissected,
  Tokenizers <- MCTokenizers, Messages <- MCMessages

-----------------------------------------------------------------------------
(* String matchers: all expressions of up to three of these atoms, the     *)
(* expressions compile has a matcher of its own for, and short strings.    *)
Tree == INSTANCE Match WITH Patterns <- {}, Strings <- {}, MaxRounds <- 0

LitA == Tree!Lit(<<"a">>)
Capture(r) == Tree!Node("capture", << >>, <<r>>, 0, FALSE)
Alternate(x, y) == Tree!Node("alternate", << >>, <<x, y>>, 0, FALSE)
Digit == Tree!Atom("digit")
Atoms ==
  {LitA, Tree!Node("ilit", <<"a">>, << >>, 0, FALSE), Tree!BeginText, Tree!EndText, Tree!DotStar, Digit,
   Tree!Repeat(Digit, 2), Capture(LitA), Alternate(LitA, Tree!Lit(<<"1", "a">>)), Tree!Star(LitA)}
\* The parser of regexp/syntax joins literals that follow one another.
Parsed(q) == q # << >> /\ \A k \in 1 .. (Len(q) - 1) : ~(q[k] = LitA /\ q[k + 1] = LitA)
MCPatterns ==
  {IF Len(q) = 1 THEN q[1] ELSE Tree!Concat(q) : q \in {x \in SeqOf(Atoms, 3) : Parsed(x)}}
  \cup {Tree!Concat(<<Digit, Digit, Digit, Digit>>),
        Tree!Concat(<<Tree!BeginText, LitA, Tree!Repeat(Digit, 2), LitA>>),
        Tree!Concat(<<Tree!BeginText, Digit, Digit, Digit, LitA>>),
        Tree!Repeat(Capture(Tree!Concat(<<Digit, Digit>>)), 2),
        Tree!Concat(<<Tree!BeginText, Tree!Star(Tree!Atom("space")), Tree!EndText>>),
        Tree!Concat(<<Tree!DotStar, Capture(Tree!Concat(<<LitA, Tree!DotStar>>)), Tree!EndText>>),
        Tree!Repeat(Capture(Tree!Concat(<<Capture(LitA), Tree!DotStar>>)), 2)}
MCStrings ==
  SeqOf({"a", "1", "\n"}, 2)
  \cup {<<"A">>, <<" ">>, <<"a", "\n", "a">>, <<"1", "1", "a">>, <<"a", "1", "1">>, <<"1", "1", "1">>,
        <<"1", "1", "1", "1">>, <<"a", "1", "1", "a">>, <<"1", "1", "1", "a">>}

Mat == INSTANCE Match WITH Patterns <- MCPatterns, Strings <- MCStrings, MaxRounds <- 8

-----------------------------------------------------------------------------
(* The loader: patterns that match several files, the same file, nothing,  *)
(* and files every step of Load fails on.                                  *)
File(u, l, p, m, in) == [under |-> u, loads |-> l, parses |-> p, merges |-> m, inputs |-> in]

Ldr == INSTANCE Loader WITH
  data <- fromKeys,
  Globs <- [a |-> <<"f1", "f2">>, b |-> <<"u1", "u2">>, c |-> <<"f2">>, d |-> <<"u1", "f1">>,
            e |-> <<"badload">>, g |-> <<"badparse">>, h |-> <<"badmerge">>, z |-> << >>],
  PatternLists <- UNION {[1 .. n -> {"", "a", "b", "c", "d", "e", "g", "h", "z", "["}] : n \in 0 .. 3},
  FileOf <- [f1 |-> File(FALSE, TRUE, TRUE, TRUE, <<"i1">>), f2 |-> File(FALSE, TRUE, TRUE, TRUE, <<"i2", "i3">>),
             u1 |-> File(TRUE, TRUE, TRUE, TRUE, <<"x1", "x2">>), u2 |-> File(TRUE, TRUE, TRUE, TRUE, << >>),
             badload |-> File(FALSE, FALSE, TRUE, TRUE, << >>), badparse |-> File(TRUE, TRUE, FALSE, TRUE, << >>),
             badmerge |-> File(FALSE, TRUE, TRUE, FALSE, << >>)],
  Keys <- {"inputs", "agent"}

-----------------------------------------------------------------------------
mapVars == <<heap, backing, event, clone, op, ops>>
dissectVars == <<parser, message, scanning, scanned, offset, positions, dissected>>
matchVars == <<pattern, exact, regex, rounds, matcher>>
loaderVars == <<files, read, merged, inputsList, loaded, fromKeys, given, skipKeys, skipped, cfgKeys, from>>

(* The choices Init leaves open are fixed for the parts that do not run.   *)
DataInit ==
  /\ part \in {"keystore", "version", "map", "dissect", "match", "loader", "config"}
  /\ Init
  /\ Ver!Init
  /\ part # "map" => heap = CHOOSE h \in MCHeaps : TRUE
  /\ Map!Init
  /\ part # "loader" => from = "idle"
  /\ Ldr!Init
  /\ part # "config" => subject = "flag"
  /\ Conf!Init
  /\ part # "dissect" => parser = Dis!newParser(CHOOSE t \in MCTokenizers : TRUE) /\ message = << >>
  /\ Dis!Init
  /\ IF part = "match" THEN Mat!Init
     ELSE pattern = LitA /\ exact = FALSE /\ regex = LitA /\ rounds = 0 /\ matcher = Mat!None

DataNext ==
  \/ /\ part = "keystore" /\ Next
     /\ UNCHANGED <<part, versionVars, mapVars, dissectVars, matchVars, loaderVars, configVars>>
  \/ /\ part = "version" /\ Ver!Next
     /\ UNCHANGED <<part, vars, mapVars, dissectVars, matchVars, loaderVars, configVars>>
  \/ /\ part = "map" /\ Map!Next
     /\ UNCHANGED <<part, vars, versionVars, dissectVars, matchVars, loaderVars, configVars>>
  \/ /\ part = "dissect" /\ Dis!Next
     /\ UNCHANGED <<part, vars, versionVars, mapVars, matchVars, loaderVars, configVars>>
  \/ /\ part = "match" /\ Mat!Next
     /\ UNCHANGED <<part, vars, versionVars, mapVars, dissectVars, loaderVars, configVars>>
  \/ /\ part = "loader" /\ Ldr!Next
     /\ UNCHANGED <<part, vars, versionVars, mapVars, dissectVars, matchVars, configVars>>
  \/ /\ part = "config" /\ Conf!Next
     /\ UNCHANGED <<part, vars, versionVars, mapVars, dissectVars, matchVars, loaderVars>>

DataSpec ==
  DataInit /\ [][DataNext]_<<part, vars, versionVars, mapVars, dissectVars, matchVars, loaderVars, configVars>>

(* Every operation on a map changes exactly the keys it is asked to and    *)
(* answers what the map holds (src/mapstr/mapstr.go).                      *)
StepsExact == Map!StepsExact

(* Nothing done to a map reaches the copy Clone made of it, nor back       *)
(* (src/mapstr/mapstr.go, cloneMap).                                       *)
CloneIsolated == Map!CloneIsolated

(* Logging or printing a map leaves it as it was: TestFormat expects the   *)
(* unmasked password after the map was printed masked                      *)
(* (src/mapstr/mapstr.go, MarshalLogObject and Format).                    *)
PrintingChangesNothing == Map!PrintingChangesNothing

(* Dissect finds the fields a reading of the tokenizer from left to right  *)
(* finds, and DissectConvert the same ones                                 *)
(* (src/processors/dissect/dissect.go, extract, resolve, resolveConvert).  *)
FieldsExact == Dis!DissectExact /\ Dis!ConvertAgrees

(* Rewritten and specialised, a matcher accepts the strings its expression *)
(* accepts (src/match/optimize.go, compile.go).                            *)
MatchExact == Mat!MatchExact

(* The loader returns the merged files with every input of the inputs      *)
(* folder once per file, or an error, and NewConfigFrom gives the caller's *)
(* map back with the keys it skipped (src/loader/loader.go and config.go). *)
LoadedExact == Ldr!LoadExact /\ Ldr!MapGivenBack
=============================================================================
