------------------------------- MODULE Match --------------------------------
(***************************************************************************)
(* The string matchers (src/match): a regular expression is rewritten to a *)
(* fix-point (optimize.go) and compiled to a matcher that avoids the       *)
(* regular-expression engine where it can (compile.go, cmp.go,             *)
(* matchers.go).                                                           *)
(*                                                                         *)
(* An expression is the parse tree of regexp/syntax, a record with the     *)
(* operator, the characters of a literal, the sub-expressions and the      *)
(* count of a repetition.  "rep" says that the sub-expressions of a        *)
(* concatenation are one and the same object: isConcatRepetition compares  *)
(* pointers.  A literal that ignores case ("ilit") is an irregular one.    *)
(* Parsing, Simplify and the engine belong to the standard library.        *)
(***************************************************************************)
EXTENDS Integers, Sequences, FiniteSets
LOCAL INSTANCE SequencesExt

CONSTANTS
  Patterns,   \* the expressions, as the parser returns them
  Strings,    \* the strings to match
  MaxRounds   \* bound on the rounds of optimize

VARIABLES
  pattern,  \* the expression as parsed
  exact,    \* CompileExact rather than Compile
  regex,    \* the expression as rewritten so far
  rounds,   \* number of rounds of optimize so far
  matcher   \* the compiled matcher

vars == <<pattern, exact, regex, rounds, matcher>>

Node(op, text, sub, n, rep) ==
  [op |-> op, text |-> text, sub |-> sub, n |-> n, rep |-> rep]
Atom(op) == Node(op, <<>>, <<>>, 0, FALSE)
Lit(text) == Node("lit", text, <<>>, 0, FALSE)
Concat(sub) == Node("concat", <<>>, sub, 0, Len(sub) = 1)
Same(r, n) == Node("concat", <<>>, [k \in 1 .. n |-> r], 0, TRUE)
Repeat(r, n) == Node("repeat", <<>>, <<r>>, n, FALSE)
Star(r) == Node("star", <<>>, <<r>>, 0, FALSE)

BeginText == Atom("begin")
EndText == Atom("end")
DotStar == Star(Atom("notnl"))

Spaces == {" ", "\n"}
Digits == {"0", "1"}
SameLetter(c, d) == c = d \/ {c, d} = {"a", "A"}

-----------------------------------------------------------------------------
(* What the engine of the standard library matches: where a match of r     *)
(* that starts at position p of s can end.                                 *)

OneChar(op, c) ==
  CASE op = "notnl" -> c # "\n" [] op = "digit" -> c \in Digits [] op = "space" -> c \in Spaces

RECURSIVE Ends(_, _, _)
Ends(r, s, p) ==
  LET through(places, q) == UNION {Ends(q, s, x) : x \in places}
      text(same(_, _)) ==
        IF p + Len(r.text) <= Len(s)
           /\ \A k \in DOMAIN r.text : same(r.text[k], s[p + k])
        THEN {p + Len(r.text)} ELSE {}
  IN CASE r.op = "lit" -> text(LAMBDA c, d : c = d)
       [] r.op = "ilit" -> text(SameLetter)
       [] r.op = "begin" -> IF p = 0 THEN {p} ELSE {}
       [] r.op = "end" -> IF p = Len(s) THEN {p} ELSE {}
       [] r.op = "empty" -> {p}
       [] r.op \in {"notnl", "digit", "space"} ->
            IF p < Len(s) /\ OneChar(r.op, s[p + 1]) THEN {p + 1} ELSE {}
       [] r.op = "capture" -> Ends(r.sub[1], s, p)
       [] r.op = "concat" -> FoldLeft(through, {p}, r.sub)
       [] r.op = "alternate" -> UNION {Ends(r.sub[k], s, p) : k \in DOMAIN r.sub}
       [] r.op = "repeat" -> FoldLeft(through, {p}, [k \in 1 .. r.n |-> r.sub[1]])
       [] r.op = "star" ->
            FoldLeft(LAMBDA places, k : places \cup through(places, r.sub[1]),
                     {p}, [k \in 1 .. Len(s) |-> k])

Matches(r, s) == \E p \in 0 .. Len(s) : Ends(r, s, p) # {}

-----------------------------------------------------------------------------
(* cmp.go.                                                                 *)

RECURSIVE eqRegex(_, _)
eqRegex(r, proto) ==
  /\ r.op = proto.op /\ r.n = proto.n /\ r.text = proto.text
  /\ Len(r.sub) = Len(proto.sub)
  /\ \A k \in DOMAIN r.sub : eqRegex(r.sub[k], proto.sub[k])

eqPrefixRegex(r, proto) ==
  /\ r.op = "concat"
  /\ IF proto.op # "concat" THEN Len(r.sub) > 0 /\ eqRegex(r.sub[1], proto)
     ELSE /\ Len(r.sub) >= Len(proto.sub)
          /\ \A k \in DOMAIN proto.sub : eqRegex(r.sub[k], proto.sub[k])

eqSuffixRegex(r, proto) ==
  /\ r.op = "concat"
  /\ IF proto.op # "concat" THEN Len(r.sub) > 0 /\ eqRegex(r.sub[Len(r.sub)], proto)
     ELSE LET d == Len(r.sub) - Len(proto.sub)
          IN d >= 0 /\ \A k \in DOMAIN proto.sub : eqRegex(r.sub[d + k], proto.sub[k])

eqPrefixAnyRegex(r, protos) == \E proto \in protos : eqPrefixRegex(r, proto)
eqSuffixAnyRegex(r, protos) == \E proto \in protos : eqSuffixRegex(r, proto)

isConcatRepetition(r) == r.op = "concat" /\ r.rep
isRegularLiteral(r) == r.op = "lit"
isLiterals(r) == r.op = "alternate" /\ \A k \in DOMAIN r.sub : isRegularLiteral(r.sub[k])
isMultiDigits(r) == isConcatRepetition(r) /\ eqRegex(r.sub[1], Atom("digit"))

begins(r, len) == r.op = "concat" /\ Len(r.sub) = len /\ r.sub[1].op = "begin"
isExact(r) == begins(r, 3) /\ r.sub[3].op = "end"
isExactLiteral(r) == isExact(r) /\ isRegularLiteral(r.sub[2])
isOneOfLiterals(r) == isExact(r) /\ isLiterals(r.sub[2])
isPrefixLiteral(r) == begins(r, 2) /\ isRegularLiteral(r.sub[2])
isPrefixAltLiterals(r) == begins(r, 2) /\ isLiterals(r.sub[2])
isEmptyText(r) == eqRegex(r, Concat(<<BeginText, EndText>>))
isEmptyTextWithWhitespace(r) == eqRegex(r, Concat(<<BeginText, Star(Atom("space")), EndText>>))
isAnyMatch(r) ==
  \E any \in {DotStar, Concat(<<BeginText, DotStar>>), Concat(<<BeginText, DotStar, EndText>>),
              Concat(<<DotStar, EndText>>)} : eqRegex(r, any)

(* The expressions of "^prefix\d{n}sep\d{m}...suffix": after the optional  *)
(* prefix, digits and separators take turns.                               *)
DateFrom(r) == IF isRegularLiteral(r.sub[2]) THEN 3 ELSE 2
isPrefixNumDate(r) ==
  /\ r.op = "concat" /\ r.sub[1].op = "begin" /\ Len(r.sub) >= 2
  /\ DateFrom(r) <= Len(r.sub)
  /\ \A k \in DateFrom(r) .. Len(r.sub) :
       IF (k - DateFrom(r)) % 2 = 0 THEN isMultiDigits(r.sub[k]) ELSE isRegularLiteral(r.sub[k])

-----------------------------------------------------------------------------
(* optimize.go: every transformation returns whether it changed something, *)
(* and the expression.                                                     *)

Unchanged(r) == [upd |-> FALSE, r |-> r]
Changed(r) == [upd |-> TRUE, r |-> r]

(* Simplify of the standard library: a repetition becomes a concatenation  *)
(* of one object, and what has to be rewritten is rewritten into an object *)
(* of its own each time.                                                   *)
RECURSIVE Simplify(_)
Simplify(r) ==
  LET sub == [k \in DOMAIN r.sub |-> Simplify(r.sub[k])]
  IN IF r.op = "repeat" THEN (IF r.n = 1 THEN sub[1] ELSE Same(sub[1], r.n))
     ELSE [r EXCEPT !.sub = sub, !.rep = @ /\ (sub = r.sub \/ Len(sub) = 1)]

(* uncapture; fresh says that the result is a new object.                  *)
RECURSIVE withoutCapture(_)
withoutCapture(r) ==
  LET u == [k \in DOMAIN r.sub |-> withoutCapture(r.sub[k])]
      modified == \E k \in DOMAIN u : u[k].upd
  IN IF r.op = "capture" THEN [u[1] EXCEPT !.upd = TRUE]
     ELSE IF ~modified THEN [upd |-> FALSE, r |-> r, fresh |-> FALSE]
     ELSE [upd |-> TRUE, fresh |-> TRUE,
           r |-> [r EXCEPT !.sub = [k \in DOMAIN u |-> u[k].r],
                           !.rep = @ /\ (~u[1].fresh \/ Len(u) = 1)]]
uncapture(r) == [upd |-> withoutCapture(r).upd, r |-> withoutCapture(r).r]

Shorter(r, sub) == [r EXCEPT !.sub = sub, !.rep = @ \/ Len(sub) = 1]

\* Mutation: the anchor goes too.
trimLeftAnchored(r) ==
  IF eqPrefixAnyRegex(r, {DotStar, BeginText}) THEN Changed(Shorter(r, Tail(r.sub)))
  ELSE Unchanged(r)

trimLeft(r) ==
  IF eqPrefixAnyRegex(r, {DotStar, Concat(<<BeginText, DotStar>>)})
  THEN Changed(Shorter(r, Tail(r.sub))) ELSE Unchanged(r)

trimRight(r) ==
  IF eqSuffixAnyRegex(r, {DotStar, Concat(<<DotStar, EndText>>)})
  THEN Changed(Shorter(r, Front(r.sub))) ELSE Unchanged(r)

unconcat(r) ==
  CASE r.op = "concat" /\ Len(r.sub) = 1 -> Changed(r.sub[1])
    [] r.op = "concat" /\ Len(r.sub) = 0 -> Changed(Atom("empty"))
    [] r.op = "repeat" /\ r.n = 1 -> Changed(r.sub[1])
    [] OTHER -> Unchanged(r)

(* The loop of concatRepetition over neighbours, from the k-th on.         *)
RECURSIVE mergeFrom(_, _)
mergeFrom(subs, k) ==
  LET a == subs[k]
      b == subs[k + 1]
      merged(r) == [upd |-> TRUE, out |-> <<r>> \o mergeFrom(subs, k + 2).out]
  IN IF k > Len(subs) THEN [upd |-> FALSE, out |-> <<>>]
     ELSE IF k = Len(subs) THEN [upd |-> FALSE, out |-> <<a>>]
     ELSE IF a.op = "repeat" /\ eqRegex(a.sub[1], b) THEN merged(Repeat(a.sub[1], a.n + 1))
     ELSE IF isConcatRepetition(a) /\ eqRegex(a.sub[1], b)
     THEN merged(Same(a.sub[1], Len(a.sub) + 1))
     ELSE IF eqRegex(a, b) THEN merged(Repeat(a, 2))
     ELSE LET rest == mergeFrom(subs, k + 1) IN [rest EXCEPT !.out = <<a>> \o @]

RECURSIVE concatRepetition(_)
concatRepetition(r) ==
  IF r.op # "concat" \/ isConcatRepetition(r) THEN Unchanged(r)
  ELSE LET c == [k \in DOMAIN r.sub |-> concatRepetition(r.sub[k])]
           m == mergeFrom([k \in DOMAIN c |-> c[k].r], 1)
       IN [upd |-> m.upd \/ (\E k \in DOMAIN c : c[k].upd), r |-> Concat(m.out)]

RECURSIVE flattenRepetition(_)
flattenRepetition(r) ==
  IF r.op # "concat" THEN Unchanged(r)
  ELSE IF isConcatRepetition(r)
  THEN LET sub == r.sub[1]
           f == flattenRepetition(sub)
       IN IF isConcatRepetition(sub)
          THEN Changed(Repeat(sub.sub[1], Len(sub.sub) * Len(r.sub)))
          ELSE [f EXCEPT !.r = Same(@, Len(r.sub))]
  ELSE LET f == [k \in DOMAIN r.sub |-> flattenRepetition(r.sub[k])]
       IN [upd |-> \E k \in DOMAIN f : f[k].upd,
           r   |-> [r EXCEPT !.sub = [k \in DOMAIN f |-> f[k].r]]]

transformations(r) ==
  LET t1 == uncapture(Simplify(r))
      t2 == trimLeft(t1.r)
      t3 == trimRight(t2.r)
      t4 == unconcat(t3.r)
      t5 == concatRepetition(t4.r)
      t6 == flattenRepetition(t5.r)
  IN [upd |-> \E t \in {t1, t2, t3, t4, t5, t6} : t.upd, r |-> t6.r]

-----------------------------------------------------------------------------
(* compile.go and matchers.go.                                             *)

LiteralsOf(r) == {r.sub[k].text : k \in DOMAIN r.sub}
Matcher(kind, texts, r) == [kind |-> kind, texts |-> texts, regex |-> r]

compile(r) ==
  IF isRegularLiteral(r) THEN Matcher("substring", {r.text}, r)
  ELSE IF isExactLiteral(r) THEN Matcher("equals", {r.sub[2].text}, r)
  ELSE IF isLiterals(r) THEN Matcher("substring", LiteralsOf(r), r)
  ELSE IF isOneOfLiterals(r) THEN Matcher("equals", LiteralsOf(r.sub[2]), r)
  ELSE IF isPrefixLiteral(r) THEN Matcher("prefix", {r.sub[2].text}, r)
  ELSE IF isPrefixAltLiterals(r) THEN Matcher("prefix", LiteralsOf(r.sub[2]), r)
  ELSE IF isPrefixNumDate(r) THEN Matcher("date", {}, r)
  ELSE IF isEmptyText(r) THEN Matcher("equals", {<<>>}, r)
  ELSE IF isEmptyTextWithWhitespace(r) THEN Matcher("whitespace", {}, r)
  ELSE IF isAnyMatch(r) THEN Matcher("any", {}, r)
  ELSE Matcher("regexp", {}, r)

(* prefixNumDate.Match: after the test of the least length, the items of   *)
(* the expression are compared from left to right.                         *)
ItemLen(item) == IF isRegularLiteral(item) THEN Len(item.text) ELSE Len(item.sub)
minLen(r) == FoldLeft(LAMBDA n, item : n + ItemLen(item), 0, Tail(r.sub))
DateMatch(r, s) ==
  LET at(k) == FoldLeft(LAMBDA n, item : n + ItemLen(item), 0, SubSeq(r.sub, 2, k - 1))
  IN /\ Len(s) >= minLen(r)
     /\ \A k \in 2 .. Len(r.sub) :
          LET part == SubSeq(s, at(k) + 1, at(k) + ItemLen(r.sub[k]))
          IN IF isRegularLiteral(r.sub[k]) THEN part = r.sub[k].text
             ELSE ToSet(part) \subseteq Digits

MatchString(m, s) ==
  CASE m.kind = "substring" -> \E t \in m.texts : Matches(Lit(t), s)
    [] m.kind = "equals" -> s \in m.texts
    [] m.kind = "prefix" -> \E t \in m.texts : IsPrefix(t, s)
    [] m.kind = "date" -> DateMatch(m.regex, s)
    [] m.kind = "whitespace" -> ToSet(s) \subseteq Spaces
    [] m.kind = "any" -> TRUE
    [] m.kind = "regexp" -> Matches(m.regex, s)

-----------------------------------------------------------------------------
None == Matcher("none", {}, Atom("empty"))

(* CompileExact: the expression is anchored on both sides.                 *)
Anchored(r) ==
  IF r.op # "concat" THEN Concat(<<BeginText, r, EndText>>)
  ELSE LET left == IF eqPrefixRegex(r, BeginText) THEN <<>> ELSE <<BeginText>>
           right == IF eqSuffixRegex(r, EndText) THEN <<>> ELSE <<EndText>>
       IN IF left = <<>> /\ right = <<>> THEN r ELSE Concat(left \o r.sub \o right)

Init ==
  /\ pattern \in Patterns
  /\ exact \in BOOLEAN
  /\ regex = IF exact THEN Anchored(Simplify(pattern)) ELSE pattern
  /\ rounds = 0
  /\ matcher = None

(* One round of optimize.                                                  *)
Optimize ==
  LET t == transformations(regex)
  IN /\ matcher = None
     /\ t.upd
     /\ rounds <= MaxRounds
     /\ regex' = t.r
     /\ rounds' = rounds + 1
     /\ UNCHANGED <<pattern, exact, matcher>>

(* The last round, and the rest of Compile and CompileExact.               *)
Compile ==
  LET t == transformations(regex)
  IN /\ matcher = None
     /\ ~t.upd
     /\ regex' = Simplify(t.r)
     /\ matcher' = compile(regex')
     /\ UNCHANGED <<pattern, exact, rounds>>

Next == Optimize \/ Compile

Spec == Init /\ [][Next]_vars

(* What the pattern means.                                                 *)
Meaning(s) ==
  Matches(IF exact THEN Concat(<<BeginText, pattern, EndText>>) ELSE pattern, s)

(* "^.*" at the beginning or ".*$" at the end is dropped (trimLeft,        *)
(* trimRight), although "." does not match the end of a line.              *)
DropsDot ==
  LET r == withoutCapture(Simplify(pattern)).r
      c == IF exact THEN Anchored(r) ELSE r
  IN \/ eqPrefixRegex(c, Concat(<<BeginText, DotStar>>))
     \/ eqSuffixRegex(c, Concat(<<DotStar, EndText>>))
     \/ isAnyMatch(c)

(* A matcher made by Compile or CompileExact (matcher.go:70-110) accepts   *)
(* the strings the expression matches, whatever optimize has rewritten and *)
(* compile has replaced, and every round of optimize keeps them.  The one  *)
(* exception are strings of several lines and expressions that begin with  *)
(* "^.*" or end with ".*$".  The rewriting ends.                           *)
MatchExact ==
  /\ rounds <= MaxRounds
  /\ \A s \in Strings :
       \/ (IF matcher = None THEN Matches(regex, s) ELSE MatchString(matcher, s)) = Meaning(s)
       \/ "\n" \in ToSet(s) /\ DropsDot

=============================================================================
