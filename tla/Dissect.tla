------------------------------ MODULE Dissect -------------------------------
(***************************************************************************)
(* The dissect processor (src/processors/dissect): a tokenizer such as     *)
(* "%{a}, %{+b/1->}" is parsed into delimiters and fields, a message is    *)
(* scanned for the delimiters, and the texts between them are stored under *)
(* the keys of the fields.                                                 *)
(*                                                                         *)
(* A text is a sequence of characters and positions count from 0, as in    *)
(* the code.  A tokenizer is the sequence of its raw fields, each with the *)
(* text before it, the prefix of its key ("", "+", "&", "?", "*" or, for   *)
(* %{}, "skip"; "+&" and "&+" are refused), key, ordinal, length, greedy   *)
(* suffix and data type ("|" if it is missing after its sign), and the     *)
(* text after the last field.  Splitting the string into them is done by   *)
(* regular expressions and left out.                                       *)
(***************************************************************************)
EXTENDS Integers, Sequences, FiniteSets, TLC
LOCAL INSTANCE SequencesExt

CONSTANTS
  Tokenizers,  \* the tokenizers to compile
  Messages     \* the messages to dissect

VARIABLES
  parser,     \* the compiled tokenizer
  s,          \* the message
  pc,         \* "new", "begin", "next", "greedy", "last", "resolve" or "done"
  i,          \* number of fields scanned
  offset,     \* the scanner's place in the message
  positions,  \* where each field starts and ends
  result      \* "", "ok", "error", "panic" or "spins"

vars == <<parser, s, pc, i, offset, positions, result>>
scanVars == <<i, offset, positions>>

-----------------------------------------------------------------------------
(* Compiling a tokenizer.                                                  *)

(* newField: a data type must be one of the known ones, and the prefixes   *)
(* of append and indirect fields exclude each other.                       *)
Refused(raw) ==
  /\ raw.prefix # "skip"
  /\ raw.type \notin {"", "string", "integer"} \/ raw.prefix \in {"+&", "&+"}

KindOf == [p \in {"", "+", "&", "?", "*", "skip", "+&", "&+"} |->
  CASE p = "" -> "normal" [] p = "+" -> "append" [] p = "&" -> "indirect"
    [] p = "?" -> "namedSkip" [] p = "*" -> "pointer" [] OTHER -> "skip"]

(* What newField makes: only normal and append fields keep the ordinal and *)
(* the greedy suffix, only normal and indirect fields the data type.       *)
newField(id, raw) ==
  LET kind == KindOf[raw.prefix]
      ordered == kind \in {"normal", "append"}
  IN [id      |-> id,
      kind    |-> kind,
      key     |-> IF kind = "skip" THEN <<>> ELSE raw.key,
      ordinal |-> IF ordered THEN raw.ordinal ELSE 0,
      length  |-> IF kind = "skip" THEN 0 ELSE raw.length,
      greedy  |-> ordered /\ raw.greedy,
      type    |-> IF kind \in {"normal", "indirect"} THEN raw.type ELSE "",
      join    |-> IF raw.before = <<>> THEN <<" ">> ELSE raw.before]

IsSaveable(f) == f.kind \notin {"skip", "namedSkip", "pointer"}
IsFixedLength(f) == f.length > 0

(* newParser.  sort.Slice is an insertion sort, hence stable, for at most  *)
(* twelve fields.                                                          *)
newParser(tokenizer) ==
  LET raw == tokenizer.fields
      made == [n \in DOMAIN raw |-> newField(n, raw[n])]
      sorted == SortSeq(made, LAMBDA a, b :
                  a.ordinal < b.ordinal \/ (a.ordinal = b.ordinal /\ a.id < b.id))
      trailing == IF tokenizer.after = <<>> THEN <<>> ELSE <<tokenizer.after>>
  IN [refused    |-> \E n \in DOMAIN raw : Refused(raw[n]),
      delimiters |-> [n \in DOMAIN raw |-> raw[n].before] \o trailing,
      greedy     |-> [n \in DOMAIN raw |-> made[n].greedy] \o [n \in DOMAIN trailing |-> FALSE],
      fields     |-> sorted,
      fieldsIDMap |-> [n \in DOMAIN raw |-> CHOOSE k \in DOMAIN sorted : sorted[k].id = n],
      referenceFields |-> {f \in ToSet(sorted) : ~IsSaveable(f)}]

(* validate: an indirect field names a field to take its key from.         *)
validate(p) ==
  \A f \in ToSet(p.fields) :
    f.kind = "indirect" => \E r \in p.referenceFields : r.key = f.key

(* The field of the n-th delimiter; a missing entry of the map is index 0, *)
(* the first field in the order of the ordinals.                           *)
FieldOf(p, n) ==
  p.fields[IF n \in DOMAIN p.fieldsIDMap THEN p.fieldsIDMap[n] ELSE 1]

-----------------------------------------------------------------------------
(* Scanning.                                                               *)

Text(from, to) == SubSeq(s, from + 1, to)
OccursAt(needle, at) ==
  at + Len(needle) <= Len(s) /\ Text(at, at + Len(needle)) = needle

(* IndexOf of a zeroByte or multiByte delimiter; the slice expression of a *)
(* multiByte panics beyond the end of the message.                         *)
IndexOf(needle, from) ==
  LET places == {at \in from .. Len(s) : OccursAt(needle, at)}
  IN IF needle = <<>> THEN from
     ELSE IF places = {} THEN -1
     ELSE CHOOSE at \in places : \A other \in places : at <= other

\* Mutation: the last place instead of the first.
IndexOfLast(needle, from) ==
  LET places == {at \in from .. Len(s) : OccursAt(needle, at)}
  IN IF needle = <<>> THEN from
     ELSE IF places = {} THEN -1
     ELSE CHOOSE at \in places : \A other \in places : at >= other

delimiterIndex(needle, from) == IndexOf(needle, from)
SlicePanics(needle, from) == needle # <<>> /\ from > Len(s)

Init ==
  /\ \E t \in Tokenizers : parser = newParser(t)
  /\ s \in Messages
  /\ pc = "new"
  /\ i = 0
  /\ offset = 0
  /\ positions = [n \in DOMAIN parser.fields |-> [start |-> 0, end |-> 0]]
  /\ result = ""

End(r) == pc' = "done" /\ result' = r /\ UNCHANGED <<parser, s, scanVars>>

(* New and the beginning of Dissect.                                       *)
New ==
  /\ pc = "new"
  /\ IF parser.refused \/ ~validate(parser) \/ s = <<>> THEN End("error")
     ELSE pc' = "begin" /\ UNCHANGED <<parser, s, scanVars, result>>

(* extract: the first delimiter has to be at the beginning.                *)
Begin ==
  LET dl == parser.delimiters[1]
  IN /\ pc = "begin"
     /\ IF delimiterIndex(dl, 0) # 0 THEN End("error")
        ELSE /\ pc' = "next"
             /\ offset' = Len(dl)
             /\ UNCHANGED <<parser, s, i, positions, result>>

HasNext == i + 2 \in DOMAIN parser.delimiters
NextDelimiter == parser.delimiters[i + 2]

(* One delimiter: where the field before it ends.                          *)
NextField ==
  LET field == FieldOf(parser, i + 1)
      fixed == IsFixedLength(field)
      end == IF fixed THEN offset + field.length ELSE delimiterIndex(NextDelimiter, offset)
  IN /\ pc = "next"
     /\ HasNext
     /\ IF (fixed /\ end > Len(s) /\ offset > Len(s))
           \/ (~fixed /\ SlicePanics(NextDelimiter, offset)) THEN End("panic")
        ELSE IF end = -1 \/ (fixed /\ end > Len(s)) THEN End("error")
        ELSE /\ positions' = [positions EXCEPT ![i + 1] = [start |-> offset, end |-> end]]
             /\ offset' = end
             /\ pc' = "greedy"
             /\ UNCHANGED <<parser, s, i, result>>

(* The padding of a greedy field, one position at a time.                  *)
Greedy ==
  LET greedy == parser.greedy[i + 1]
  IN /\ pc = "greedy"
     /\ IF greedy /\ SlicePanics(NextDelimiter, offset + 1) THEN End("panic")
        ELSE IF greedy /\ NextDelimiter = <<>> THEN End("spins")
        ELSE IF greedy /\ delimiterIndex(NextDelimiter, offset + 1) = offset + 1
        THEN offset' = offset + 1 /\ UNCHANGED <<parser, s, pc, i, positions, result>>
        ELSE /\ offset' = offset + Len(NextDelimiter)
             /\ i' = i + 1
             /\ pc' = "next"
             /\ UNCHANGED <<parser, s, positions, result>>

(* After the last delimiter: the rest of the message.                      *)
LastField ==
  LET field == FieldOf(parser, i + 1)
  IN /\ pc = "next"
     /\ ~HasNext
     /\ IF IsFixedLength(field) /\ offset + field.length # Len(s) THEN End("error")
        ELSE /\ positions' =
                  IF offset < Len(s) /\ i < Len(parser.fields)
                  THEN [positions EXCEPT ![i + 1] = [start |-> offset, end |-> Len(s)]]
                  ELSE positions
             /\ pc' = "done"
             /\ result' = "ok"
             /\ UNCHANGED <<parser, s, i, offset>>

Next == New \/ Begin \/ NextField \/ Greedy \/ LastField

Spec == Init /\ [][Next]_vars

-----------------------------------------------------------------------------
(* Storing the texts.                                                      *)

Captured(f) == Text(positions[f.id].start, positions[f.id].end)
Without(m, fields) == [k \in DOMAIN m \ {f.key : f \in fields} |-> m[k]]
Nothing == [k \in {} |-> <<>>]

(* The Apply methods of the fields.                                        *)
Apply(f, b, m) ==
  CASE f.kind \in {"normal", "namedSkip", "pointer"} -> (f.key :> b) @@ m
    [] f.kind = "append" ->
         (f.key :> IF f.key \in DOMAIN m THEN m[f.key] \o f.join \o b ELSE b) @@ m
    [] f.kind = "indirect" -> IF f.key \in DOMAIN m THEN (m[f.key] :> b) @@ m ELSE m
    [] OTHER -> m

resolve ==
  Without(FoldLeft(LAMBDA m, f : Apply(f, Captured(f), m), Nothing, parser.fields),
          parser.referenceFields)

(* convertData and transformType for strings and integers: trailing spaces *)
(* are cut, and what does not parse stays as it is.                        *)
Digits == {"0", "1"}
convertData(type, b) ==
  LET keep == CHOOSE n \in 0 .. Len(b) :
                /\ \A k \in n + 1 .. Len(b) : b[k] = " "
                /\ n = 0 \/ b[n] # " "
      cut == SubSeq(b, 1, keep)
  IN IF type = "string" \/ (type = "integer" /\ cut # <<>> /\ ToSet(cut) \subseteq Digits)
     THEN [type |-> type, text |-> cut]
     ELSE [type |-> "", text |-> b]

resolveConvert ==
  LET one(acc, f) ==
        LET m == Apply(f, Captured(f), acc.m)
            key == IF f.key \in DOMAIN acc.lookup THEN acc.lookup[f.key] ELSE f.key
            v == IF key \in DOMAIN m THEN m[key] ELSE <<>>
        IN IF IsSaveable(f)
           THEN [acc EXCEPT !.m = m, !.mc = (key :> convertData(f.type, v)) @@ @]
           ELSE [acc EXCEPT !.m = m, !.lookup = (f.key :> Captured(f)) @@ @]
      start == [m |-> Nothing, lookup |-> Nothing, mc |-> Nothing]
  IN Without(FoldLeft(one, start, parser.fields).mc, parser.referenceFields)

-----------------------------------------------------------------------------
(* What a match is.                                                        *)

(* The first place of a delimiter from `from` on, and the last place of a  *)
(* run of them that starts there.                                          *)
FirstAt(needle, from, at) ==
  /\ at >= from
  /\ OccursAt(needle, at)
  /\ \A k \in from .. at - 1 : ~OccursAt(needle, k)
RunEnd(needle, from, at) ==
  /\ at >= from
  /\ \A k \in from .. at : OccursAt(needle, k)
  /\ ~OccursAt(needle, at + 1)

(* The texts `p` and the delimiters make up the message: each text reaches *)
(* to the first place of the delimiter after it, and the last one to the   *)
(* end; padding is only between a greedy field and the text after it.      *)
Fits(p) ==
  LET n == Len(parser.fields)
      ds == parser.delimiters
      ends == Len(ds) > n
      startOf(k) == IF k <= n THEN p[k].start ELSE Len(s)
  IN /\ OccursAt(ds[1], 0)
     /\ p[1].start = Len(ds[1])
     /\ \A k \in 1 .. Len(ds) - 1 :
          /\ FirstAt(ds[k + 1], p[k].start, p[k].end)
          /\ k < n =>
               IF parser.greedy[k]
               THEN RunEnd(ds[k + 1], p[k].end, p[k + 1].start - Len(ds[k + 1]))
               ELSE p[k + 1].start = p[k].end + Len(ds[k + 1])
     /\ ~ends => p[n].end = Len(s)

Plain == \A f \in ToSet(parser.fields) : ~IsFixedLength(f)
EmptyAfterGreedy ==
  \E k \in 1 .. Len(parser.delimiters) - 1 :
    parser.greedy[k] /\ parser.delimiters[k + 1] = <<>>

(* An empty last text keeps the position 0, 0.                             *)
Places ==
  [k \in DOMAIN positions |->
     IF k = Len(positions) /\ Len(parser.delimiters) = Len(positions)
        /\ positions[k] = [start |-> 0, end |-> 0]
     THEN [start |-> offset, end |-> offset] ELSE positions[k]]

(* Dissect succeeds on a tokenizer without fixed lengths exactly when the  *)
(* message is made up of the delimiters with texts between them, and finds *)
(* those texts (extract, dissect.go:103).  It panics only after a field of *)
(* fixed length, and runs forever only where an empty delimiter follows a  *)
(* greedy field.                                                           *)
DissectExact ==
  pc = "done" =>
    /\ result = "ok" /\ Plain => Fits(Places)
    /\ result = "error" /\ Plain /\ ~parser.refused /\ validate(parser) /\ s # <<>> =>
         ~\E p \in [DOMAIN positions -> [start : 0 .. Len(s), end : 0 .. Len(s)]] : Fits(p)
    /\ result = "panic" => ~Plain
    /\ result = "spins" => EmptyAfterGreedy

(* Dissect and DissectConvert store the same texts under the same keys,    *)
(* converted or not (resolve and resolveConvert, dissect.go:183-223), as   *)
(* long as the keys of the reference fields are used for nothing else.     *)
ConvertAgrees ==
  result = "ok" =>
    LET m == resolve
        mc == resolveConvert
        refs == {f.key : f \in parser.referenceFields}
        apart == /\ \A f \in ToSet(parser.fields) :
                      /\ IsSaveable(f) /\ f.kind # "indirect" => f.key \notin refs
                      /\ Captured(f) \notin refs
    IN apart =>
         /\ DOMAIN mc = DOMAIN m
         /\ \A k \in DOMAIN m :
              \E type \in {f.type : f \in ToSet(parser.fields)} : mc[k] = convertData(type, m[k])

=============================================================================
