------------------------------- MODULE Version -------------------------------
(***************************************************************************)
(* Version numbers (src/version/version.go): two version objects that are  *)
(* unmarshalled from JSON again and again, and the comparisons of them.    *)
(*                                                                         *)
(* The text of a version is the sequence of what its dots separate, before *)
(* the first dash, and the sequence of what its dashes separate after it.  *)
(* A suffix is a number that stands for its place in the order of strings; *)
(* 0 is the empty string.                                                  *)
(***************************************************************************)
EXTENDS Integers, Sequences

CONSTANTS
  Texts,      \* the texts that are unmarshalled
  NotANumber  \* what strconv.Atoi does not accept

Zero == [text |-> [numbers |-> << >>, suffixes |-> << >>],
         Major |-> 0, Minor |-> 0, Bugfix |-> 0, Meta |-> 0]

VARIABLES
  v,    \* the receiver of the comparisons
  v1,   \* their argument
  ok    \* the last call of UnmarshalJSON returned nil

vars == <<v, v1, ok>>

\* New returns no error.
Valid(text) ==
  /\ Len(text.numbers) = 3
  /\ \A n \in 1 .. 3 : text.numbers[n] # NotANumber

Meta(text) == IF text.suffixes = << >> THEN 0 ELSE text.suffixes[1]

New(text) ==
  [text   |-> text,
   Major  |-> text.numbers[1],
   Minor  |-> text.numbers[2],
   Bugfix |-> text.numbers[3],
   Meta   |-> Meta(text)]

IsValid(a) == a.text # Zero.text

-----------------------------------------------------------------------------
(* The comparisons.                                                        *)

metaIsLessThanOrEqual(a, b) ==
  \/ a.Meta = 0 /\ b.Meta = 0
  \/ a.Meta # 0 /\ b.Meta = 0
  \/ a.Meta # 0 /\ b.Meta # 0 /\ a.Meta <= b.Meta

\* Mutation: the bugfix number decides although the minor numbers differ.
LessThanOrEqualSloppy(withMeta, a, b) ==
  \/ withMeta /\ a.text = b.text
  \/ a.Major < b.Major
  \/ a.Major = b.Major /\ a.Minor < b.Minor
  \/ a.Major = b.Major /\ a.Bugfix < b.Bugfix
  \/ /\ a.Major = b.Major /\ a.Minor = b.Minor /\ a.Bugfix = b.Bugfix
     /\ withMeta => metaIsLessThanOrEqual(a, b)

LessThanOrEqual(withMeta, a, b) ==
  \/ withMeta /\ a.text = b.text
  \/ a.Major < b.Major
  \/ a.Major = b.Major /\ a.Minor < b.Minor
  \/ a.Major = b.Major /\ a.Minor = b.Minor /\ a.Bugfix < b.Bugfix
  \/ /\ a.Major = b.Major /\ a.Minor = b.Minor /\ a.Bugfix = b.Bugfix
     /\ withMeta => metaIsLessThanOrEqual(a, b)

LessThanMajorMinor(a, b) ==
  \/ a.Major < b.Major
  \/ a.Major = b.Major /\ a.Minor < b.Minor

LessThan(a, b) ==
  \/ LessThanMajorMinor(a, b)
  \/ a.Minor = b.Minor /\ a.Bugfix < b.Bugfix

-----------------------------------------------------------------------------

Init ==
  /\ v = Zero
  /\ v1 = Zero
  /\ ok = TRUE

\* UnmarshalJSON replaces the object when New succeeds and leaves it alone
\* otherwise.
UnmarshalJSON(text) ==
  /\ ok' = Valid(text)
  /\ \/ /\ v' = IF Valid(text) THEN New(text) ELSE v
        /\ UNCHANGED v1
     \/ /\ v1' = IF Valid(text) THEN New(text) ELSE v1
        /\ UNCHANGED v

Next == \E text \in Texts : UnmarshalJSON(text)

Spec == Init /\ [][Next]_vars

-----------------------------------------------------------------------------
(* Properties.                                                             *)

Versions == {New(text) : text \in {t \in Texts : Valid(t)}}

\* The reference: the first difference among major, minor and bugfix decides.
Difference(a, b) ==
  LET fields == <<a.Major - b.Major, a.Minor - b.Minor, a.Bugfix - b.Bugfix>>
      differs == {n \in 1 .. 3 : fields[n] # 0}
  IN  IF differs = {} THEN 0
      ELSE fields[CHOOSE n \in differs : \A m \in differs : n <= m]

\* A version object holds three numbers, read from a text that has them, or is
\* still the zero value: no failed UnmarshalJSON leaves a half-parsed version.
Parsed ==
  \A a \in {v, v1} :
    IF IsValid(a) THEN a.text.numbers = <<a.Major, a.Minor, a.Bugfix>> ELSE a = Zero

\* LessThanOrEqual is transitive, with and without the meta part.
OrderIsTransitive ==
  IsValid(v) /\ IsValid(v1) =>
    \A withMeta \in BOOLEAN, w \in Versions :
      LessThanOrEqual(withMeta, v, v1) /\ LessThanOrEqual(withMeta, v1, w)
        => LessThanOrEqual(withMeta, v, w)

\* A pre-release comes strictly before its release, and comparing with the meta
\* part never contradicts the numbers.
PreReleaseFirst ==
  /\ Difference(v, v1) = 0 /\ v.Meta # 0 /\ v1.Meta = 0 =>
       LessThanOrEqual(TRUE, v, v1) /\ ~LessThanOrEqual(TRUE, v1, v)
  /\ LessThanOrEqual(TRUE, v, v1) => Difference(v, v1) <= 0

\* Without the meta part LessThanOrEqual and LessThanMajorMinor compare major,
\* minor and bugfix in order.
ComparesInOrder ==
  /\ LessThanOrEqual(FALSE, v, v1) <=> Difference(v, v1) <= 0
  /\ LessThanMajorMinor(v, v1) =>
       Difference(v, v1) < 0 /\ ~LessThanMajorMinor(v1, v)

\* The comparisons are an order on versions that New has read: LessThanOrEqual
\* is transitive, puts a pre-release before its release, and agrees with the
\* first number that differs.
OrderExact == OrderIsTransitive /\ PreReleaseFirst /\ ComparesInOrder

\* What the comment of LessThan says: v is "strictly smaller" than v1, "the major,
\* minor and bugfix numbers are compared in order".
LessThanIsStrict == LessThan(v, v1) <=> Difference(v, v1) < 0
=============================================================================
