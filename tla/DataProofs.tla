----------------------------- MODULE DataProofs -----------------------------
(***************************************************************************)
(* Proofs about the parts that keep data, for all values of the constants: *)
(* the comparisons are an order on all versions; namespaces, flags and     *)
(* merges are as asked for; and the file keystore, when writing its        *)
(* temporary file does not fail, implements SecretStore, for any keys and  *)
(* values and any number of saves, crashes and power losses.               *)
(***************************************************************************)
EXTENDS Data, TLAPS

-----------------------------------------------------------------------------
(* Versions.                                                               *)

\* A version object is the zero value or one New has returned.
Objects == Ver!Versions \union {Ver!Zero}

VersionInv == left \in Objects /\ right \in Objects

\* The numbers of a version, and the text they were read from.
ReadFrom(a) ==
  /\ a.Major \in Nat /\ a.Minor \in Nat /\ a.Bugfix \in Nat /\ a.Meta \in Nat
  /\ IF Ver!IsValid(a) THEN a = Ver!New(a.text) /\ a.text.numbers = <<a.Major, a.Minor, a.Bugfix>>
     ELSE a = Ver!Zero

LEMMA ThreeNumbers ==
  ASSUME NEW S, NEW s \in Seq(S), Len(s) = 3
  PROVE  s = <<s[1], s[2], s[3]>> /\ s # << >> /\ \A n \in 1 .. 3 : s[n] \in S
<1>1. s \in [1 .. 3 -> S] /\ s # << >>
  OBVIOUS
<1>2. \A n \in 1 .. 3 : s[n] \in S
  BY <1>1
<1> DEFINE t == <<s[1], s[2], s[3]>>
<1>3. DOMAIN t = 1 .. 3 /\ t[1] = s[1] /\ t[2] = s[2] /\ t[3] = s[3]
  OBVIOUS
<1>4. t \in Seq(S) /\ Len(t) = 3
  BY <1>2
<1> HIDE DEF t
<1>5. t \in [1 .. 3 -> S]
  <2>1. \A u \in Seq(S) : Len(u) = 3 => u \in [1 .. 3 -> S]
    BY SMTT(30)
  <2>2. QED
    BY <1>4, <2>1, Zenon
<1>6. \A n \in 1 .. 3 : s[n] = t[n]
  BY <1>3
<1>7. s = t
  BY <1>1, <1>5, <1>6
<1>8. QED
  BY <1>1, <1>2, <1>7 DEF t

LEMMA NewReads == ASSUME NEW text \in Texts, Ver!Valid(text) PROVE ReadFrom(Ver!New(text))
<1>1. /\ text \in [numbers : Seq(Nat \union {NotANumber}), suffixes : Seq(Nat)]
      /\ Len(text.numbers) = 3 /\ \A n \in 1 .. 3 : text.numbers[n] # NotANumber
  BY DataAssumption, Zenon DEF Ver!Valid
<1>2. text.numbers \in Seq(Nat \union {NotANumber}) /\ text.suffixes \in Seq(Nat)
  BY <1>1
<1>3. /\ text.numbers = <<text.numbers[1], text.numbers[2], text.numbers[3]>>
      /\ text.numbers # << >> /\ \A n \in 1 .. 3 : text.numbers[n] \in Nat \union {NotANumber}
  BY <1>1, <1>2, ThreeNumbers, Zenon
<1>4. 1 \in 1 .. 3 /\ 2 \in 1 .. 3 /\ 3 \in 1 .. 3
  OBVIOUS
<1>5. text.numbers[1] \in Nat /\ text.numbers[2] \in Nat /\ text.numbers[3] \in Nat
  BY <1>1, <1>3, <1>4, Zenon
<1>6. Ver!Meta(text) \in Nat
  BY <1>2 DEF Ver!Meta
<1>7. text # Ver!Zero.text
  BY <1>3 DEF Ver!Zero
<1>8. /\ Ver!New(text).text = text /\ Ver!New(text).Major = text.numbers[1]
      /\ Ver!New(text).Minor = text.numbers[2] /\ Ver!New(text).Bugfix = text.numbers[3]
      /\ Ver!New(text).Meta = Ver!Meta(text)
  BY DEF Ver!New
<1>9. QED
  BY <1>3, <1>5, <1>6, <1>7, <1>8, Zenon DEF ReadFrom, Ver!IsValid

LEMMA ObjectsRead == \A a \in Objects : ReadFrom(a)
<1>1. ReadFrom(Ver!Zero)
  BY DEF ReadFrom, Ver!Zero, Ver!IsValid
<1>2. ASSUME NEW a \in Ver!Versions PROVE ReadFrom(a)
  <2>1. PICK text \in Texts : Ver!Valid(text) /\ a = Ver!New(text)
    BY Zenon DEF Ver!Versions
  <2>2. QED
    BY <2>1, NewReads, Zenon
<1>3. QED
  BY <1>1, <1>2, Zenon DEF Objects

\* Two objects with the same text are the same.
LEMMA SameText == ASSUME NEW a \in Objects, NEW b \in Objects, a.text = b.text PROVE a = b
BY ObjectsRead, Zenon DEF ReadFrom, Ver!IsValid

LEMMA VersionInitInv == Ver!Init => VersionInv
BY Zenon DEF Ver!Init, VersionInv, Objects

LEMMA VersionStepInv == VersionInv /\ [Ver!Next]_(Ver!vars) => VersionInv'
<1> SUFFICES ASSUME VersionInv, [Ver!Next]_(Ver!vars) PROVE VersionInv'
  OBVIOUS
<1>1. CASE UNCHANGED Ver!vars
  BY <1>1, Zenon DEF Ver!vars, VersionInv
<1>2. ASSUME NEW text \in Texts, Ver!UnmarshalJSON(text) PROVE VersionInv'
  <2>1. CASE Ver!Valid(text)
    <3>1. Ver!New(text) \in Objects
      BY <2>1, Zenon DEF Objects, Ver!Versions
    <3>2. QED
      BY <1>2, <2>1, <3>1, Zenon DEF Ver!UnmarshalJSON, VersionInv
  <2>2. CASE ~Ver!Valid(text)
    BY <1>2, <2>2, Zenon DEF Ver!UnmarshalJSON, VersionInv
  <2>3. QED
    BY <2>1, <2>2, Zenon
<1>3. QED
  BY <1>1, <1>2, Zenon DEF Ver!Next

\* The reference of the comparisons, by cases.
LEMMA FirstOf ==
  ASSUME NEW D \in SUBSET (1 .. 3), NEW n \in D, \A m \in D : n <= m
  PROVE  (CHOOSE k \in D : \A m \in D : k <= m) = n
<1>1. \A k \in D : (\A m \in D : k <= m) => k = n
  OBVIOUS
<1>2. QED
  BY <1>1, Zenon

LEMMA DifferenceCases ==
  ASSUME NEW a, NEW b, ReadFrom(a), ReadFrom(b)
  PROVE  /\ a.Major # b.Major => Ver!Difference(a, b) = a.Major - b.Major
         /\ a.Major = b.Major /\ a.Minor # b.Minor => Ver!Difference(a, b) = a.Minor - b.Minor
         /\ a.Major = b.Major /\ a.Minor = b.Minor =>
              Ver!Difference(a, b) = a.Bugfix - b.Bugfix
<1> DEFINE fields == <<a.Major - b.Major, a.Minor - b.Minor, a.Bugfix - b.Bugfix>>
           differs == {n \in 1 .. 3 : fields[n] # 0}
           first == CHOOSE n \in differs : \A m \in differs : n <= m
<1>1. /\ a.Major \in Nat /\ a.Minor \in Nat /\ a.Bugfix \in Nat
      /\ b.Major \in Nat /\ b.Minor \in Nat /\ b.Bugfix \in Nat
  BY Zenon DEF ReadFrom
<1>2. Ver!Difference(a, b) = IF differs = {} THEN 0 ELSE fields[first]
  BY Zenon DEF Ver!Difference
<1>3. /\ fields[1] = a.Major - b.Major /\ fields[2] = a.Minor - b.Minor
      /\ fields[3] = a.Bugfix - b.Bugfix
  OBVIOUS
<1>4. differs \in SUBSET (1 .. 3) /\ \A n \in 1 .. 3 : n \in differs <=> fields[n] # 0
  BY Zenon
<1> HIDE DEF fields, differs
<1>5. ASSUME NEW n \in 1 .. 3, fields[n] # 0, \A m \in 1 .. n - 1 : fields[m] = 0
      PROVE  Ver!Difference(a, b) = fields[n]
  <2>1. n \in differs /\ \A m \in differs : n <= m
    BY <1>4, <1>5
  <2>2. first = n
    BY <1>4, <2>1, FirstOf, Zenon
  <2>3. QED
    BY <1>2, <2>1, <2>2, Zenon
<1>6. CASE a.Major # b.Major
  <2>1. fields[1] # 0 /\ 1 \in 1 .. 3 /\ \A m \in 1 .. 1 - 1 : fields[m] = 0
    BY <1>1, <1>3, <1>6
  <2>2. QED
    BY <1>3, <1>5, <1>6, <2>1, Zenon
<1>7. CASE a.Major = b.Major /\ a.Minor # b.Minor
  <2>1. fields[2] # 0 /\ 2 \in 1 .. 3 /\ \A m \in 1 .. 2 - 1 : fields[m] = 0
    BY <1>1, <1>3, <1>7
  <2>2. QED
    BY <1>3, <1>5, <1>7, <2>1, Zenon
<1>8. CASE a.Major = b.Major /\ a.Minor = b.Minor
  <2>0. fields[1] = 0 /\ fields[2] = 0
    BY <1>1, <1>3, <1>8
  <2>1. CASE a.Bugfix # b.Bugfix
    <3>1. fields[3] # 0 /\ 3 \in 1 .. 3 /\ \A m \in 1 .. 3 - 1 : fields[m] = 0
      BY <1>1, <1>3, <2>0, <2>1
    <3>2. QED
      BY <1>3, <1>5, <1>8, <3>1, Zenon
  <2>2. CASE a.Bugfix = b.Bugfix
    <3>1. fields[3] = 0 /\ a.Bugfix - b.Bugfix = 0
      BY <1>1, <1>3, <2>2
    <3>2. \A n \in 1 .. 3 : fields[n] = 0
      BY <2>0, <3>1
    <3>3. differs = {}
      BY <1>4, <3>2, Zenon
    <3>4. QED
      BY <1>2, <1>8, <3>1, <3>3, Zenon
  <2>3. QED
    BY <2>1, <2>2, Zenon
<1>9. QED
  BY <1>6, <1>7, <1>8, Zenon

\* LessThanOrEqual for texts that differ.
Below(withMeta, a, b) ==
  \/ a.Major < b.Major
  \/ a.Major = b.Major /\ a.Minor < b.Minor
  \/ a.Major = b.Major /\ a.Minor = b.Minor /\ a.Bugfix < b.Bugfix
  \/ /\ a.Major = b.Major /\ a.Minor = b.Minor /\ a.Bugfix = b.Bugfix
     /\ withMeta => Ver!metaIsLessThanOrEqual(a, b)

LEMMA BelowSelf == ASSUME NEW a, ReadFrom(a), NEW w \in BOOLEAN PROVE Below(w, a, a)
BY DEF ReadFrom, Below, Ver!metaIsLessThanOrEqual

LEMMA LessThanOrEqualForm ==
  ASSUME NEW a \in Objects, NEW b \in Objects, NEW w \in BOOLEAN
  PROVE  Ver!LessThanOrEqual(w, a, b) <=> Below(w, a, b)
<1>1. ReadFrom(a) /\ (a.text = b.text => a = b)
  BY ObjectsRead, SameText, Zenon
<1>2. Ver!LessThanOrEqual(w, a, b) <=> (w /\ a.text = b.text) \/ Below(w, a, b)
  BY Zenon DEF Ver!LessThanOrEqual, Below
<1>3. QED
  BY <1>1, <1>2, BelowSelf, Zenon

LEMMA BelowTransitive ==
  ASSUME NEW a, NEW b, NEW c, ReadFrom(a), ReadFrom(b), ReadFrom(c), NEW w \in BOOLEAN,
         Below(w, a, b), Below(w, b, c)
  PROVE  Below(w, a, c)
<1>1. /\ a.Major \in Nat /\ a.Minor \in Nat /\ a.Bugfix \in Nat /\ a.Meta \in Nat
      /\ b.Major \in Nat /\ b.Minor \in Nat /\ b.Bugfix \in Nat /\ b.Meta \in Nat
      /\ c.Major \in Nat /\ c.Minor \in Nat /\ c.Bugfix \in Nat /\ c.Meta \in Nat
  BY Zenon DEF ReadFrom
<1>2. QED
  BY <1>1 DEF Below, Ver!metaIsLessThanOrEqual

\* Where the first difference is decides, with and without the meta part.
LEMMA BelowIsOrder ==
  ASSUME NEW a, NEW b, ReadFrom(a), ReadFrom(b)
  PROVE  /\ Below(FALSE, a, b) <=> Ver!Difference(a, b) <= 0
         /\ Below(TRUE, a, b) => Ver!Difference(a, b) <= 0
         /\ Ver!LessThanMajorMinor(a, b) =>
              Ver!Difference(a, b) < 0 /\ ~Ver!LessThanMajorMinor(b, a)
         /\ Ver!Difference(a, b) = 0 /\ a.Meta # 0 /\ b.Meta = 0 =>
              Below(TRUE, a, b) /\ ~Below(TRUE, b, a)
<1>1. /\ a.Major \in Nat /\ a.Minor \in Nat /\ a.Bugfix \in Nat
      /\ b.Major \in Nat /\ b.Minor \in Nat /\ b.Bugfix \in Nat
  BY Zenon DEF ReadFrom
<1> DEFINE d == Ver!Difference(a, b)
<1>2. /\ a.Major # b.Major => d = a.Major - b.Major
      /\ a.Major = b.Major /\ a.Minor # b.Minor => d = a.Minor - b.Minor
      /\ a.Major = b.Major /\ a.Minor = b.Minor => d = a.Bugfix - b.Bugfix
  BY DifferenceCases, Zenon
<1> HIDE DEF d
<1>3. /\ d \in Int
      /\ d <= 0 <=> \/ a.Major < b.Major
                    \/ a.Major = b.Major /\ a.Minor < b.Minor
                    \/ a.Major = b.Major /\ a.Minor = b.Minor /\ a.Bugfix <= b.Bugfix
      /\ d = 0 => a.Major = b.Major /\ a.Minor = b.Minor /\ a.Bugfix = b.Bugfix
  BY <1>1, <1>2
<1>4. (Below(FALSE, a, b) <=> d <= 0) /\ (Below(TRUE, a, b) => d <= 0)
  BY <1>1, <1>3 DEF Below
<1>5. Ver!LessThanMajorMinor(a, b) => d < 0 /\ ~Ver!LessThanMajorMinor(b, a)
  BY <1>1, <1>2 DEF Ver!LessThanMajorMinor
<1>6. d = 0 /\ a.Meta # 0 /\ b.Meta = 0 => Below(TRUE, a, b) /\ ~Below(TRUE, b, a)
  BY <1>1, <1>3 DEF Below, Ver!metaIsLessThanOrEqual
<1>7. QED
  BY <1>4, <1>5, <1>6, Zenon DEF d

LEMMA VersionInvOrders == VersionInv => VersionsOrdered
<1> SUFFICES ASSUME VersionInv PROVE VersionsOrdered
  OBVIOUS
<1>1. left \in Objects /\ right \in Objects /\ ReadFrom(left) /\ ReadFrom(right)
  BY ObjectsRead, Zenon DEF VersionInv
<1>2. Ver!Parsed
  BY <1>1, Zenon DEF Ver!Parsed, ReadFrom
<1>3. Ver!OrderIsTransitive
  <2> SUFFICES ASSUME NEW w \in BOOLEAN, NEW c \in Ver!Versions,
                      Ver!LessThanOrEqual(w, left, right), Ver!LessThanOrEqual(w, right, c)
               PROVE  Ver!LessThanOrEqual(w, left, c)
    BY Zenon DEF Ver!OrderIsTransitive
  <2>1. c \in Objects /\ ReadFrom(c)
    BY ObjectsRead, Zenon DEF Objects
  <2>2. Below(w, left, right) /\ Below(w, right, c)
    BY <1>1, <2>1, LessThanOrEqualForm, Zenon
  <2>3. Below(w, left, c)
    BY <1>1, <2>1, <2>2, BelowTransitive, ZenonT(30)
  <2>4. QED
    BY <1>1, <2>1, <2>3, LessThanOrEqualForm, Zenon
<1>4. \A w \in BOOLEAN : /\ Ver!LessThanOrEqual(w, left, right) <=> Below(w, left, right)
                         /\ Ver!LessThanOrEqual(w, right, left) <=> Below(w, right, left)
  BY <1>1, LessThanOrEqualForm, Zenon
<1>5. Ver!PreReleaseFirst /\ Ver!ComparesInOrder
  BY <1>1, <1>4, BelowIsOrder, Zenon DEF Ver!PreReleaseFirst, Ver!ComparesInOrder
<1>6. QED
  BY <1>2, <1>3, <1>5, Zenon DEF VersionsOrdered, Ver!OrderExact

\* However often versions are unmarshalled, from whatever texts, an object is the
\* zero value or what its whole text says, and the comparisons are an order that
\* agrees with the numbers (version.go:47-188).
THEOREM VersionsAlwaysOrdered == Ver!Spec => []VersionsOrdered
BY VersionInitInv, VersionStepInv, VersionInvOrders, PTL DEF Ver!Spec

-----------------------------------------------------------------------------
(* Namespaces.                                                             *)

\* While Unpack reads, the enabled sections it has seen are the one it found.
NamespaceInv ==
  /\ unread \subseteq DOMAIN sections
  /\ "" \notin DOMAIN sections
  /\ found \in BOOLEAN
  /\ found => ns \in Conf!Enabled \ unread
  /\ outcome = "" => /\ Conf!Enabled \ unread \subseteq {ns}
                     /\ Conf!Enabled \ unread # {} => found
  /\ childErr => \E f \in DOMAIN sections : sections[f] = "value"
  /\ Conf!NamespaceExact

LEMMA NamespaceInitInv == Conf!Init => NamespaceInv
<1> SUFFICES ASSUME Conf!Init PROVE NamespaceInv
  OBVIOUS
<1>1. /\ sections = Conf!NoSections /\ unread = {} /\ childErr = FALSE /\ found = FALSE
      /\ outcome = "ok"
  BY Zenon DEF Conf!Init
<1>2. DOMAIN sections = {} /\ Conf!Enabled = {}
  BY <1>1 DEF Conf!NoSections, Conf!Enabled
<1>3. Conf!NamespaceExact
  BY <1>1, <1>2 DEF Conf!NamespaceExact
<1>4. QED
  BY <1>1, <1>2, <1>3, Zenon DEF NamespaceInv

LEMMA UnpackInv == ASSUME NamespaceInv, NEW cfg \in Sections, Conf!Unpack(cfg) PROVE NamespaceInv'
<1>1. /\ sections' = cfg /\ unread' = DOMAIN cfg /\ childErr' = FALSE /\ found' = FALSE
      /\ outcome' = IF DOMAIN cfg = {} THEN "ok" ELSE ""
  BY Zenon DEF Conf!Unpack
<1>2. "" \notin DOMAIN sections'
  BY <1>1, DataAssumption, Zenon
<1>3. Conf!Enabled' \ unread' = {} /\ Conf!Enabled' \subseteq DOMAIN cfg
  BY <1>1, Zenon DEF Conf!Enabled
<1>4. Conf!NamespaceExact'
  <2>1. outcome' # "error" /\ (outcome' = "ok" => DOMAIN cfg = {})
    BY <1>1, Zenon
  <2>2. QED
    BY <1>1, <1>3, <2>1, Zenon DEF Conf!NamespaceExact
<1>5. QED
  BY <1>1, <1>2, <1>3, <1>4, Zenon DEF NamespaceInv

LEMMA UnpackFieldInv ==
  ASSUME NamespaceInv, NEW f \in DOMAIN sections, Conf!UnpackField(f)
  PROVE  NamespaceInv'
<1>1. /\ outcome = "" /\ f \in unread /\ unread' = unread \ {f} /\ sections' = sections
      /\ childErr' = (sections[f] = "value")
  BY Zenon DEF Conf!UnpackField
<1>2. Conf!Enabled' = Conf!Enabled /\ (f \in Conf!Enabled <=> sections[f] = "enabled")
  BY <1>1, Zenon DEF Conf!Enabled
<1>3. childErr' => \E g \in DOMAIN sections' : sections'[g] = "value"
  BY <1>1, Zenon
<1>4. unread' \subseteq DOMAIN sections' /\ "" \notin DOMAIN sections' /\ "" \notin Conf!Enabled
  BY <1>1, Zenon DEF NamespaceInv, Conf!Enabled
<1>5. CASE sections[f] # "enabled"
  <2>1. UNCHANGED <<found, ns, outcome>>
    BY <1>5, Zenon DEF Conf!UnpackField
  <2>2. Conf!Enabled' \ unread' = Conf!Enabled \ unread
    BY <1>1, <1>2, <1>5, Zenon
  <2>3. Conf!NamespaceExact'
    BY <1>1, <1>2, <2>1, Zenon DEF NamespaceInv, Conf!NamespaceExact
  <2>4. QED
    BY <1>3, <1>4, <2>1, <2>2, <2>3, Zenon DEF NamespaceInv
<1>6. CASE sections[f] = "enabled" /\ ns = ""
  <2>1. ns' = f /\ found' = TRUE /\ outcome' = ""
    BY <1>1, <1>6, Zenon DEF Conf!UnpackField, Conf!Another
  <2>2. Conf!Enabled \ unread = {}
    BY <1>1, <1>4, <1>6, Zenon DEF NamespaceInv
  <2>3. Conf!Enabled' \ unread' = {f}
    BY <1>1, <1>2, <1>6, <2>2, Zenon
  <2>4. Conf!NamespaceExact'
    BY <1>2, <1>6, <2>1, Zenon DEF Conf!NamespaceExact
  <2>5. QED
    BY <1>3, <1>4, <2>1, <2>3, <2>4, Zenon DEF NamespaceInv
<1>7. CASE sections[f] = "enabled" /\ ns # ""
  <2>1. outcome' = "error" /\ UNCHANGED <<found, ns>>
    BY <1>1, <1>7, Zenon DEF Conf!UnpackField, Conf!Another
  <2>2. found => ns \in Conf!Enabled \ unread' /\ ns # f
    BY <1>1, Zenon DEF NamespaceInv
  <2>3. Conf!NamespaceExact'
    <3>1. (\E g, h \in Conf!Enabled : g # h) \/ (Conf!Enabled # {} /\ ~found /\ ns # "")
      BY <1>2, <1>7, <2>2, Zenon
    <3>2. outcome' # "ok"
      BY <2>1
    <3>3. QED
      BY <1>2, <2>1, <2>2, <3>1, <3>2, Zenon DEF Conf!NamespaceExact
  <2>4. outcome' # ""
    BY <2>1
  <2>5. QED
    BY <1>2, <1>3, <1>4, <2>1, <2>2, <2>3, <2>4, Zenon DEF NamespaceInv
<1>8. QED
  BY <1>5, <1>6, <1>7, Zenon

LEMMA UnpackEndsInv == ASSUME NamespaceInv, Conf!UnpackEnds PROVE NamespaceInv'
<1>1. /\ outcome = "" /\ unread = {} /\ UNCHANGED <<sections, unread, childErr, found, ns>>
      /\ outcome' = IF ~found /\ childErr THEN "error" ELSE "ok"
  BY Zenon DEF Conf!UnpackEnds
<1>2. Conf!Enabled' = Conf!Enabled /\ Conf!Enabled \subseteq {ns} /\ (Conf!Enabled # {} => found)
  BY <1>1, Zenon DEF NamespaceInv, Conf!Enabled
<1>3. outcome' # "" /\ (outcome' = "error" => ~found /\ childErr)
  BY <1>1, Zenon
<1>4. Conf!NamespaceExact'
  BY <1>1, <1>2, <1>3, Zenon DEF NamespaceInv, Conf!NamespaceExact
<1>5. QED
  BY <1>1, <1>2, <1>3, <1>4, Zenon DEF NamespaceInv

-----------------------------------------------------------------------------
(* Flags.                                                                  *)

LEMMA SeqGrows ==
  ASSUME NEW S, NEW s \in Seq(S), NEW x \in S
  PROVE  /\ Append(s, x) \in Seq(S) /\ Append(s, x) # << >>
         /\ Len(s) \in Nat /\ DOMAIN s = 1 .. Len(s) /\ DOMAIN Append(s, x) = 1 .. Len(s) + 1
         /\ \A k \in 1 .. Len(s) : Append(s, x)[k] = s[k]
         /\ Append(s, x)[Len(s) + 1] = x
OBVIOUS

LEMMA ValuesGrow ==
  \A s \in Seq(FlagValues) : \A x \in FlagValues :
    /\ Append(s, x) \in Seq(FlagValues) /\ Append(s, x) # << >>
    /\ Len(s) \in Nat /\ DOMAIN s = 1 .. Len(s) /\ DOMAIN Append(s, x) = 1 .. Len(s) + 1
    /\ \A k \in 1 .. Len(s) : Append(s, x)[k] = s[k]
    /\ Append(s, x)[Len(s) + 1] = x
BY SeqGrows

LEMMA Single ==
  ASSUME NEW S, NEW x \in S
  PROVE  <<x>> \in Seq(S) /\ DOMAIN <<x>> = {1} /\ <<x>>[1] = x /\ <<x>> = Append(<< >>, x)
OBVIOUS

\* at[i] is when the i-th value of l was used first in h.
FirstUsedAt(at, l, h) ==
  /\ at \in [DOMAIN l -> DOMAIN h]
  /\ \A i, j \in DOMAIN l : i < j => at[i] < at[j]
  /\ \A i \in DOMAIN l : l[i] = h[at[i]]
  /\ \A k \in DOMAIN h :
       (\E i \in DOMAIN l : at[i] = k) <=> \A j \in 1 .. k - 1 : h[j] # h[k]

\* Every value a flag was used with is in its list.
FlagInv ==
  /\ list \in Seq(FlagValues) /\ history \in Seq(FlagValues)
  /\ isDefault <=> history = << >>
  /\ history = << >> => list = default
  /\ history # << >> => /\ \E at : FirstUsedAt(at, list, history)
                        /\ \A k \in DOMAIN history : \E i \in DOMAIN list : list[i] = history[k]

LEMMA FlagInvExact == FlagInv => Conf!FlagExact
BY Zenon DEF FlagInv, Conf!FlagExact, FirstUsedAt

LEMMA FlagInitInv == Conf!Init => FlagInv
<1> SUFFICES ASSUME Conf!Init PROVE FlagInv
  OBVIOUS
<1>1. list = << >> /\ isDefault = TRUE /\ default = << >> /\ history = << >>
  BY Zenon DEF Conf!Init
<1>2. << >> \in Seq(FlagValues)
  OBVIOUS
<1>3. QED
  BY <1>1, <1>2, Zenon DEF FlagInv

LEMMA SetDefaultInv == ASSUME FlagInv, NEW x \in FlagValues, Conf!SetDefault(x) PROVE FlagInv'
<1>1. /\ list' = <<x>> /\ default' = <<x>> /\ isDefault' = TRUE /\ history' = << >>
  BY Zenon DEF Conf!SetDefault
<1>2. << >> \in Seq(FlagValues)
  OBVIOUS
<1>3. QED
  BY <1>1, <1>2, Single, Zenon DEF FlagInv

\* A value that is used again: the list stays.
LEMMA UsedAgain ==
  ASSUME NEW l \in Seq(FlagValues), NEW h \in Seq(FlagValues), NEW x \in FlagValues,
         NEW at, FirstUsedAt(at, l, h), \E i \in DOMAIN l : l[i] = x
  PROVE  FirstUsedAt(at, l, Append(h, x))
<1> DEFINE N == Len(h)
           g == Append(h, x)
<1>1. /\ N \in Nat /\ DOMAIN h = 1 .. N /\ DOMAIN g = 1 .. N + 1
      /\ \A k \in 1 .. N : g[k] = h[k]
      /\ g[N + 1] = x
  BY ValuesGrow, Zenon
<1> HIDE DEF g, N
<1>2. at \in [DOMAIN l -> 1 .. N] /\ \A i \in DOMAIN l : at[i] \in 1 .. N
  BY <1>1, Zenon DEF FirstUsedAt
<1>3. at \in [DOMAIN l -> DOMAIN g]
  BY <1>1, <1>2
<1>4. \A i \in DOMAIN l : l[i] = g[at[i]]
  BY <1>1, <1>2, Zenon DEF FirstUsedAt
<1>5. ASSUME NEW k \in DOMAIN g
      PROVE  (\E i \in DOMAIN l : at[i] = k) <=> \A j \in 1 .. k - 1 : g[j] # g[k]
  <2>1. CASE k \in 1 .. N
    <3>1. \A j \in 1 .. k - 1 : j \in 1 .. N
      BY <1>1, <2>1
    <3>2. (\E i \in DOMAIN l : at[i] = k) <=> \A j \in 1 .. k - 1 : h[j] # h[k]
      BY <1>1, <2>1, Zenon DEF FirstUsedAt
    <3>3. g[k] = h[k] /\ \A j \in 1 .. k - 1 : g[j] = h[j]
      BY <1>1, <2>1, <3>1, Zenon
    <3>4. QED
      BY <3>2, <3>3, Zenon
  <2>2. CASE k = N + 1
    <3>1. \A i \in DOMAIN l : at[i] # k
      BY <1>1, <1>2, <2>2
    <3>2. PICK i \in DOMAIN l : l[i] = x
      OBVIOUS
    <3>3. at[i] \in 1 .. k - 1
      BY <1>1, <1>2, <2>2
    <3>4. g[at[i]] = g[k]
      BY <1>1, <1>4, <2>2, <3>2, Zenon
    <3>5. QED
      BY <3>1, <3>3, <3>4, Zenon
  <2>3. k \in 1 .. N \/ k = N + 1
    BY <1>1
  <2>4. QED
    BY <2>1, <2>2, <2>3, Zenon
<1>6. QED
  BY <1>3, <1>4, <1>5, Zenon DEF FirstUsedAt, g

\* A value that is used for the first time: it comes last.
LEMMA UsedFirst ==
  ASSUME NEW l \in Seq(FlagValues), NEW h \in Seq(FlagValues), NEW x \in FlagValues,
         NEW at, FirstUsedAt(at, l, h), \A k \in DOMAIN h : h[k] # x
  PROVE  \E b : FirstUsedAt(b, Append(l, x), Append(h, x))
<1> DEFINE N == Len(h)
           M == Len(l)
           g == Append(h, x)
           m == Append(l, x)
           b == [i \in 1 .. M + 1 |-> IF i = M + 1 THEN N + 1 ELSE at[i]]
<1>1. /\ N \in Nat /\ DOMAIN h = 1 .. N /\ DOMAIN g = 1 .. N + 1
      /\ \A k \in 1 .. N : g[k] = h[k]
      /\ g[N + 1] = x
  BY ValuesGrow, Zenon
<1>2. /\ M \in Nat /\ DOMAIN l = 1 .. M /\ DOMAIN m = 1 .. M + 1
      /\ \A k \in 1 .. M : m[k] = l[k]
      /\ m[M + 1] = x
  BY ValuesGrow, Zenon
<1> HIDE DEF g, m, N, M
<1>3. \A i \in 1 .. M : at[i] \in 1 .. N
  BY <1>1, <1>2, Zenon DEF FirstUsedAt
<1>4. /\ b[M + 1] = N + 1 /\ \A i \in 1 .. M : b[i] = at[i]
      /\ \A i \in 1 .. M + 1 : i \in 1 .. M \/ i = M + 1
  BY <1>2
<1>5. b \in [DOMAIN m -> DOMAIN g]
  BY <1>1, <1>2, <1>3
<1> HIDE DEF b
<1>6. \A i, j \in DOMAIN m : i < j => b[i] < b[j]
  <2> SUFFICES ASSUME NEW i \in 1 .. M + 1, NEW j \in 1 .. M + 1, i < j PROVE b[i] < b[j]
    BY <1>2, Zenon
  <2>1. i \in 1 .. M /\ b[i] = at[i] /\ at[i] \in 1 .. N
    BY <1>2, <1>3, <1>4
  <2>2. CASE j \in 1 .. M
    BY <1>2, <1>4, <2>1, <2>2, Zenon DEF FirstUsedAt
  <2>3. CASE j = M + 1
    BY <1>1, <1>4, <2>1, <2>3
  <2>4. QED
    BY <1>4, <2>2, <2>3, Zenon
<1>7. \A i \in DOMAIN m : m[i] = g[b[i]]
  <2> SUFFICES ASSUME NEW i \in 1 .. M + 1 PROVE m[i] = g[b[i]]
    BY <1>2, Zenon
  <2>1. CASE i \in 1 .. M
    <3>1. l[i] = h[at[i]] /\ g[at[i]] = h[at[i]]
      BY <1>1, <1>2, <1>3, <2>1, Zenon DEF FirstUsedAt
    <3>2. QED
      BY <1>2, <1>4, <2>1, <3>1, Zenon
  <2>2. CASE i = M + 1
    BY <1>1, <1>2, <1>4, <2>2, Zenon
  <2>3. QED
    BY <1>4, <2>1, <2>2, Zenon
<1>8. ASSUME NEW k \in DOMAIN g
      PROVE  (\E i \in DOMAIN m : b[i] = k) <=> \A j \in 1 .. k - 1 : g[j] # g[k]
  <2>1. CASE k \in 1 .. N
    <3>1. \A j \in 1 .. k - 1 : j \in 1 .. N
      BY <1>1, <2>1
    <3>2. k # N + 1 /\ 1 .. M \subseteq 1 .. M + 1
      BY <1>1, <1>2, <2>1
    <3>3. (\E i \in DOMAIN m : b[i] = k) <=> \E i \in DOMAIN l : at[i] = k
      BY <1>2, <1>4, <3>2, Zenon
    <3>4. (\E i \in DOMAIN l : at[i] = k) <=> \A j \in 1 .. k - 1 : h[j] # h[k]
      BY <1>1, <2>1, Zenon DEF FirstUsedAt
    <3>5. g[k] = h[k] /\ \A j \in 1 .. k - 1 : g[j] = h[j]
      BY <1>1, <2>1, <3>1, Zenon
    <3>6. QED
      BY <3>3, <3>4, <3>5, Zenon
  <2>2. CASE k = N + 1
    <3>1. M + 1 \in DOMAIN m /\ b[M + 1] = k
      BY <1>2, <1>4, <2>2
    <3>2. \A j \in 1 .. k - 1 : j \in 1 .. N
      BY <1>1, <2>2
    <3>3. QED
      BY <1>1, <2>2, <3>1, <3>2, Zenon
  <2>3. k \in 1 .. N \/ k = N + 1
    BY <1>1
  <2>4. QED
    BY <2>1, <2>2, <2>3, Zenon
<1>9. FirstUsedAt(b, m, g)
  BY <1>5, <1>6, <1>7, <1>8, Zenon DEF FirstUsedAt
<1>10. QED
  BY <1>9, Zenon DEF m, g

LEMMA SetInv == ASSUME FlagInv, NEW x \in FlagValues, Conf!Set(x) PROVE FlagInv'
<1>1. /\ list' = IF isDefault THEN <<x>> ELSE Conf!AppendNew(x)
      /\ isDefault' = FALSE /\ history' = Append(history, x)
  BY Zenon DEF Conf!Set
<1>2. /\ list \in Seq(FlagValues) /\ history \in Seq(FlagValues)
      /\ isDefault <=> history = << >>
  BY Zenon DEF FlagInv
<1> DEFINE N == Len(history)
           M == Len(list)
<1>3. /\ history' \in Seq(FlagValues) /\ history' # << >>
      /\ DOMAIN history = 1 .. N /\ DOMAIN history' = 1 .. N + 1 /\ N \in Nat
      /\ \A k \in 1 .. N : history'[k] = history[k]
      /\ history'[N + 1] = x
  BY <1>1, <1>2, ValuesGrow, Zenon
<1>4. SUFFICES /\ list' \in Seq(FlagValues)
               /\ \E at : FirstUsedAt(at, list', history')
               /\ \A k \in DOMAIN history' : \E i \in DOMAIN list' : list'[i] = history'[k]
  BY <1>1, <1>3, Zenon DEF FlagInv
<1>5. \A k \in 1 .. N + 1 : k \in 1 .. N \/ k = N + 1
  BY <1>3
<1>6. CASE isDefault
  <2> DEFINE at == [i \in {1} |-> 1]
  <2>1. list' = <<x>> /\ history' = <<x>>
    BY <1>1, <1>2, <1>6, Single, Zenon
  <2>2. <<x>> \in Seq(FlagValues) /\ DOMAIN <<x>> = {1} /\ <<x>>[1] = x
    BY Single, Zenon
  <2>3. at \in [{1} -> {1}] /\ at[1] = 1
    BY Zenon
  <2>4. \A i, j \in {1} : ~(i < j) /\ 1 .. i - 1 = {}
    OBVIOUS
  <2> HIDE DEF at
  <2>5. FirstUsedAt(at, <<x>>, <<x>>)
    BY <2>2, <2>3, <2>4, Zenon DEF FirstUsedAt
  <2>6. QED
    BY <2>1, <2>2, <2>5, Zenon
<1>7. ASSUME ~isDefault, NEW e \in DOMAIN list, list[e] = x
      PROVE  /\ list' \in Seq(FlagValues)
             /\ \E at : FirstUsedAt(at, list', history')
             /\ \A k \in DOMAIN history' : \E i \in DOMAIN list' : list'[i] = history'[k]
  <2>1. list' = list
    BY <1>1, <1>7, Zenon DEF Conf!AppendNew
  <2>2. PICK at : FirstUsedAt(at, list, history)
    BY <1>2, <1>7, Zenon DEF FlagInv
  <2>3. FirstUsedAt(at, list', history')
    BY <1>1, <1>2, <1>7, <2>1, <2>2, UsedAgain, Zenon
  <2>4. \A k \in 1 .. N : \E i \in DOMAIN list : list[i] = history[k]
    BY <1>2, <1>3, <1>7, Zenon DEF FlagInv
  <2>5. QED
    BY <1>2, <1>3, <1>5, <1>7, <2>1, <2>3, <2>4, Zenon
<1>8. ASSUME ~isDefault, \A e \in DOMAIN list : list[e] # x
      PROVE  /\ list' \in Seq(FlagValues)
             /\ \E at : FirstUsedAt(at, list', history')
             /\ \A k \in DOMAIN history' : \E i \in DOMAIN list' : list'[i] = history'[k]
  <2>1. list' = Append(list, x)
    BY <1>1, <1>8, Zenon DEF Conf!AppendNew
  <2>2. /\ list' \in Seq(FlagValues) /\ M \in Nat
        /\ DOMAIN list = 1 .. M /\ DOMAIN list' = 1 .. M + 1
        /\ \A k \in 1 .. M : list'[k] = list[k]
        /\ list'[M + 1] = x
    BY <1>2, <2>1, ValuesGrow, Zenon
  <2>3. \A k \in 1 .. N : \E i \in 1 .. M : list[i] = history[k]
    BY <1>2, <1>3, <1>8, <2>2, Zenon DEF FlagInv
  <2>4. \A k \in DOMAIN history : history[k] # x
    BY <1>3, <1>8, <2>2, <2>3, Zenon
  <2>5. PICK at : FirstUsedAt(at, list, history)
    BY <1>2, <1>8, Zenon DEF FlagInv
  <2>6. \E b : FirstUsedAt(b, list', history')
    BY <1>1, <1>2, <2>1, <2>4, <2>5, UsedFirst, Zenon
  <2>7. M + 1 \in 1 .. M + 1 /\ 1 .. M \subseteq 1 .. M + 1
    BY <2>2
  <2>8. ASSUME NEW k \in DOMAIN history' PROVE \E i \in DOMAIN list' : list'[i] = history'[k]
    <3>1. CASE k = N + 1
      BY <1>3, <2>2, <2>7, <3>1, Zenon
    <3>2. CASE k \in 1 .. N
      <4>1. PICK i \in 1 .. M : list[i] = history[k]
        BY <2>3, <3>2, Zenon
      <4>2. QED
        BY <1>3, <2>2, <2>7, <3>2, <4>1, Zenon
    <3>3. QED
      BY <1>3, <1>5, <3>1, <3>2, Zenon
  <2>9. QED
    BY <2>2, <2>6, <2>8, Zenon
<1>9. QED
  BY <1>6, <1>7, <1>8, Zenon

-----------------------------------------------------------------------------
(* The options of merges.                                                  *)

Arrays == [spare : BOOLEAN, behind : Mergers \union {"none"}]

\* A merger keeps the array it got, and arrays only come to be.
OptionsInv ==
  /\ arrays \in Seq(Arrays)
  /\ Len(arrays) > 0
  /\ merging \in [Mergers -> [at : {"idle", "got", "appended"}, array : Nat,
                              used : Mergers \union {"none"}]]
  /\ \A m \in Mergers : merging[m].array \in 1 .. Len(arrays)
  /\ Conf!OwnOptions

LEMMA OptionsInitInv == Conf!Init => OptionsInv
<1> SUFFICES ASSUME Conf!Init PROVE OptionsInv
  OBVIOUS
<1>1. /\ arrays = <<[spare |-> FALSE, behind |-> "none"]>>
      /\ merging = [m \in Mergers |-> [at |-> "idle", array |-> 1, used |-> "none"]]
  BY Zenon DEF Conf!Init
<1>2. arrays \in Seq(Arrays) /\ Len(arrays) = 1
  BY <1>1 DEF Arrays
<1>3. /\ merging \in [Mergers -> [at : {"idle", "got", "appended"}, array : Nat,
                                  used : Mergers \union {"none"}]]
      /\ \A m \in Mergers : merging[m].array = 1 /\ merging[m].used = "none"
  BY <1>1
<1>4. QED
  BY <1>2, <1>3 DEF OptionsInv, Conf!OwnOptions

LEMMA OverwriteInv ==
  ASSUME OptionsInv, NEW spare \in BOOLEAN, Conf!OverwriteConfigOpts(spare)
  PROVE  OptionsInv'
<1> DEFINE new == [spare |-> spare, behind |-> "none"]
<1>1. arrays' = Append(arrays, new) /\ merging' = merging
  BY Zenon DEF Conf!OverwriteConfigOpts
<1>2. new \in Arrays
  BY DEF Arrays
<1> HIDE DEF new
<1>3. /\ arrays' \in Seq(Arrays) /\ Len(arrays) \in Nat /\ Len(arrays') = Len(arrays) + 1
      /\ \A k \in 1 .. Len(arrays) : arrays'[k] = arrays[k]
  BY <1>1, <1>2 DEF OptionsInv
<1>4. 1 .. Len(arrays) \subseteq 1 .. Len(arrays') /\ Len(arrays') > 0
  BY <1>3
<1>5. Conf!OwnOptions'
  BY <1>1, <1>3, Zenon DEF OptionsInv, Conf!OwnOptions
<1>6. QED
  BY <1>1, <1>3, <1>4, <1>5, Zenon DEF OptionsInv

\* A step of one merger, which gets an array, leaves it at that, or merges.
LEMMA MergerInv ==
  ASSUME OptionsInv, NEW m \in Mergers,
         Conf!MergeWithOpts(m) \/ Conf!AppendOptions(m) \/ Conf!Merge(m)
  PROVE  OptionsInv'
<1> DEFINE array == merging[m].array
           Mergings == [at : {"idle", "got", "appended"}, array : Nat, used : Mergers \union {"none"}]
<1>0. /\ arrays \in Seq(Arrays) /\ Len(arrays) \in Nat /\ Len(arrays) > 0
      /\ merging \in [Mergers -> Mergings] /\ merging[m] \in Mergings
      /\ array \in 1 .. Len(arrays) /\ arrays[array] \in Arrays
  BY DEF OptionsInv
<1>1. CASE Conf!MergeWithOpts(m)
  <2>1. /\ merging' = [merging EXCEPT ![m] = [at |-> "got", array |-> Len(arrays), used |-> "none"]]
        /\ arrays' = arrays
    BY <1>1, Zenon DEF Conf!MergeWithOpts
  <2>2. merging' \in [Mergers -> Mergings]
    BY <1>0, <2>1
  <2>3. ASSUME NEW o \in Mergers
        PROVE  /\ merging'[o].array \in 1 .. Len(arrays')
               /\ merging'[o].used \in {"none", o} \/ arrays'[merging'[o].array].spare
    BY <1>0, <2>1 DEF OptionsInv, Conf!OwnOptions
  <2>4. QED
    BY <1>0, <2>1, <2>2, <2>3, Zenon DEF OptionsInv, Conf!OwnOptions
<1>2. CASE Conf!AppendOptions(m)
  <2>1. /\ merging' = [merging EXCEPT ![m].at = "appended"]
        /\ arrays' = IF arrays[array].spare THEN [arrays EXCEPT ![array].behind = m] ELSE arrays
    BY <1>2, Zenon DEF Conf!AppendOptions, Conf!Shares
  <2>2. /\ merging' \in [Mergers -> Mergings]
        /\ \A o \in Mergers : merging'[o].array = merging[o].array /\ merging'[o].used = merging[o].used
    BY <1>0, <2>1
  <2>3. /\ arrays' \in Seq(Arrays) /\ Len(arrays') = Len(arrays)
        /\ \A k \in 1 .. Len(arrays) : arrays'[k].spare = arrays[k].spare
    <3>1. [arrays[array] EXCEPT !.behind = m] \in Arrays
      BY <1>0 DEF Arrays
    <3>2. [arrays[array] EXCEPT !.behind = m].spare = arrays[array].spare
      BY <1>0 DEF Arrays
    <3>3. \A e \in Arrays : [arrays EXCEPT ![array] = e] \in Seq(Arrays)
                           /\ Len([arrays EXCEPT ![array] = e]) = Len(arrays)
                           /\ [arrays EXCEPT ![array] = e][array] = e
                           /\ \A k \in 1 .. Len(arrays) :
                                k # array => [arrays EXCEPT ![array] = e][k] = arrays[k]
      BY <1>0
    <3>4. CASE arrays[array].spare
      <4>1. arrays' = [arrays EXCEPT ![array] = [arrays[array] EXCEPT !.behind = m]]
        BY <2>1, <3>4
      <4>2. QED
        BY <3>1, <3>2, <3>3, <4>1, ZenonT(30)
    <3>5. CASE ~arrays[array].spare
      BY <1>0, <2>1, <3>5, Zenon
    <3>6. QED
      BY <3>4, <3>5, Zenon
  <2>4. QED
    BY <1>0, <2>2, <2>3, Zenon DEF OptionsInv, Conf!OwnOptions
<1>3. CASE Conf!Merge(m)
  <2>1. /\ merging' = [merging EXCEPT ![m].at = "idle",
                                     ![m].used = IF arrays[array].spare THEN arrays[array].behind ELSE m]
        /\ arrays' = arrays
    BY <1>3, Zenon DEF Conf!Merge, Conf!Shares
  <2>2. merging' \in [Mergers -> Mergings]
    BY <1>0, <2>1, Zenon DEF Arrays
  <2>3. ASSUME NEW o \in Mergers
        PROVE  /\ merging'[o].array \in 1 .. Len(arrays')
               /\ merging'[o].used \in {"none", o} \/ arrays'[merging'[o].array].spare
    <3>1. CASE o = m
      BY <1>0, <2>1, <3>1 DEF OptionsInv
    <3>2. CASE o # m
      BY <1>0, <2>1, <3>2 DEF OptionsInv, Conf!OwnOptions
    <3>3. QED
      BY <3>1, <3>2, Zenon
  <2>4. QED
    BY <1>0, <2>1, <2>2, <2>3, Zenon DEF OptionsInv, Conf!OwnOptions
<1>4. QED
  BY <1>1, <1>2, <1>3, Zenon

-----------------------------------------------------------------------------
(* Every step works on one of the three.                                   *)

LEMMA OthersSame ==
  /\ NamespaceInv /\ UNCHANGED Conf!nameVars => NamespaceInv'
  /\ FlagInv /\ UNCHANGED Conf!flagVars => FlagInv'
  /\ OptionsInv /\ UNCHANGED Conf!mergeVars => OptionsInv'
<1>1. NamespaceInv /\ UNCHANGED Conf!nameVars => NamespaceInv'
  <2> SUFFICES ASSUME NamespaceInv, UNCHANGED Conf!nameVars PROVE NamespaceInv'
    OBVIOUS
  <2>1. UNCHANGED <<sections, unread, childErr, found, ns, outcome>>
    BY DEF Conf!nameVars
  <2>2. Conf!Enabled' = Conf!Enabled
    BY <2>1, Zenon DEF Conf!Enabled
  <2>3. Conf!NamespaceExact'
    BY <2>1, <2>2, Zenon DEF NamespaceInv, Conf!NamespaceExact
  <2>4. QED
    BY <2>1, <2>2, <2>3, Zenon DEF NamespaceInv
<1>2. FlagInv /\ UNCHANGED Conf!flagVars => FlagInv'
  <2> SUFFICES ASSUME FlagInv, UNCHANGED Conf!flagVars PROVE FlagInv'
    OBVIOUS
  <2>1. UNCHANGED <<list, isDefault, default, history>>
    BY DEF Conf!flagVars
  <2>2. QED
    BY <2>1, Zenon DEF FlagInv
<1>3. OptionsInv /\ UNCHANGED Conf!mergeVars => OptionsInv'
  BY Zenon DEF OptionsInv, Conf!OwnOptions, Conf!mergeVars
<1>4. QED
  BY <1>1, <1>2, <1>3, Zenon

ConfigInv == NamespaceInv /\ FlagInv /\ OptionsInv

LEMMA ConfigStepInv == ConfigInv /\ [Conf!Next]_(Conf!vars) => ConfigInv'
<1> SUFFICES ASSUME ConfigInv, [Conf!Next]_(Conf!vars) PROVE ConfigInv'
  OBVIOUS
<1>0. NamespaceInv /\ FlagInv /\ OptionsInv
  BY Zenon DEF ConfigInv
<1>1. ASSUME NEW cfg \in Sections, Conf!Unpack(cfg) PROVE ConfigInv'
  <2>1. UNCHANGED Conf!flagVars /\ UNCHANGED Conf!mergeVars
    BY <1>1, Zenon DEF Conf!Unpack
  <2>2. QED
    BY <1>0, <1>1, <2>1, UnpackInv, OthersSame, Zenon DEF ConfigInv
<1>2. ASSUME NEW f \in DOMAIN sections, Conf!UnpackField(f) PROVE ConfigInv'
  <2>1. UNCHANGED Conf!flagVars /\ UNCHANGED Conf!mergeVars
    BY <1>2, Zenon DEF Conf!UnpackField
  <2>2. QED
    BY <1>0, <1>2, <2>1, UnpackFieldInv, OthersSame, Zenon DEF ConfigInv
<1>3. CASE Conf!UnpackEnds
  <2>1. UNCHANGED Conf!flagVars /\ UNCHANGED Conf!mergeVars
    BY <1>3, Zenon DEF Conf!UnpackEnds
  <2>2. QED
    BY <1>0, <1>3, <2>1, UnpackEndsInv, OthersSame, Zenon DEF ConfigInv
<1>4. ASSUME NEW x \in FlagValues, Conf!SetDefault(x) \/ Conf!Set(x) PROVE ConfigInv'
  <2>1. UNCHANGED Conf!nameVars /\ UNCHANGED Conf!mergeVars
    BY <1>4, Zenon DEF Conf!SetDefault, Conf!Set
  <2>2. QED
    BY <1>0, <1>4, <2>1, SetDefaultInv, SetInv, OthersSame, Zenon DEF ConfigInv
<1>5. ASSUME NEW spare \in BOOLEAN, Conf!OverwriteConfigOpts(spare) PROVE ConfigInv'
  <2>1. UNCHANGED Conf!nameVars /\ UNCHANGED Conf!flagVars
    BY <1>5, Zenon DEF Conf!OverwriteConfigOpts
  <2>2. QED
    BY <1>0, <1>5, <2>1, OverwriteInv, OthersSame, Zenon DEF ConfigInv
<1>6. ASSUME NEW m \in Mergers, Conf!MergeWithOpts(m) \/ Conf!AppendOptions(m) \/ Conf!Merge(m)
      PROVE  ConfigInv'
  <2>1. UNCHANGED Conf!nameVars /\ UNCHANGED Conf!flagVars
    BY <1>6, Zenon DEF Conf!MergeWithOpts, Conf!AppendOptions, Conf!Merge
  <2>2. QED
    BY <1>0, <1>6, <2>1, MergerInv, OthersSame, Zenon DEF ConfigInv
<1>7. CASE UNCHANGED Conf!vars
  <2>1. UNCHANGED Conf!nameVars /\ UNCHANGED Conf!flagVars /\ UNCHANGED Conf!mergeVars
    BY <1>7 DEF Conf!vars, Conf!nameVars, Conf!flagVars, Conf!mergeVars
  <2>2. QED
    BY <1>0, <2>1, OthersSame, Zenon DEF ConfigInv
<1>8. QED
  BY <1>1, <1>2, <1>3, <1>4, <1>5, <1>6, <1>7, Zenon DEF Conf!Next

\* For any configurations, flags and goroutines that merge: a namespace holds the
\* one section that is enabled, whatever order its fields come in; a flag has the
\* values it was used with, each once, in the order of their first use; and a merge
\* uses its own options unless the global slice had room to spare
\* (src/config/config.go and flags.go).
THEOREM SettingsAlwaysExact == Conf!Spec => []SettingsExact
<1>1. Conf!Init => ConfigInv
  BY NamespaceInitInv, FlagInitInv, OptionsInitInv, Zenon DEF ConfigInv
<1>2. ConfigInv => SettingsExact
  BY FlagInvExact, Zenon DEF ConfigInv, NamespaceInv, OptionsInv, SettingsExact, Conf!SettingsExact
<1>3. QED
  BY <1>1, <1>2, ConfigStepInv, PTL DEF Conf!Spec

-----------------------------------------------------------------------------
(* The file keystore.                                                      *)

\* Every keystore file that a power loss may bring back is whole and synced.
FilesWhole ==
  \A d \in lost : d.path # None => data[d.path].whole /\ d.path \in synced

\* The temporary file is no keystore file that may come back.
TmpApart ==
  /\ \A d \in lost : d.tmp # None => d.tmp # d.path
  /\ dir.tmp # None => \A d \in lost : d.path # dir.tmp
  /\ \A d \in lost : d.path <= opened /\ d.tmp <= opened

\* Where doSave is.
Progress ==
  /\ pc # "idle" => up /\ dirty
  /\ ~up => ~dirty
  /\ pc \in {"write", "sync", "rename"} => dir.tmp # None
  /\ pc \in {"sync", "rename"} =>
       data[dir.tmp] = [whole |-> TRUE, secrets |-> mem]
  /\ pc = "rename" => dir.tmp \in synced
  /\ pc = "syncdir" => dir.path # None /\ data[dir.path].secrets = mem

Inv ==
  /\ TypeOK
  /\ dir \in lost
  /\ FilesWhole
  /\ TmpApart
  /\ Progress
  /\ CleanMeansSaved
  /\ NeverCorrupt

LEMMA NoSecretsType == NoSecrets \in Maps
BY Zenon DEF NoSecrets, Maps

LEMMA DamagedType == Damaged \in Contents
BY NoSecretsType DEF Damaged, Contents

LEMMA StoredType ==
  ASSUME NEW ks \in SUBSET Keys, NEW s \in [ks -> Values],
         NEW key \in Keys, NEW value \in Values
  PROVE  [k \in ks \cup {key} |-> IF k = key THEN value ELSE s[k]] \in Maps
<1>1. [k \in ks \cup {key} |-> IF k = key THEN value ELSE s[k]]
        \in [ks \cup {key} -> Values]
  OBVIOUS
<1>2. ks \cup {key} \in SUBSET Keys
  OBVIOUS
<1>3. QED
  BY <1>1, <1>2, Zenon DEF Maps

LEMMA DeletedType ==
  ASSUME NEW ks \in SUBSET Keys, NEW s \in [ks -> Values], NEW key \in Keys
  PROVE  [k \in ks \ {key} |-> s[k]] \in Maps
<1>1. [k \in ks \ {key} |-> s[k]] \in [ks \ {key} -> Values]
  OBVIOUS
<1>2. ks \ {key} \in SUBSET Keys
  OBVIOUS
<1>3. QED
  BY <1>1, <1>2, Zenon DEF Maps

LEMMA InitInv == Init => Inv
<1> SUFFICES ASSUME Init PROVE Inv
  OBVIOUS
<1> USE ConstantsAssumption DEF Init
<1>1. TypeOK
  <2>1. dir \in Dirs /\ lost \in SUBSET Dirs
    BY DEF Dirs, None
  <2>2. data \in [Inodes -> Contents]
    BY DamagedType
  <2>3. opened \in 0 .. MaxSaves
    OBVIOUS
  <2>4. mem \in Maps
    BY NoSecretsType
  <2>5. QED
    BY Zenon, <2>1, <2>2, <2>3, <2>4 DEF TypeOK
<1>2. dir \in lost /\ FilesWhole /\ TmpApart /\ Progress
  BY DEF FilesWhole, TmpApart, Progress, None
<1>3. CleanMeansSaved /\ NeverCorrupt
  BY DEF CleanMeansSaved, NeverCorrupt
<1>4. QED
  BY <1>1, <1>2, <1>3 DEF Inv

\* Changing the contents of the temporary file changes no keystore file.
LEMMA TmpOnly ==
  ASSUME Inv, NEW i \in Inodes, \A d \in lost : d.path # i, NEW c \in Contents
  PROVE  /\ \A d \in lost : SecretsIn([data EXCEPT ![i] = c], d) = Secrets(d)
         /\ \A d \in lost : d.path # None =>
              [data EXCEPT ![i] = c][d.path] = data[d.path]
<1>1. \A d \in lost : d.path # None => d.path \in Inodes
  BY DEF Inv, TypeOK, Dirs
<1>2. data \in [Inodes -> Contents]
  BY DEF Inv, TypeOK
<1>3. QED
  BY <1>1, <1>2 DEF Secrets, SecretsIn

-----------------------------------------------------------------------------
(* One lemma for each kind of step: what Inv asks of the next state.       *)

\* A step that leaves the disk alone.
LEMMA MemoryStep ==
  ASSUME Inv, UNCHANGED diskVars, pc' = "idle", TypeOK', res' # "corrupt",
         ~up' => ~dirty', up' /\ ~dirty' => mem' = Secrets(dir)
  PROVE  Inv'
<1>1. data' = data /\ synced' = synced /\ dir' = dir /\ lost' = lost /\ opened' = opened
  BY DEF diskVars
<1>2. (dir \in lost)' /\ FilesWhole' /\ TmpApart'
  BY <1>1 DEF Inv, FilesWhole, TmpApart
<1>3. Progress'
  BY DEF Progress
<1>4. CleanMeansSaved' /\ NeverCorrupt'
  BY <1>1 DEF CleanMeansSaved, NeverCorrupt, Secrets
<1>5. QED
  BY <1>2, <1>3, <1>4 DEF Inv

LEMMA LoadInv == ASSUME Inv, Load PROVE Inv'
<1>1. dir.path # None => data[dir.path].whole
  BY DEF Inv, FilesWhole
<1>2. /\ UNCHANGED diskVars /\ dirty' = dirty /\ pc' = pc /\ created' = created
      /\ ~up
  BY DEF Load
<1>3. \/ up' = TRUE /\ mem' = Secrets(dir) /\ res' = "loaded"
      \/ up' = up /\ mem' = mem /\ res' = "io"
  BY <1>1 DEF Load, Secrets, SecretsIn
<1>4. Secrets(dir) \in Maps
  BY NoSecretsType DEF Inv, TypeOK, Dirs, Contents, Secrets, SecretsIn
<1>5. pc = "idle" /\ ~dirty
  BY <1>2 DEF Inv, Progress
<1>6. up' \in BOOLEAN /\ mem' \in Maps /\ res' \in {"loaded", "io"}
  BY Zenon, <1>3, <1>4 DEF Inv, TypeOK
<1>7. TypeOK'
  BY <1>2, <1>6 DEF Inv, TypeOK, diskVars
<1>8. up' /\ ~dirty' => mem' = Secrets(dir)
  BY <1>2, <1>3, Zenon
<1>9. QED
  BY <1>2, <1>5, <1>6, <1>7, <1>8, MemoryStep

LEMMA ChangeInv ==
  ASSUME Inv,
         \E key \in Keys : Delete(key) \/ \E value \in Values : Store(key, value)
  PROVE  Inv'
<1>1. PICK ks \in SUBSET Keys : mem \in [ks -> Values]
  BY DEF Inv, TypeOK, Maps
<1>2. /\ UNCHANGED diskVars /\ up' = up /\ pc' = pc /\ dirty' = TRUE
      /\ res' = "ok" /\ created' = FALSE /\ up /\ pc = "idle"
  BY DEF Store, Delete
<1>3. mem' \in Maps
  <2>1. DOMAIN mem = ks
    BY <1>1
  <2>2. ASSUME NEW key \in Keys, Delete(key) PROVE mem' \in Maps
    <3>1. mem' = [k \in ks \ {key} |-> mem[k]]
      BY <2>1, <2>2 DEF Delete
    <3>2. QED
      BY <1>1, <3>1, DeletedType
  <2>3. ASSUME NEW key \in Keys, NEW value \in Values, Store(key, value)
        PROVE  mem' \in Maps
    <3>1. mem' = [k \in ks \cup {key} |-> IF k = key THEN value ELSE mem[k]]
      BY <2>1, <2>3 DEF Store
    <3>2. QED
      BY <1>1, <3>1, StoredType
  <2>4. QED
    BY <2>2, <2>3
<1>4. TypeOK'
  BY <1>2, <1>3, Zenon DEF Inv, TypeOK, diskVars
<1>5. QED
  BY <1>2, <1>4, MemoryStep

LEMMA CrashInv == ASSUME Inv, Crash PROVE Inv'
<1>1. /\ UNCHANGED diskVars /\ up' = FALSE /\ pc' = "idle" /\ dirty' = FALSE
      /\ res' = "down" /\ created' = FALSE /\ mem' = NoSecrets
  BY DEF Crash, Stopped
<1>2. TypeOK'
  BY <1>1, NoSecretsType, Zenon DEF Inv, TypeOK, diskVars
<1>3. QED
  BY <1>1, <1>2, MemoryStep

\* Opening the temporary file, for Save and for Create.
LEMMA OpenTmpInv ==
  ASSUME Inv, NEW override \in BOOLEAN, up, pc = "idle", OpenTmp(override),
         up' = up, dirty' = TRUE, mem' \in Maps, created' \in BOOLEAN
  PROVE  Inv' /\ \/ UNCHANGED <<dir, data, lost>>
                 \/ /\ dir'.path = dir.path
                    /\ \A d \in lost : SecretsIn(data', d) = Secrets(d)
                    /\ lost' = lost \cup {dir'}
<1> DEFINE i == IF dir.tmp = None THEN opened + 1 ELSE dir.tmp
           d0 == [path |-> dir.path, tmp |-> i]
<1>0. TypeOK
  BY DEF Inv
<1>1. CASE /\ res' = IF override \/ dir.tmp = None THEN "io" ELSE "exist"
           /\ UNCHANGED <<pc, diskVars>>
  <2>1. res' \in {"io", "exist"} /\ pc' = "idle" /\ UNCHANGED diskVars
    BY <1>1
  <2>2. TypeOK'
    BY <1>0, <2>1 DEF TypeOK, diskVars
  <2>3. QED
    BY <2>1, <2>2, MemoryStep DEF diskVars
<1>2. CASE /\ opened < MaxSaves
           /\ pc' = "write"
           /\ data' = [data EXCEPT ![i] = Damaged]
           /\ synced' = synced \ {i}
           /\ dir' = d0
           /\ lost' = lost \cup {d0}
           /\ opened' = opened + 1
           /\ res' = res
  <2>1. opened \in Nat /\ MaxSaves \in Nat /\ opened < MaxSaves
    BY <1>0, <1>2, ConstantsAssumption DEF TypeOK
  <2>2. \A d \in lost : /\ d \in Dirs
                        /\ d.path \in Inodes \cup {None}
                        /\ d.tmp \in Inodes \cup {None}
                        /\ d.path \in Int /\ d.tmp \in Int
    BY <1>0, <2>1 DEF TypeOK, Dirs, Inodes, None
  <2>3. dir \in lost /\ dir.tmp \in Inodes \cup {None} /\ dir.path \in Inodes \cup {None}
    BY <2>2 DEF Inv
  <2>4. i \in Inodes /\ i # None /\ i <= opened + 1
    <3>1. CASE dir.tmp = None
      BY <2>1, <3>1 DEF Inodes, None
    <3>2. CASE dir.tmp # None
      <4>1. i = dir.tmp /\ i \in Inodes
        BY <2>3, <3>2
      <4>2. i <= opened
        BY <2>3, <4>1 DEF Inv, TmpApart
      <4>3. QED
        BY <2>1, <4>1, <4>2 DEF Inodes, None
    <3>3. QED
      BY <3>1, <3>2
  <2>5. \A d \in lost : d.path # i
    <3>1. CASE dir.tmp = None
      <4>1. \A d \in lost : d.path <= opened
        BY DEF Inv, TmpApart
      <4>2. QED
        BY <2>1, <2>2, <3>1, <4>1
    <3>2. CASE dir.tmp # None
      BY <3>2 DEF Inv, TmpApart
    <3>3. QED
      BY <3>1, <3>2
  <2> HIDE DEF i
  <2>6. /\ \A d \in lost : SecretsIn(data', d) = Secrets(d)
        /\ \A d \in lost : d.path # None => data'[d.path] = data[d.path]
    BY <1>2, <2>4, <2>5, TmpOnly, DamagedType, Zenon
  <2>7. dir'.path = dir.path /\ dir'.tmp = i /\ lost' = lost \cup {dir'}
    BY <1>2
  <2>8. d0 \in Dirs
    BY <2>3, <2>4 DEF Dirs
  <2>9. TypeOK'
    <3>1. data' \in [Inodes -> Contents]
      BY <1>0, <1>2, <2>4, DamagedType DEF TypeOK
    <3>2. opened' \in 0 .. MaxSaves
      BY <1>2, <2>1
    <3>3. dir' \in Dirs /\ lost' \in SUBSET Dirs /\ synced' \in SUBSET Inodes
      BY <1>0, <1>2, <2>8 DEF TypeOK
    <3>4. pc' \in {"idle", "write", "sync", "rename", "syncdir"} /\ dirty' \in BOOLEAN
      BY <1>2
    <3>5. QED
      BY Zenon, <1>0, <1>2, <3>1, <3>2, <3>3, <3>4 DEF TypeOK
  <2>10. FilesWhole'
    <3> SUFFICES ASSUME NEW d \in lost', d.path # None
                 PROVE  data'[d.path].whole /\ d.path \in synced'
      BY DEF FilesWhole
    <3>1. PICK e \in lost : e.path = d.path
      BY <2>3, <2>7
    <3>2. data[e.path].whole /\ e.path \in synced /\ e.path # i
      BY <2>5, <3>1 DEF Inv, FilesWhole
    <3>3. QED
      BY <1>2, <2>6, <3>1, <3>2
  <2>11. TmpApart'
    <3>1. \A d \in lost : d.path <= opened /\ d.tmp <= opened /\ (d.tmp # None => d.tmp # d.path)
      BY DEF Inv, TmpApart
    <3>2. \A d \in lost : d.path <= opened' /\ d.tmp <= opened'
      BY <1>2, <2>1, <2>2, <3>1
    <3>3. dir'.path <= opened' /\ dir'.tmp <= opened'
      BY <1>2, <2>3, <2>4, <2>7, <3>2
    <3>4. dir'.path # i
      BY <2>3, <2>5, <2>7
    <3>5. QED
      BY <2>5, <2>7, <3>1, <3>2, <3>3, <3>4 DEF TmpApart
  <2>12. Progress' /\ CleanMeansSaved' /\ NeverCorrupt' /\ dir' \in lost'
    BY <1>2, <2>4, <2>7 DEF Progress, CleanMeansSaved, NeverCorrupt, Inv
  <2>13. QED
    BY <2>6, <2>7, <2>9, <2>10, <2>11, <2>12 DEF Inv
<1>3. QED
  BY <1>1, <1>2 DEF OpenTmp

LEMMA SaveInv == ASSUME Inv, Save PROVE Inv'
<1>1. /\ up /\ pc = "idle" /\ created' = FALSE
      /\ up' = up /\ mem' = mem /\ dirty' = dirty
  BY DEF Save, memVars
<1>2. CASE dirty
  <2>1. OpenTmp(TRUE) /\ dirty' = TRUE
    BY <1>1, <1>2, Zenon DEF Save, Inv, TypeOK
  <2>2. mem' \in Maps
    BY <1>1 DEF Inv, TypeOK
  <2>3. QED
    BY <1>1, <2>1, <2>2, OpenTmpInv, Zenon
<1>3. CASE ~dirty
  <2>1. res' = "ok" /\ pc' = pc /\ UNCHANGED diskVars
    BY <1>3 DEF Save
  <2>2. TypeOK'
    BY <1>1, <2>1, Zenon DEF Inv, TypeOK, diskVars
  <2>3. mem' = Secrets(dir)
    BY <1>1, <1>3 DEF Inv, CleanMeansSaved
  <2>4. QED
    BY <1>1, <2>1, <2>2, <2>3, MemoryStep
<1>4. QED
  BY <1>2, <1>3

LEMMA CreateInv ==
  ASSUME Inv, NEW override \in BOOLEAN, Create(override) PROVE Inv'
<1>1. /\ up /\ pc = "idle" /\ OpenTmp(override) /\ up' = up /\ dirty' = TRUE
      /\ mem' = NoSecrets /\ created' = (~override /\ dir.path # None)
  BY DEF Create
<1>2. created' \in BOOLEAN /\ mem' \in Maps
  BY <1>1, NoSecretsType
<1>3. QED
  BY <1>1, <1>2, OpenTmpInv

\* The steps of doSave after the opening of the temporary file, up to the
\* rename: they change nothing but the temporary file.
LEMMA WriteTmpInv ==
  ASSUME FaultyWrites = FALSE, Inv, WriteTmp
  PROVE  Inv' /\ \A d \in lost : SecretsIn(data', d) = Secrets(d)
<1> DEFINE c == [whole |-> TRUE, secrets |-> mem]
<1>1. /\ pc = "write" /\ pc' = "sync" /\ data' = [data EXCEPT ![dir.tmp] = c]
      /\ up' = up /\ mem' = mem /\ dirty' = dirty /\ created' = created
      /\ res' = res /\ synced' = synced /\ dir' = dir /\ lost' = lost
      /\ opened' = opened
  BY SMTT(30) DEF WriteTmp, memVars
<1>2. /\ TypeOK /\ dir.tmp # None /\ dir.tmp \in Inodes /\ c \in Contents
      /\ up /\ dirty
  BY <1>1 DEF Inv, Progress, TypeOK, Dirs, Contents
<1>3. \A d \in lost : d.path # dir.tmp
  BY <1>2 DEF Inv, TmpApart
<1>4. data' \in [Inodes -> Contents] /\ data'[dir.tmp] = c
  BY <1>1, <1>2 DEF TypeOK
<1> HIDE DEF c
<1>5. /\ \A d \in lost : SecretsIn(data', d) = Secrets(d)
      /\ \A d \in lost : d.path # None => data'[d.path] = data[d.path]
  BY <1>1, <1>2, <1>3, TmpOnly, Zenon
<1>6. TypeOK'
  BY <1>1, <1>2, <1>4, SMTT(30) DEF TypeOK
<1>7. (dir \in lost)' /\ FilesWhole' /\ TmpApart'
  BY <1>1, <1>5, SMTT(30) DEF Inv, FilesWhole, TmpApart
<1>8. Progress' /\ CleanMeansSaved' /\ NeverCorrupt'
  BY <1>1, <1>2, <1>4 DEF Inv, Progress, CleanMeansSaved, NeverCorrupt, c
<1>9. QED
  BY <1>5, <1>6, <1>7, <1>8 DEF Inv

LEMMA SyncTmpInv ==
  ASSUME FaultyWrites = FALSE, Inv, SyncTmp
  PROVE  Inv'
<1>1. /\ pc = "sync" /\ pc' = "rename" /\ synced' = synced \cup {dir.tmp}
      /\ up' = up /\ mem' = mem /\ dirty' = dirty /\ created' = created
      /\ res' = res /\ data' = data /\ dir' = dir /\ lost' = lost
      /\ opened' = opened
  BY SMTT(30) DEF SyncTmp, memVars
<1>2. TypeOK /\ dir.tmp # None /\ dir.tmp \in Inodes /\ up /\ dirty
  BY <1>1 DEF Inv, Progress, TypeOK, Dirs
<1>3. TypeOK'
  BY <1>1, <1>2 DEF TypeOK
<1>4. (dir \in lost)' /\ FilesWhole' /\ TmpApart'
  BY <1>1, SMTT(30) DEF Inv, FilesWhole, TmpApart
<1>5. Progress' /\ CleanMeansSaved' /\ NeverCorrupt'
  BY <1>1, <1>2 DEF Inv, Progress, CleanMeansSaved, NeverCorrupt
<1>6. QED
  BY <1>3, <1>4, <1>5 DEF Inv

LEMMA RenameInv == ASSUME Inv, Rename PROVE Inv'
<1>1. /\ pc = "rename" /\ lost' = lost \cup {dir'}
      /\ data' = data /\ synced' = synced /\ opened' = opened
      /\ up' = up /\ mem' = mem /\ dirty' = dirty /\ created' = created
  BY SMTT(30) DEF Rename, Fail, memVars
<1>2. /\ TypeOK /\ up /\ dirty /\ dir \in lost
      /\ dir.tmp \in Inodes /\ dir.tmp # None /\ dir.path \in Inodes \cup {None}
      /\ data[dir.tmp] = [whole |-> TRUE, secrets |-> mem] /\ dir.tmp \in synced
  BY <1>1 DEF Inv, Progress, TypeOK, Dirs
<1>3. \/ /\ dir' = [path |-> dir.tmp, tmp |-> None]
         /\ pc' = "syncdir" /\ res' = res
      \/ /\ dir' \in {dir, [path |-> dir.path, tmp |-> None]}
         /\ pc' = "idle" /\ res' = "io"
  BY SMTT(30) DEF Rename, Fail
<1>4. /\ dir' \in Dirs
      /\ \/ dir'.path = dir.tmp /\ dir'.tmp = None
         \/ dir'.path = dir.path /\ dir'.tmp \in {None, dir.tmp}
  BY <1>2, <1>3, SMTT(30) DEF Inv, TypeOK, Dirs
<1>5. TypeOK'
  BY <1>1, <1>2, <1>3, <1>4, SMTT(30) DEF TypeOK
<1>6. FilesWhole'
  <2>1. \A d \in lost : d.path # None => data[d.path].whole /\ d.path \in synced
    BY SMTT(30) DEF Inv, FilesWhole
  <2>2. dir'.path # None => data[dir'.path].whole /\ dir'.path \in synced
    BY <1>2, <1>4, <2>1
  <2>3. QED
    BY <1>1, <2>1, <2>2 DEF FilesWhole
<1>7. TmpApart'
  <2>1. /\ \A d \in lost : d.tmp # None => d.tmp # d.path
        /\ \A d \in lost : d.path # dir.tmp
        /\ \A d \in lost : d.path <= opened /\ d.tmp <= opened
    BY <1>2 DEF Inv, TmpApart
  <2>2. dir.tmp <= opened /\ dir.path <= opened /\ None <= opened
    BY <1>2, <2>1 DEF TypeOK, None
  <2>3. dir'.path <= opened /\ dir'.tmp <= opened
    BY <1>4, <2>2, SMTT(30)
  <2>4. dir'.tmp # None => dir'.tmp = dir.tmp /\ dir'.path = dir.path
    BY <1>2, <1>4
  <2>5. QED
    BY <1>1, <1>2, <2>1, <2>3, <2>4, Zenon DEF TmpApart
<1>8. Progress'
  BY <1>1, <1>2, <1>3, <1>4 DEF Progress
<1>9. CleanMeansSaved' /\ NeverCorrupt' /\ (dir \in lost)'
  BY <1>1, <1>2, <1>3 DEF Inv, CleanMeansSaved, NeverCorrupt
<1>10. QED
  BY <1>5, <1>6, <1>7, <1>8, <1>9 DEF Inv

LEMMA SyncDirInv == ASSUME Inv, SyncDir PROVE Inv'
<1>1. /\ pc = "syncdir" /\ pc' = "idle" /\ lost' \in {lost, {dir}}
      /\ data' = data /\ synced' = synced /\ opened' = opened /\ dir' = dir
      /\ up' = up /\ mem' = mem /\ created' = created
      /\ dirty' \in {dirty, FALSE} /\ res' \in {"ok", "io"}
  BY Zenon DEF SyncDir, Fail, Done, memVars
<1>2. /\ TypeOK /\ up /\ dirty /\ dir \in lost
      /\ dir.path # None /\ data[dir.path].secrets = mem
  BY <1>1 DEF Inv, Progress, TypeOK
<1>3. TypeOK'
  <2>1. lost' \in SUBSET Dirs /\ dirty' \in BOOLEAN
    BY <1>1, <1>2, Zenon DEF TypeOK
  <2>2. QED
    BY <1>1, <1>2, <2>1 DEF TypeOK
<1>4. (dir \in lost)' /\ FilesWhole' /\ TmpApart'
  BY <1>1, <1>2, SMTT(30) DEF Inv, FilesWhole, TmpApart
<1>5. Progress' /\ CleanMeansSaved' /\ NeverCorrupt'
  BY <1>1, <1>2 DEF Progress, CleanMeansSaved, NeverCorrupt, Secrets, SecretsIn
<1>6. QED
  BY <1>3, <1>4, <1>5 DEF Inv

\* A power loss damages only files that no directory has as its keystore.
LEMMA PowerLossInv ==
  ASSUME Inv, PowerLoss
  PROVE  /\ Inv'
         /\ dir' \in lost /\ lost' = {dir'}
         /\ SecretsIn(data', dir') = Secrets(dir')
<1>1. /\ up' = FALSE /\ mem' = NoSecrets /\ dirty' = FALSE /\ pc' = "idle"
      /\ created' = FALSE /\ res' = "down" /\ dir' \in lost /\ lost' = {dir'}
      /\ synced' = Inodes /\ opened' = opened
  BY DEF PowerLoss, Stopped
<1>2. PICK bad \in SUBSET (Inodes \ synced) :
        data' = [i \in Inodes |-> IF i \in bad THEN Damaged ELSE data[i]]
  BY DEF PowerLoss
<1>3. TypeOK /\ dir' \in Dirs
  BY <1>1 DEF Inv, TypeOK
<1>4. dir'.path \in Inodes \cup {None} /\ dir'.tmp \in Inodes \cup {None}
  BY <1>3, SMTT(30) DEF Dirs
<1>5. dir'.path # None => /\ dir'.path \in Inodes
                          /\ data[dir'.path].whole
                          /\ data'[dir'.path] = data[dir'.path]
  <2>1. dir'.path # None => data[dir'.path].whole /\ dir'.path \in synced
    BY <1>1 DEF Inv, FilesWhole
  <2>2. QED
    BY <1>2, <1>4, <2>1
<1>6. TypeOK'
  <2>1. data' \in [Inodes -> Contents]
    BY <1>2, <1>3, DamagedType DEF TypeOK
  <2>2. lost' \in SUBSET Dirs /\ synced' \in SUBSET Inodes
    BY <1>1, <1>3, SMTT(30)
  <2>3. QED
    BY <1>1, <1>3, <2>1, <2>2, NoSecretsType, Zenon DEF TypeOK
<1>7. FilesWhole'
  BY <1>1, <1>5 DEF FilesWhole
<1>8. TmpApart'
  BY <1>1, SMTT(30) DEF Inv, TmpApart
<1>9. Progress' /\ CleanMeansSaved' /\ NeverCorrupt' /\ (dir \in lost)'
  BY <1>1 DEF Progress, CleanMeansSaved, NeverCorrupt
<1>10. SecretsIn(data', dir') = Secrets(dir')
  BY <1>5, Zenon DEF SecretsIn, Secrets
<1>11. QED
  BY <1>1, <1>6, <1>7, <1>8, <1>9, <1>10 DEF Inv

LEMMA StutterInv == ASSUME Inv, UNCHANGED vars PROVE Inv'
BY DEF vars, memVars, diskVars, Inv, TypeOK, FilesWhole, TmpApart, Progress,
       CleanMeansSaved, NeverCorrupt, Secrets

LEMMA StepInv == ASSUME FaultyWrites = FALSE PROVE Inv /\ [Next]_vars => Inv'
BY Zenon, LoadInv, ChangeInv, SaveInv, CreateInv, WriteTmpInv, SyncTmpInv, RenameInv,
   SyncDirInv, CrashInv, PowerLossInv, StutterInv DEF Next

\* The inductive invariant: every keystore file that can come back is whole and
\* synced, the temporary file is none of them, and the steps of doSave find what
\* the steps before them left.
THEOREM Invariance == ASSUME FaultyWrites = FALSE PROVE Spec => []Inv
BY InitInv, StepInv, PTL DEF Spec

\* NewFileKeystore never meets a damaged file.
THEOREM LoadSucceeds == ASSUME FaultyWrites = FALSE PROVE Spec => []NeverCorrupt
<1>1. Inv => NeverCorrupt
  BY DEF Inv
<1>2. QED
  BY <1>1, Invariance, PTL

\* A clear k.dirty means that the file holds what is in memory.
THEOREM CleanIsSaved == ASSUME FaultyWrites = FALSE PROVE Spec => []CleanMeansSaved
<1>1. Inv => CleanMeansSaved
  BY DEF Inv
<1>2. QED
  BY <1>1, Invariance, PTL

-----------------------------------------------------------------------------
(* The refinement.                                                         *)

\* The copies that may come back, in a directory history l over contents c.
MayIn(c, l) == {SecretsIn(c, d) : d \in l}

LEMMA AbstractInit == Init => Abstract!Init
BY DEF Init, Abstract!Init, Secrets, SecretsIn

\* A step that leaves the keystore files alone leaves the stored copies alone.
LEMMA SameCopies ==
  ASSUME dir \in lost, UNCHANGED <<dir, data, lost>>
         \/ /\ dir'.path = dir.path
            /\ \A d \in lost : SecretsIn(data', d) = Secrets(d)
            /\ lost' \in {lost, lost \cup {dir'}}
  PROVE  /\ SecretsIn(data', dir') = SecretsIn(data, dir)
         /\ MayIn(data', lost') = MayIn(data, lost)
<1>1. CASE UNCHANGED <<dir, data, lost>>
  BY <1>1
<1>2. CASE /\ dir'.path = dir.path
           /\ \A d \in lost : SecretsIn(data', d) = Secrets(d)
           /\ lost' \in {lost, lost \cup {dir'}}
  <2>1. SecretsIn(data', dir') = SecretsIn(data', dir)
    BY <1>2 DEF SecretsIn
  <2>2. SecretsIn(data', dir') = SecretsIn(data, dir)
    BY <1>2, <2>1 DEF Secrets
  <2>3. \A d \in lost : SecretsIn(data', d) = SecretsIn(data, d)
    BY <1>2 DEF Secrets
  <2>4. MayIn(data', lost') = MayIn(data, lost)
    BY <1>2, <2>2, <2>3, Zenon DEF MayIn
  <2>5. QED
    BY <2>2, <2>4, SMTT(30)
<1>3. QED
  BY <1>1, <1>2

\* The abstract step, spelled out over the variables of the keystore.
LEMMA AbstractStep ==
  ASSUME \/ /\ up' = up /\ mem' = mem /\ dirty' = dirty
            /\ SecretsIn(data', dir') = SecretsIn(data, dir)
            /\ MayIn(data', lost') = MayIn(data, lost)
         \/ /\ up /\ up' = up /\ mem' \in Maps /\ dirty' = TRUE
            /\ SecretsIn(data', dir') = SecretsIn(data, dir)
            /\ MayIn(data', lost') = MayIn(data, lost)
         \/ /\ up /\ dirty /\ up' = up /\ mem' = mem /\ dirty' = dirty
            /\ SecretsIn(data', dir') = mem
            /\ MayIn(data', lost') = MayIn(data, lost) \cup {mem}
         \/ /\ up /\ dirty /\ up' = up /\ mem' = mem /\ dirty' = FALSE
            /\ SecretsIn(data, dir) = mem
            /\ SecretsIn(data', dir') = SecretsIn(data, dir)
            /\ \/ MayIn(data', lost') = {mem}
               \/ ParentUnreadable /\ MayIn(data', lost') = MayIn(data, lost)
         \/ /\ up' = FALSE /\ mem' = NoSecrets /\ dirty' = FALSE
            /\ \/ /\ SecretsIn(data', dir') = SecretsIn(data, dir)
                  /\ MayIn(data', lost') = MayIn(data, lost)
               \/ /\ SecretsIn(data', dir') \in MayIn(data, lost)
                  /\ MayIn(data', lost') = {SecretsIn(data', dir')}
         \/ /\ ~up /\ up' = TRUE /\ mem' = SecretsIn(data, dir) /\ dirty' = FALSE
            /\ SecretsIn(data', dir') = SecretsIn(data, dir)
            /\ MayIn(data', lost') = MayIn(data, lost)
  PROVE  [Abstract!Next]_(Abstract!vars)
BY Zenon DEF MayIn, Secrets, Abstract!Next, Abstract!vars, Abstract!Change, Abstract!Commit,
       Abstract!Finish, Abstract!Crash, Abstract!Load

\* Every step of the keystore is a step of the abstract store or leaves it
\* unchanged: the rename is the commit, the end of doSave the finish.
LEMMA StepRefines ==
  ASSUME FaultyWrites = FALSE, Inv, [Next]_vars
  PROVE  [Abstract!Next]_(Abstract!vars)
<1>0. dir \in lost /\ TypeOK
  BY DEF Inv
<1>1. ASSUME UNCHANGED diskVars
      PROVE  /\ SecretsIn(data', dir') = SecretsIn(data, dir)
             /\ MayIn(data', lost') = MayIn(data, lost)
  BY <1>0, <1>1, SameCopies DEF diskVars
<1>2. CASE Load
  <2>1. UNCHANGED diskVars /\ dirty' = dirty /\ ~up /\ ~dirty
    BY <1>2, ZenonT(30) DEF Load, Inv, Progress
  <2>2. \/ up' = TRUE /\ mem' = SecretsIn(data, dir)
        \/ up' = up /\ mem' = mem
    BY <1>2 DEF Load, SecretsIn
  <2>3. dirty' = FALSE
    BY <1>0, <2>1, ZenonT(30) DEF TypeOK
  <2>4. QED
    BY <1>1, <2>1, <2>2, <2>3, AbstractStep, Zenon
<1>3. CASE \E key \in Keys : Delete(key) \/ \E value \in Values : Store(key, value)
  <2>1. UNCHANGED diskVars /\ up /\ up' = up /\ dirty' = TRUE
    BY <1>3, SMTT(30) DEF Store, Delete
  <2>2. mem' \in Maps
    BY <1>3, ChangeInv DEF Inv, TypeOK
  <2>3. QED
    BY <1>1, <2>1, <2>2, AbstractStep
<1>4. CASE Save
  <2>1. /\ up /\ pc = "idle" /\ created' = FALSE
        /\ up' = up /\ mem' = mem /\ dirty' = dirty
    BY <1>4, ZenonT(30) DEF Save, memVars
  <2>2. CASE ~dirty
    <3>1. UNCHANGED diskVars
      BY <1>4, <2>2, ZenonT(30) DEF Save
    <3>2. QED
      BY <1>1, <2>1, <3>1, AbstractStep
  <2>3. CASE dirty
    <3>1. OpenTmp(TRUE) /\ dirty' = TRUE /\ mem' \in Maps
      BY <1>0, <1>4, <2>1, <2>3, Zenon DEF Save, TypeOK
    <3>2. \/ UNCHANGED <<dir, data, lost>>
          \/ /\ dir'.path = dir.path
             /\ \A d \in lost : SecretsIn(data', d) = Secrets(d)
             /\ lost' = lost \cup {dir'}
      BY <2>1, <3>1, OpenTmpInv, Zenon
    <3>3. /\ SecretsIn(data', dir') = SecretsIn(data, dir)
          /\ MayIn(data', lost') = MayIn(data, lost)
      BY <1>0, <3>2, SameCopies, SMTT(30)
    <3>4. QED
      BY <2>1, <3>3, AbstractStep
  <2>4. QED
    BY <2>2, <2>3
<1>5. ASSUME NEW override \in BOOLEAN, Create(override)
      PROVE  [Abstract!Next]_(Abstract!vars)
  <2>1. /\ up /\ pc = "idle" /\ OpenTmp(override) /\ up' = up /\ dirty' = TRUE
        /\ mem' = NoSecrets /\ created' = (~override /\ dir.path # None)
    BY <1>5 DEF Create
  <2>2. created' \in BOOLEAN /\ mem' \in Maps
    BY <2>1, NoSecretsType
  <2>3. \/ UNCHANGED <<dir, data, lost>>
        \/ /\ dir'.path = dir.path
           /\ \A d \in lost : SecretsIn(data', d) = Secrets(d)
           /\ lost' = lost \cup {dir'}
    BY <2>1, <2>2, OpenTmpInv
  <2>4. /\ SecretsIn(data', dir') = SecretsIn(data, dir)
        /\ MayIn(data', lost') = MayIn(data, lost)
    BY <1>0, <2>3, SameCopies, Zenon
  <2>5. QED
    BY <2>1, <2>2, <2>4, AbstractStep
<1>6. CASE WriteTmp \/ SyncTmp
  <2>1. up' = up /\ mem' = mem /\ dirty' = dirty /\ dir' = dir /\ lost' = lost
    BY <1>6 DEF WriteTmp, SyncTmp, memVars
  <2>2. \A d \in lost : SecretsIn(data', d) = Secrets(d)
    <3>1. CASE WriteTmp
      BY <3>1, WriteTmpInv, Zenon
    <3>2. CASE SyncTmp
      BY <3>2 DEF SyncTmp, Secrets
    <3>3. QED
      BY <1>6, <3>1, <3>2
  <2>3. /\ SecretsIn(data', dir') = SecretsIn(data, dir)
        /\ MayIn(data', lost') = MayIn(data, lost)
    BY <1>0, <2>1, <2>2, SameCopies, SMTT(30)
  <2>4. QED
    BY <2>1, <2>3, AbstractStep
<1>7. CASE Rename
  <2>1. /\ pc = "rename" /\ lost' = lost \cup {dir'} /\ data' = data
        /\ up' = up /\ mem' = mem /\ dirty' = dirty
    BY <1>7, SMTT(30) DEF Rename, Fail, memVars
  <2>2. up /\ dirty /\ data[dir.tmp].secrets = mem /\ dir.tmp # None
    <3>1. Progress /\ pc \in {"write", "sync", "rename"} /\ pc \in {"sync", "rename"} /\ pc # "idle"
      BY <2>1 DEF Inv
    <3>2. up /\ dirty /\ dir.tmp # None /\ data[dir.tmp] = [whole |-> TRUE, secrets |-> mem]
      BY <3>1, Zenon DEF Progress
    <3>3. QED
      BY <3>2
  <2>3. CASE dir' = [path |-> dir.tmp, tmp |-> None]
    <3>1. SecretsIn(data', dir') = mem
      BY <2>1, <2>2, <2>3, Zenon DEF SecretsIn
    <3>2. MayIn(data', lost') = MayIn(data, lost) \cup {mem}
      BY <2>1, <3>1, ZenonT(30) DEF MayIn
    <3>3. QED
      BY <2>1, <2>2, <3>1, <3>2, AbstractStep, Zenon
  <2>4. CASE dir' \in {dir, [path |-> dir.path, tmp |-> None]}
    <3>1. dir'.path = dir.path /\ \A d \in lost : SecretsIn(data', d) = Secrets(d)
      BY <2>1, <2>4, SMTT(30) DEF Secrets
    <3>2. /\ SecretsIn(data', dir') = SecretsIn(data, dir)
          /\ MayIn(data', lost') = MayIn(data, lost)
      BY <1>0, <2>1, <3>1, SameCopies
    <3>3. QED
      BY <2>1, <3>2, AbstractStep
  <2>5. QED
    BY <1>7, <2>3, <2>4 DEF Rename
<1>8. CASE SyncDir
  <2>1. /\ pc = "syncdir" /\ data' = data /\ dir' = dir /\ up' = up /\ mem' = mem
    BY <1>8, SMTT(30) DEF SyncDir, Fail, Done, memVars
  <2>2. up /\ dirty /\ SecretsIn(data, dir) = mem
    BY <2>1 DEF Inv, Progress, SecretsIn
  <2>3. CASE lost' = {dir} /\ dirty' = FALSE
    <3>1. MayIn(data', lost') = {mem}
      BY <2>1, <2>2, <2>3 DEF MayIn
    <3>2. QED
      BY <2>1, <2>2, <2>3, <3>1, AbstractStep, Zenon
  <2>4. CASE ParentUnreadable /\ lost' = lost /\ dirty' = FALSE
    BY <2>1, <2>2, <2>4, AbstractStep, ZenonT(30)
  <2>5. CASE lost' = lost /\ dirty' = dirty
    BY <2>1, <2>5, AbstractStep
  <2>6. QED
    BY <1>8, <2>3, <2>4, <2>5, Zenon DEF SyncDir, Fail, Done, memVars
<1>9. CASE Crash
  <2>1. UNCHANGED diskVars /\ up' = FALSE /\ mem' = NoSecrets /\ dirty' = FALSE
    BY <1>9 DEF Crash, Stopped
  <2>2. QED
    BY <1>1, <2>1, AbstractStep, Zenon
<1>10. CASE PowerLoss
  <2>1. /\ dir' \in lost /\ lost' = {dir'}
        /\ SecretsIn(data', dir') = SecretsIn(data, dir')
    BY <1>10, PowerLossInv DEF Secrets
  <2>2. up' = FALSE /\ mem' = NoSecrets /\ dirty' = FALSE
    BY <1>10 DEF PowerLoss, Stopped
  <2>3. /\ SecretsIn(data', dir') \in MayIn(data, lost)
        /\ MayIn(data', lost') = {SecretsIn(data', dir')}
    BY <2>1, SMTT(30) DEF MayIn
  <2>4. QED
    BY <2>2, <2>3, AbstractStep, Zenon
<1>11. CASE UNCHANGED vars
  <2>1. UNCHANGED diskVars /\ up' = up /\ mem' = mem /\ dirty' = dirty
    BY <1>11 DEF vars, memVars
  <2>2. QED
    BY <1>1, <2>1, AbstractStep
<1>12. QED
  BY <1>2, <1>3, <1>4, <1>5, <1>6, <1>7, <1>8, <1>9, <1>10, <1>11 DEF Next

\* The keystore implements the abstract store: saves are atomic under crashes
\* and power losses at every step, and durable once they reported success.
THEOREM Refinement ==
  ASSUME FaultyWrites = FALSE PROVE Spec => StoresAtomically
<1>1. Inv /\ [Next]_vars => [Abstract!Next]_(Abstract!vars)
  BY StepRefines, Zenon
<1>2. QED
  BY <1>1, AbstractInit, Invariance, PTL DEF Spec, StoresAtomically, Abstract!Spec
=============================================================================
