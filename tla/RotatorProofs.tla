--------------------------- MODULE RotatorProofs ---------------------------
(***************************************************************************)
(* Proofs about Rotator, for every limit, calendar, clock and initial      *)
(* directory the constants allow.                                          *)
(***************************************************************************)
EXTENDS Rotator, FiniteSetTheorems, TLAPS

FileRecords == [kind : Kinds, ids : SUBSET Nat]

\* A directory: a finite set of names, each with a file.
DiskOK(d) ==
  /\ DOMAIN d \subseteq Names
  /\ IsFiniteSet(DOMAIN d)
  /\ d \in [DOMAIN d -> FileRecords]

\* A name rot.Rotate picks is a name, of the day of the rotation, and not the
\* name of a file that exists.
LEMMA NewNamesFresh ==
  ASSUME TypeOK, NEW t \in Times, NEW name \in NewNames(t)
  PROVE  name \in Names /\ name.day = DayOf[t] /\ name \notin Files
<1> DEFINE sameDay == {f \in Files : f.day = DayOf[t]}
<1>0. DayOf[t] \in Nat
  BY ConstantsAssumption
<1>1. CASE sameDay = {}
  <2>1. name = [day |-> DayOf[t], index |-> 0]
    BY <1>1 DEF NewNames
  <2>2. QED
    BY <2>1, <1>0, <1>1 DEF Names
<1>2. CASE sameDay # {}
  <2>1. PICK f \in sameDay : /\ \A g \in sameDay : g.index <= f.index
                             /\ name = [day |-> DayOf[t], index |-> f.index + 1]
    BY <1>2 DEF NewNames
  <2>2. f \in Names
    BY <2>1 DEF TypeOK
  <2>3. name \in Names /\ name.day = DayOf[t] /\ name.index = f.index + 1
    BY <1>0, <2>1, <2>2 DEF Names
  <2>4. name \notin Files
    BY <2>1, <2>2, <2>3 DEF Names
  <2>5. QED
    BY <2>3, <2>4
<1>3. QED
  BY <1>1, <1>2

\* When no file is of a later day than the rotation, the name it picks is sorted
\* after every existing file.
LEMMA NewNamesLatest ==
  ASSUME TypeOK, NEW t \in Times, NEW name \in NewNames(t),
         \A f \in Files : f.day <= DayOf[t]
  PROVE  \A f \in Files : Before(f, name)
<1> DEFINE sameDay == {f \in Files : f.day = DayOf[t]}
<1>0. DayOf[t] \in Nat
  BY ConstantsAssumption
<1>n. name.day = DayOf[t]
  BY NewNamesFresh
<1> SUFFICES ASSUME NEW f \in Files PROVE Before(f, name)
  OBVIOUS
<1>f. f \in Names /\ f.day \in Nat /\ f.index \in Nat
  BY DEF TypeOK, Names
<1>1. CASE f.day # DayOf[t]
  BY <1>0, <1>n, <1>f, <1>1 DEF Before
<1>2. CASE f.day = DayOf[t]
  <2>1. PICK g \in sameDay : /\ \A h \in sameDay : h.index <= g.index
                             /\ name = [day |-> DayOf[t], index |-> g.index + 1]
    BY <1>2 DEF NewNames
  <2>2. g.index \in Nat
    BY <2>1 DEF TypeOK, Names
  <2>3. QED
    BY <1>f, <1>2, <2>1, <2>2 DEF Before
<1>3. QED
  BY <1>1, <1>2

LEMMA StartNamesType ==
  ASSUME TypeOK, NEW t \in Times, NEW name \in StartNames(t)
  PROVE  name \in Names
<1>1. DayOf[t] \in Nat
  BY ConstantsAssumption
<1>2. QED
  BY <1>1 DEF StartNames, Names, TypeOK

LEMMA WithoutOK ==
  ASSUME TypeOK, NEW gone \in SUBSET Files
  PROVE  /\ DOMAIN Without(gone) = Files \ gone
         /\ \A f \in Files \ gone : Without(gone)[f] = disk[f]
         /\ DiskOK(Without(gone))
<1>1. IsFiniteSet(Files \ gone)
  BY FS_Subset DEF TypeOK
<1>2. QED
  BY <1>1 DEF Without, DiskOK, TypeOK, FileRecords, Files

LEMMA PlusOK ==
  ASSUME NEW d, DiskOK(d), NEW name \in Names
  PROVE  /\ DOMAIN Plus(d, name) = DOMAIN d \cup {name}
         /\ Plus(d, name)[name] = [kind |-> "regular", ids |-> {}]
         /\ \A f \in DOMAIN d : f # name => Plus(d, name)[f] = d[f]
         /\ DiskOK(Plus(d, name))
<1>1. IsFiniteSet(DOMAIN d \cup {name})
  BY FS_AddElement DEF DiskOK
<1>2. [kind |-> "regular", ids |-> {}] \in FileRecords
  BY DEF FileRecords, Kinds
<1>3. \A f \in DOMAIN d : d[f] \in FileRecords
  BY DEF DiskOK
<1>4. QED
  BY <1>1, <1>2, <1>3 DEF Plus, DiskOK

\* The part of TypeOK that GiveUp, WriteData and what is built from them set.
MethodTypeOK ==
  /\ DiskOK(disk)
  /\ active \in Names
  /\ open \in BOOLEAN
  /\ writes \in Nat
  /\ acked \subseteq Nat
  /\ session \in [bytes : Nat, first : Times, last : Times]
  /\ created \in Nat
  /\ res \in Results

LEMMA GiveUpType ==
  ASSUME TypeOK, NEW d, DiskOK(d), NEW name \in Names, NEW made \in Nat,
         NEW err \in Results, GiveUp(d, name, made, err)
  PROVE  MethodTypeOK'
BY ZenonT(30) DEF GiveUp, MethodTypeOK, TypeOK, DiskOK

LEMMA WriteDataType ==
  ASSUME TypeOK, NEW d, DiskOK(d), NEW name \in DOMAIN d, NEW made \in Nat,
         NEW s \in [bytes : Nat, first : Times, last : Times],
         NEW dataLen \in Nat, NEW t \in Times,
         WriteData(d, name, made, s, dataLen, t)
  PROVE  MethodTypeOK'
<1> DEFINE Sessions == [bytes : Nat, first : Times, last : Times]
<1>0. /\ active' = name /\ open' = TRUE /\ created' = made
      /\ writes' = writes + 1
  BY Zenon DEF WriteData
<1>1. name \in Names /\ writes' \in Nat /\ writes + 1 \in Nat /\ acked \subseteq Nat
  BY <1>0 DEF DiskOK, TypeOK
<1>2. CASE /\ disk' = [d EXCEPT ![name].ids = @ \cup {writes + 1}]
           /\ acked' = acked \cup {writes + 1}
           /\ session' = Wrote(s, dataLen, t)
           /\ res' = "ok"
  <2>1. \A f \in DOMAIN d : d[f] \in FileRecords
    BY DEF DiskOK
  <2>2. [d[name] EXCEPT !.ids = @ \cup {writes + 1}] \in FileRecords
    BY <1>1, <2>1 DEF FileRecords
  <2>3. /\ DOMAIN disk' = DOMAIN d
        /\ \A f \in DOMAIN d : disk'[f] \in FileRecords
    BY <1>2, <2>1, <2>2
  <2>4. disk' \in [DOMAIN disk' -> FileRecords]
    BY <1>2, <2>3, ZenonT(30)
  <2>5. DiskOK(disk)'
    BY <2>3, <2>4 DEF DiskOK
  <2>6. session' \in Sessions
    BY <1>2 DEF Wrote
  <2>7. acked' \subseteq Nat
    BY <1>1, <1>2
  <2>8. QED
    BY <1>0, <1>1, <1>2, <2>5, <2>6, <2>7 DEF MethodTypeOK, Results
<1>3. CASE \E n \in 0 .. dataLen :
             /\ disk' = d
             /\ session' = Wrote(s, n, t)
             /\ res' = "io"
             /\ UNCHANGED acked
  <2>1. session' \in Sessions
    BY <1>3 DEF Wrote
  <2>2. DiskOK(disk)' /\ res' = "io" /\ acked' \subseteq Nat
    BY <1>1, <1>3 DEF DiskOK
  <2>3. QED
    BY <1>0, <1>1, <2>1, <2>2 DEF MethodTypeOK, Results
<1>4. QED
  BY <1>2, <1>3 DEF WriteData

LEMMA OpenAndWriteType ==
  ASSUME TypeOK, NEW d, DiskOK(d), NEW name \in Names, NEW made \in Nat,
         NEW dataLen \in Nat, NEW t \in Times,
         OpenAndWrite(d, name, made, dataLen, t)
  PROVE  MethodTypeOK'
<1>1. CASE /\ name \notin DOMAIN d
           /\ WriteData(Plus(d, name), name, made + 1, NewSession(t), dataLen, t)
  <2>1. DiskOK(Plus(d, name)) /\ name \in DOMAIN Plus(d, name)
    BY PlusOK, ZenonT(30)
  <2>2. NewSession(t) \in [bytes : Nat, first : Times, last : Times]
    BY DEF NewSession
  <2>3. QED
    BY <1>1, <2>1, <2>2, WriteDataType
<1>2. CASE GiveUp(d, name, made, IF name \in DOMAIN d THEN "exist" ELSE "io")
  <2>1. (IF name \in DOMAIN d THEN "exist" ELSE "io") \in Results
    BY DEF Results
  <2>2. QED
    BY <1>2, <2>1, GiveUpType
<1>3. QED
  BY <1>1, <1>2 DEF OpenAndWrite

\* What the triggers answer, and how the answer leaves them.
LEMMA TriggerFacts ==
  ASSUME TypeOK, NEW dataLen \in Nat
  PROVE  LET tr == isRotationTriggered(dataLen)
         IN  /\ tr.init \in BOOLEAN
             /\ tr.last \in {lastRotate, now}
             /\ tr.size \in Nat
             /\ tr.size \in {0, size} \/ /\ tr.size = size + dataLen
                                         /\ tr.size <= MaxSizeBytes
             /\ tr.reason = "none" =>
                  /\ tr.size = size + dataLen
                  /\ tr.size <= MaxSizeBytes
                  /\ HasInterval => ~newInterval(lastRotate, now)
                  /\ tr.last = lastRotate
<1> USE ConstantsAssumption
<1>1. CASE initPending
  BY <1>1, ZenonT(30) DEF isRotationTriggered, TypeOK
<1>2. CASE ~initPending /\ HasInterval /\ newInterval(lastRotate, now)
  BY <1>2, ZenonT(30) DEF isRotationTriggered, TypeOK
<1>3. CASE ~initPending /\ ~(HasInterval /\ newInterval(lastRotate, now))
  <2> DEFINE fires == size + dataLen > MaxSizeBytes
  <2>1. isRotationTriggered(dataLen) =
          IF fires
            THEN [reason |-> "filesize", init |-> initPending,
                  last |-> lastRotate, size |-> 0]
            ELSE [reason |-> "none", init |-> initPending,
                  last |-> lastRotate, size |-> size + dataLen]
    BY <1>3 DEF isRotationTriggered
  <2>2. CASE fires
    BY <2>1, <2>2 DEF TypeOK
  <2>3. CASE ~fires
    BY <1>3, <2>1, <2>3 DEF TypeOK
  <2>4. QED
    BY <2>2, <2>3
<1>4. QED
  BY <1>1, <1>2, <1>3

LEMMA PurgeableType ==
  ASSUME NEW name, NEW gone \in Purgeable(name)
  PROVE  gone \subseteq Files \ {name}
BY DEF Purgeable

LEMMA RotateAndWriteType ==
  ASSUME TypeOK, NEW dataLen \in Nat, RotateAndWrite(dataLen)
  PROVE  MethodTypeOK' /\ now' \in Times
<1> DEFINE Body(t, name, gone) ==
      /\ now' = t
      /\ IF PurgeReturnsNil(name, gone)
           THEN OpenAndWrite(Without(gone), name, 0, dataLen, t)
           ELSE GiveUp(Without(gone), name, created, "io")
<1>a. PICK t \in Later : \E name \in NewNames(t) : \E gone \in Purgeable(name) :
        Body(t, name, gone)
  BY DEF RotateAndWrite
<1>b. PICK name \in NewNames(t) : \E gone \in Purgeable(name) :
        Body(t, name, gone)
  BY <1>a
<1>1. PICK gone \in Purgeable(name) : Body(t, name, gone)
  BY <1>b
<1>2. t \in Times /\ name \in Names
  BY <1>1, NewNamesFresh DEF Later
<1>3. DiskOK(Without(gone))
  BY <1>1, PurgeableType, WithoutOK, ZenonT(30)
<1>4. created \in Nat /\ "io" \in Results
  BY DEF TypeOK, Results
<1>5. CASE PurgeReturnsNil(name, gone)
  BY <1>1, <1>2, <1>3, <1>5, OpenAndWriteType
<1>6. CASE ~PurgeReturnsNil(name, gone)
  BY <1>1, <1>2, <1>3, <1>4, <1>6, GiveUpType
<1>7. QED
  BY <1>1, <1>2, <1>5, <1>6

LEMMA DiskTypeOK == TypeOK => DiskOK(disk)
BY DEF TypeOK, DiskOK, FileRecords, Files

LEMMA TypeFromParts ==
  ASSUME MethodTypeOK', now' \in Times, initPending' \in BOOLEAN,
         lastRotate' \in Times, size' \in Nat
  PROVE  TypeOK'
BY DEF MethodTypeOK, TypeOK, DiskOK, FileRecords, Files

LEMMA SetTriggersType ==
  ASSUME TypeOK, NEW dataLen \in Nat,
         SetTriggers(isRotationTriggered(dataLen))
  PROVE  initPending' \in BOOLEAN /\ lastRotate' \in Times /\ size' \in Nat
<1>1. lastRotate \in Times /\ now \in Times
  BY DEF TypeOK
<1>2. QED
  BY <1>1, TriggerFacts DEF SetTriggers

LEMMA InitType == Init => TypeOK
<1> SUFFICES ASSUME Init PROVE TypeOK
  OBVIOUS
<1>1. PICK names \in SUBSET {f \in InitialFiles : f.day <= DayOf[now]} :
        disk \in [names -> [kind : InitialKinds, ids : {{}}]]
  BY DEF Init
<1>2. Files = names /\ names \subseteq InitialFiles
  BY <1>1 DEF Files
<1>3. IsFiniteSet(Files) /\ Files \subseteq Names
  BY <1>2, FS_Subset, ConstantsAssumption DEF Names
<1>4. disk \in [Files -> FileRecords]
  BY <1>1, <1>2, ConstantsAssumption DEF FileRecords, Kinds
<1>5. now \in Times /\ DayOf[now] \in Nat
  BY ConstantsAssumption DEF Init
<1>6. active \in Names
  BY <1>3, <1>5 DEF Init, StartNames, Names
<1>7. created \in Nat
  BY <1>3, FS_CardinalityType DEF Init
<1>8. session \in [bytes : Nat, first : Times, last : Times]
  BY <1>5 DEF Init, NewSession
<1>9. initPending \in BOOLEAN /\ open \in BOOLEAN
  BY ZenonT(30) DEF Init
<1>10. QED
  BY <1>3, <1>4, <1>5, <1>6, <1>7, <1>8, <1>9
  DEF Init, TypeOK, FileRecords, Results

LEMMA WriteOpenType ==
  ASSUME TypeOK, WritesToRegularFile, NEW dataLen \in Nat, WriteOpen(dataLen)
  PROVE  TypeOK'
<1>0. open /\ active \in Files
  BY DEF WriteOpen, WritesToRegularFile
<1>1. initPending' \in BOOLEAN /\ lastRotate' \in Times /\ size' \in Nat
  BY SetTriggersType DEF WriteOpen
<1>2. DiskOK(disk) /\ active \in Names /\ created \in Nat /\ "io" \in Results
  BY DiskTypeOK DEF TypeOK, Results
<1>3. CASE WriteData(disk, active, created, session, dataLen, now) /\ now' = now
  BY <1>0, <1>1, <1>2, <1>3, WriteDataType, TypeFromParts DEF TypeOK, Files
<1>4. CASE RotateAndWrite(dataLen)
  BY <1>1, <1>4, RotateAndWriteType, TypeFromParts
<1>5. CASE GiveUp(disk, active, created, "io") /\ now' = now
  BY <1>1, <1>2, <1>5, GiveUpType, TypeFromParts, SMTT(30) DEF TypeOK
<1>6. QED
  BY <1>3, <1>4, <1>5 DEF WriteOpen

LEMMA WriteFirstType ==
  ASSUME TypeOK, NEW dataLen \in Nat, WriteFirst(dataLen)
  PROVE  TypeOK'
<1>1. DiskOK(disk) /\ active \in Names /\ created \in Nat /\ now \in Times
  BY DiskTypeOK DEF TypeOK
<1>2. MethodTypeOK'
  BY <1>1, OpenAndWriteType DEF WriteFirst
<1>3. UNCHANGED <<now, initPending, lastRotate, size>>
  BY DEF WriteFirst, trigs
<1>4. QED
  BY <1>2, <1>3, TypeFromParts DEF TypeOK

LEMMA WriteExistingType ==
  ASSUME TypeOK, NEW dataLen \in Nat, WriteExisting(dataLen)
  PROVE  TypeOK'
<1>1. initPending' \in BOOLEAN /\ lastRotate' \in Times /\ size' \in Nat
  <2>1. 0 \in Nat
    OBVIOUS
  <2>2. QED
    BY <2>1, SetTriggersType DEF WriteExisting
<1>2. /\ DiskOK(disk) /\ active \in Names /\ created \in Nat /\ "io" \in Results
      /\ now \in Times /\ active \in Files
  BY DiskTypeOK DEF TypeOK, Results, WriteExisting
<1>3. CASE /\ WriteData(disk, active, created, NewSession(now), dataLen, now)
           /\ now' = now
  <2>1. NewSession(now) \in [bytes : Nat, first : Times, last : Times]
    BY <1>2 DEF NewSession
  <2>2. QED
    BY <1>1, <1>2, <1>3, <2>1, WriteDataType, TypeFromParts DEF Files
<1>4. CASE RotateAndWrite(dataLen)
  BY <1>1, <1>4, RotateAndWriteType, TypeFromParts
<1>5. CASE GiveUp(disk, active, created, "io") /\ now' = now
  BY <1>1, <1>2, <1>5, GiveUpType, TypeFromParts
<1>6. QED
  BY <1>3, <1>4, <1>5 DEF WriteExisting

LEMMA RotateType == ASSUME TypeOK, Rotate PROVE TypeOK'
<1>1. UNCHANGED <<initPending, lastRotate, size>>
  BY DEF Rotate, trigs
<1>2. /\ DiskOK(disk) /\ active \in Names /\ created \in Nat /\ now \in Times
      /\ "io" \in Results /\ "ok" \in Results
  BY DiskTypeOK DEF TypeOK, Results
<1>3. CASE GiveUp(disk, active, created, "io") /\ now' = now
  BY <1>1, <1>2, <1>3, GiveUpType, TypeFromParts DEF TypeOK
<1>4. ASSUME NEW t \in Later, NEW name \in NewNames(t),
             NEW gone \in Purgeable(name), now' = t,
             IF PurgeReturnsNil(name, gone)
               THEN GiveUp(Without(gone), name, 0, "ok")
               ELSE GiveUp(Without(gone), name, created, "io")
      PROVE  TypeOK'
  <2>1. t \in Times /\ name \in Names
    BY NewNamesFresh DEF Later
  <2>2. DiskOK(Without(gone))
    BY PurgeableType, WithoutOK, ZenonT(30)
  <2>3. MethodTypeOK'
    BY <1>2, <1>4, <2>1, <2>2, GiveUpType
  <2>4. QED
    BY <1>1, <1>4, <2>1, <2>3, TypeFromParts DEF TypeOK
<1>5. QED
  BY <1>3, <1>4 DEF Rotate

LEMMA OtherType ==
  ASSUME TypeOK,
         \/ \E dataLen \in Lengths : WriteTooLarge(dataLen) \/ WriteFails(dataLen)
         \/ Close \/ Restart \/ Tick \/ UNCHANGED vars
  PROVE  TypeOK'
<1>1. /\ DiskOK(disk) /\ active \in Names /\ created \in Nat /\ now \in Times
      /\ "io" \in Results /\ "ok" \in Results /\ "toolarge" \in Results
  BY DiskTypeOK DEF TypeOK, Results
<1>2. CASE \E dataLen \in Lengths : WriteTooLarge(dataLen)
  BY <1>1, <1>2 DEF WriteTooLarge, TypeOK, Files
<1>3. CASE Close \/ \E dataLen \in Lengths : WriteFails(dataLen)
  <2>1. MethodTypeOK'
    BY <1>1, <1>3, GiveUpType DEF Close, WriteFails
  <2>2. QED
    BY <1>3, <2>1, TypeFromParts DEF Close, WriteFails, trigs, TypeOK
<1>4. CASE Restart
  <2>1. PICK name \in StartNames(now) :
          /\ GiveUp(disk, name, created, "ok")
          /\ initPending' = /\ RotateOnStartup
                            /\ name \in Files
                            /\ disk[name].kind # "dangling"
    BY <1>4 DEF Restart
  <2>2. MethodTypeOK' /\ initPending' \in BOOLEAN
    BY <1>1, <2>1, StartNamesType, GiveUpType
  <2>3. QED
    BY <1>1, <1>4, <2>2, TypeFromParts DEF Restart, TypeOK
<1>5. CASE Tick
  BY <1>5 DEF Tick, Later, TypeOK, Files
<1>6. CASE UNCHANGED vars
  BY <1>6 DEF vars, TypeOK, Files
<1>7. QED
  BY <1>2, <1>3, <1>4, <1>5, <1>6

-----------------------------------------------------------------------------
(* The open file, the error of openFile and the bytes of a session.        *)

\* Why SessionBounded holds: what a session wrote beyond its first write is
\* counted by the size trigger, which never counts above MaxSizeBytes.
SessionInv ==
  /\ size <= MaxSizeBytes
  /\ session.bytes <= 2 * MaxSizeBytes
  /\ open => session.bytes <= MaxSizeBytes + size

CoreInv ==
  /\ TypeOK
  /\ WritesToRegularFile
  /\ NeverCollides
  /\ SessionInv

LEMMA WriteDataEnds ==
  ASSUME TypeOK, NEW d, DiskOK(d), NEW name \in DOMAIN d,
         d[name].kind = "regular", NEW made \in Nat,
         NEW s \in [bytes : Nat, first : Times, last : Times],
         NEW dataLen \in Nat, NEW t \in Times,
         WriteData(d, name, made, s, dataLen, t)
  PROVE  /\ WritesToRegularFile' /\ res' # "exist" /\ open'
         /\ session'.bytes <= s.bytes + dataLen
         /\ session'.first = s.first /\ session'.last = t
<1>0. active' = name /\ open' = TRUE
  BY Zenon DEF WriteData
<1>1. CASE /\ disk' = [d EXCEPT ![name].ids = @ \cup {writes + 1}]
           /\ acked' = acked \cup {writes + 1}
           /\ session' = Wrote(s, dataLen, t)
           /\ res' = "ok"
  <2>1. d[name] \in FileRecords
    BY DEF DiskOK
  <2>2. disk'[name].kind = "regular" /\ name \in DOMAIN disk'
    BY <1>1, <2>1 DEF FileRecords
  <2>3. QED
    BY <1>0, <1>1, <2>2 DEF WritesToRegularFile, Wrote, Files
<1>2. CASE \E n \in 0 .. dataLen :
             /\ disk' = d
             /\ session' = Wrote(s, n, t)
             /\ res' = "io"
             /\ UNCHANGED acked
  BY <1>0, <1>2 DEF WritesToRegularFile, Wrote, Files
<1>3. QED
  BY <1>1, <1>2 DEF WriteData

LEMMA OpenAndWriteEnds ==
  ASSUME TypeOK, NEW d, DiskOK(d), NEW name \in Names, name \notin DOMAIN d,
         NEW made \in Nat, NEW dataLen \in Nat, NEW t \in Times,
         OpenAndWrite(d, name, made, dataLen, t)
  PROVE  /\ WritesToRegularFile' /\ res' # "exist"
         /\ open' => /\ session'.bytes <= dataLen
                     /\ session'.first = t /\ session'.last = t
         /\ ~open' => session' = session
<1>1. CASE WriteData(Plus(d, name), name, made + 1, NewSession(t), dataLen, t)
  <2>0. /\ DiskOK(Plus(d, name)) /\ name \in DOMAIN Plus(d, name)
        /\ Plus(d, name)[name] = [kind |-> "regular", ids |-> {}]
    BY PlusOK, ZenonT(30)
  <2>1. Plus(d, name)[name].kind = "regular"
    BY <2>0
  <2>2. /\ NewSession(t) \in [bytes : Nat, first : Times, last : Times]
        /\ NewSession(t).bytes = 0 /\ NewSession(t).first = t
    BY DEF NewSession
  <2>3. QED
    BY <1>1, <2>0, <2>1, <2>2, WriteDataEnds
<1>2. CASE GiveUp(d, name, made, IF name \in DOMAIN d THEN "exist" ELSE "io")
  BY <1>2 DEF GiveUp, WritesToRegularFile
<1>3. QED
  BY <1>1, <1>2, SMTT(30) DEF OpenAndWrite

LEMMA RotateAndWriteEnds ==
  ASSUME TypeOK, NEW dataLen \in Nat, RotateAndWrite(dataLen)
  PROVE  /\ WritesToRegularFile' /\ res' # "exist"
         /\ open' => /\ session'.bytes <= dataLen
                     /\ session'.first = now' /\ session'.last = now'
         /\ ~open' => session' = session
<1>1. ASSUME NEW t \in Later, NEW name \in NewNames(t),
             NEW gone \in Purgeable(name), now' = t,
             IF PurgeReturnsNil(name, gone)
               THEN OpenAndWrite(Without(gone), name, 0, dataLen, t)
               ELSE GiveUp(Without(gone), name, created, "io")
      PROVE  /\ WritesToRegularFile' /\ res' # "exist"
             /\ open' => /\ session'.bytes <= dataLen
                         /\ session'.first = t /\ session'.last = t
             /\ ~open' => session' = session
  <2>1. t \in Times /\ name \in Names /\ name \notin Files
    BY NewNamesFresh DEF Later
  <2>a. gone \in SUBSET Files
    BY PurgeableType
  <2>b. DiskOK(Without(gone)) /\ DOMAIN Without(gone) = Files \ gone
    BY <2>a, WithoutOK
  <2>2. DiskOK(Without(gone)) /\ name \notin DOMAIN Without(gone)
    BY <2>1, <2>b, SMTT(30)
  <2>3. CASE PurgeReturnsNil(name, gone)
    BY <1>1, <2>1, <2>2, <2>3, OpenAndWriteEnds
  <2>4. CASE ~PurgeReturnsNil(name, gone)
    BY <1>1, <2>4 DEF GiveUp, WritesToRegularFile
  <2>5. QED
    BY <2>3, <2>4
<1>2. QED
  BY <1>1 DEF RotateAndWrite

LEMMA CoreInit == Init => CoreInv
<1>1. Init => TypeOK
  BY InitType
<1>2. Init => WritesToRegularFile /\ NeverCollides /\ SessionInv
  BY ConstantsAssumption
  DEF Init, WritesToRegularFile, NeverCollides, SessionInv, NewSession
<1>3. QED
  BY <1>1, <1>2 DEF CoreInv

LEMMA CoreWriteOpen ==
  ASSUME CoreInv, NEW dataLen \in Nat, WriteOpen(dataLen)
  PROVE  CoreInv'
<1> USE ConstantsAssumption
<1> DEFINE tr == isRotationTriggered(dataLen)
<1>1. /\ TypeOK /\ open /\ active \in Files /\ disk[active].kind = "regular"
      /\ dataLen <= MaxSizeBytes /\ size' = tr.size
      /\ size \in Nat /\ session.bytes \in Nat
      /\ session \in [bytes : Nat, first : Times, last : Times]
      /\ size <= MaxSizeBytes /\ session.bytes <= MaxSizeBytes + size
  BY DEF CoreInv, WriteOpen, WritesToRegularFile, SessionInv, SetTriggers,
         TypeOK
<1>2. size' <= MaxSizeBytes /\ size' \in Nat
  BY <1>1, TriggerFacts
<1>3. TypeOK' /\ session'.bytes \in Nat
  <2>1. TypeOK'
    BY WriteOpenType DEF CoreInv
  <2>2. QED
    BY <2>1 DEF TypeOK
<1>4. CASE tr.reason = "none"
           /\ WriteData(disk, active, created, session, dataLen, now)
  <2>1. size' = size + dataLen
    BY <1>1, <1>4, TriggerFacts
  <2>2. DiskOK(disk) /\ active \in DOMAIN disk /\ created \in Nat /\ now \in Times
    BY <1>1, DiskTypeOK DEF TypeOK, Files
  <2>3. /\ WritesToRegularFile' /\ res' # "exist"
        /\ session'.bytes <= session.bytes + dataLen
    BY <1>1, <1>4, <2>2, WriteDataEnds, SMTT(30)
  <2>4. QED
    BY <1>1, <1>2, <1>3, <2>1, <2>3, SMTT(30) DEF CoreInv, SessionInv, NeverCollides
<1>5. CASE RotateAndWrite(dataLen)
  <2>1. /\ WritesToRegularFile' /\ res' # "exist"
        /\ open' => session'.bytes <= dataLen
        /\ ~open' => session' = session
    BY <1>1, <1>5, RotateAndWriteEnds
  <2>2. QED
    BY <1>1, <1>2, <1>3, <2>1 DEF CoreInv, SessionInv, NeverCollides
<1>6. CASE GiveUp(disk, active, created, "io")
  BY <1>1, <1>2, <1>3, <1>6
  DEF GiveUp, CoreInv, SessionInv, NeverCollides, WritesToRegularFile
<1>7. QED
  BY <1>4, <1>5, <1>6, SMTT(30) DEF WriteOpen

LEMMA CoreWriteFirst ==
  ASSUME CoreInv, NEW dataLen \in Nat, WriteFirst(dataLen)
  PROVE  CoreInv'
<1> USE ConstantsAssumption
<1>1. /\ TypeOK /\ DiskOK(disk) /\ active \in Names /\ active \notin DOMAIN disk
      /\ created \in Nat /\ now \in Times
  BY DiskTypeOK DEF CoreInv, WriteFirst, TypeOK, Files
<1>2. /\ dataLen <= MaxSizeBytes /\ size' = size
      /\ size \in Nat /\ session.bytes \in Nat
      /\ size <= MaxSizeBytes /\ session.bytes <= 2 * MaxSizeBytes
  BY DEF CoreInv, WriteFirst, SessionInv, TypeOK, trigs
<1>3. OpenAndWrite(disk, active, created, dataLen, now)
  BY DEF WriteFirst
<1>4. /\ WritesToRegularFile' /\ res' # "exist"
      /\ open' => session'.bytes <= dataLen
      /\ ~open' => session' = session
  BY <1>1, <1>3, OpenAndWriteEnds
<1>5. TypeOK'
  BY <1>1, WriteFirstType
<1>6. session'.bytes \in Nat
  BY <1>5 DEF TypeOK
<1>7. QED
  BY <1>2, <1>4, <1>5, <1>6, SMTT(30) DEF CoreInv, SessionInv, NeverCollides

LEMMA CoreWriteExisting ==
  ASSUME CoreInv, NEW dataLen \in Nat, WriteExisting(dataLen)
  PROVE  CoreInv'
<1> USE ConstantsAssumption
<1> DEFINE tr == isRotationTriggered(0)
<1>1. /\ TypeOK /\ active \in Files /\ dataLen <= MaxSizeBytes
      /\ size' = tr.size /\ size \in Nat /\ session.bytes \in Nat
      /\ size <= MaxSizeBytes /\ session.bytes <= 2 * MaxSizeBytes
  BY DEF CoreInv, WriteExisting, SessionInv, SetTriggers, TypeOK
<1>2. size' <= MaxSizeBytes /\ size' \in Nat
  BY <1>1, TriggerFacts
<1>3. TypeOK' /\ session'.bytes \in Nat
  <2>1. TypeOK'
    BY <1>1, WriteExistingType
  <2>2. QED
    BY <2>1 DEF TypeOK
<1>4. CASE /\ disk[active].kind = "regular"
           /\ WriteData(disk, active, created, NewSession(now), dataLen, now)
  <2>1. DiskOK(disk) /\ active \in DOMAIN disk /\ created \in Nat /\ now \in Times
    BY <1>1, DiskTypeOK DEF TypeOK, Files
  <2>2. /\ NewSession(now) \in [bytes : Nat, first : Times, last : Times]
        /\ NewSession(now).bytes = 0
    BY <2>1 DEF NewSession
  <2>3. /\ WritesToRegularFile' /\ res' # "exist"
        /\ session'.bytes <= dataLen
    BY <1>1, <1>4, <2>1, <2>2, WriteDataEnds
  <2>4. QED
    BY <1>1, <1>2, <1>3, <2>3 DEF CoreInv, SessionInv, NeverCollides
<1>5. CASE RotateAndWrite(dataLen)
  <2>1. /\ WritesToRegularFile' /\ res' # "exist"
        /\ open' => session'.bytes <= dataLen
        /\ ~open' => session' = session
    BY <1>1, <1>5, RotateAndWriteEnds
  <2>2. QED
    BY <1>1, <1>2, <1>3, <2>1, SMTT(30) DEF CoreInv, SessionInv, NeverCollides
<1>6. CASE GiveUp(disk, active, created, "io")
  BY <1>1, <1>2, <1>3, <1>6
  DEF GiveUp, CoreInv, SessionInv, NeverCollides, WritesToRegularFile
<1>7. QED
  BY <1>4, <1>5, <1>6, SMTT(30) DEF WriteExisting

LEMMA CoreOther ==
  ASSUME CoreInv,
         \/ \E dataLen \in Lengths : WriteTooLarge(dataLen) \/ WriteFails(dataLen)
         \/ Rotate \/ Close \/ Restart \/ Tick \/ UNCHANGED vars
  PROVE  CoreInv'
<1> USE ConstantsAssumption DEF CoreInv
<1>1. TypeOK'
  BY RotateType, OtherType, SMTT(30)
<1>2. CASE \E dataLen \in Lengths : WriteTooLarge(dataLen)
  BY <1>1, <1>2, SMTT(30)
  DEF WriteTooLarge, SessionInv, NeverCollides, WritesToRegularFile, Files
<1>3. CASE \/ Rotate \/ Close \/ Restart
           \/ \E dataLen \in Lengths : WriteFails(dataLen)
  <2>1. open' = FALSE /\ session' = session /\ res' # "exist"
    BY <1>3, ZenonT(30) DEF Rotate, Close, Restart, WriteFails, GiveUp
  <2>2. size' \in {0, size}
    BY <1>3, ZenonT(30) DEF Rotate, Close, Restart, WriteFails, trigs
  <2>3. QED
    BY <1>1, <2>1, <2>2, SMTT(30) DEF SessionInv, NeverCollides, WritesToRegularFile
<1>4. CASE Tick
  BY <1>1, <1>4, ZenonT(30) DEF Tick, SessionInv, NeverCollides, WritesToRegularFile, Files
<1>5. CASE UNCHANGED vars
  BY <1>1, <1>5, ZenonT(30) DEF vars, SessionInv, NeverCollides, WritesToRegularFile, Files
<1>6. QED
  BY <1>2, <1>3, <1>4, <1>5

LEMMA CoreStep == CoreInv /\ [Next]_vars => CoreInv'
<1> SUFFICES ASSUME CoreInv, [Next]_vars PROVE CoreInv'
  OBVIOUS
<1>1. ASSUME NEW dataLen \in Lengths,
             \/ WriteOpen(dataLen) \/ WriteFirst(dataLen)
             \/ WriteExisting(dataLen)
      PROVE  CoreInv'
  <2>1. dataLen \in Nat
    BY ConstantsAssumption
  <2>2. QED
    BY <1>1, <2>1, CoreWriteOpen, CoreWriteFirst, CoreWriteExisting, SMTT(30)
<1>2. CASE \/ \E dataLen \in Lengths : WriteTooLarge(dataLen) \/ WriteFails(dataLen)
           \/ Rotate \/ Close \/ Restart \/ Tick \/ UNCHANGED vars
  BY <1>2, CoreOther
<1>3. QED
  BY <1>1, <1>2 DEF Next

\* In every reachable state the variables have their types, r.file is a regular
\* file of the directory, no Write has failed because the name rot.Rotate picked
\* existed, and the bytes of a session are bounded by what the size trigger
\* counted plus one write.  Nothing is assumed about the clock.
THEOREM CoreInvariant == Spec => []CoreInv
BY CoreInit, CoreStep, PTL DEF Spec

\* Every variable of the rotator keeps its type.
THEOREM TypeCorrect == Spec => []TypeOK
<1>1. CoreInv => TypeOK
  BY DEF CoreInv
<1>2. QED
  BY <1>1, CoreInvariant, PTL

\* openFile's O_EXCL never meets an existing file: the name that
\* dateRotator.Rotate picks is new, whatever the clock did.
THEOREM NoCollision == Spec => []NeverCollides
<1>1. CoreInv => NeverCollides
  BY DEF CoreInv
<1>2. QED
  BY <1>1, CoreInvariant, PTL

\* The file r.file refers to exists and is not a symbolic link found on disk.
THEOREM RegularFileOnly == Spec => []WritesToRegularFile
<1>1. CoreInv => WritesToRegularFile
  BY DEF CoreInv
<1>2. QED
  BY <1>1, CoreInvariant, PTL

\* Between two openings of a file the rotator writes at most twice the
\* configured maximum size to it.
THEOREM SessionBound == Spec => []SessionBounded
<1>1. CoreInv => SessionBounded
  BY DEF CoreInv, SessionInv, SessionBounded
<1>2. QED
  BY <1>1, CoreInvariant, PTL

-----------------------------------------------------------------------------
(* The retained writes, when the clock is never set back.                  *)

\* Why RetainedIsSuffix holds.  The active name is the newest one and no name is
\* of a day to come, so a rotation picks a still newer name; writes are numbered
\* in order and go to the active file, so names follow time; and what purge
\* removes is older than all that stays.
Order(d, a, w, ack, t) ==
  /\ a.day <= DayOf[t]
  /\ \A f \in DOMAIN d : /\ f.day <= DayOf[t]
                         /\ f # a => Before(f, a)
                         /\ \A i \in d[f].ids : i <= w
  /\ \A i \in ack : i <= w
  /\ \A f, g \in DOMAIN d : Before(f, g) =>
       \A i \in d[f].ids, j \in d[g].ids : i < j
  /\ \A f \in DOMAIN d : \A i \in d[f].ids : \A j \in ack :
       j > i => \E g \in DOMAIN d : j \in d[g].ids

LEMMA BeforeIrreflexive ==
  ASSUME NEW f \in Names, NEW g \in Names, Before(f, g)
  PROVE  ~Before(g, f) /\ f # g
BY SMTT(30) DEF Names, Before

LEMMA OrderTime ==
  ASSUME NEW d, DiskOK(d), NEW a \in Names, NEW w, NEW ack,
         NEW s \in Times, NEW t \in Times, s <= t, Order(d, a, w, ack, s)
  PROVE  Order(d, a, w, ack, t)
<1>1. DayOf[s] \in Nat /\ DayOf[t] \in Nat /\ DayOf[s] <= DayOf[t]
  BY ConstantsAssumption
<1>2. \A f \in DOMAIN d : f.day \in Nat
  BY DEF DiskOK, Names
<1>3. a.day \in Nat
  BY SMTT(30) DEF Names
<1>4. QED
  BY <1>1, <1>2, <1>3 DEF Order

LEMMA OrderWithout ==
  ASSUME TypeOK, NEW t \in Times, NEW name \in NewNames(t),
         NEW gone \in Purgeable(name),
         Order(disk, active, writes, acked, t)
  PROVE  Order(Without(gone), name, writes, acked, t)
<1> DEFINE d == Without(gone)
<1>1. name \in Names /\ name.day = DayOf[t] /\ name \notin Files
  BY NewNamesFresh, SMTT(30)
<1>2. gone \in SUBSET Files /\ \A f \in gone, g \in Files \ gone : Before(f, g)
  BY <1>1 DEF Purgeable
<1>3. /\ DOMAIN d = Files \ gone
      /\ \A f \in Files \ gone : d[f] = disk[f]
  BY <1>2, WithoutOK
<1> HIDE DEF d
<1>4. \A f \in Files : /\ f.day <= DayOf[t] /\ \A i \in disk[f].ids : i <= writes
                       /\ f \in Names
                       /\ \A i \in disk[f].ids : i \in Nat
  BY SMTT(30) DEF Order, TypeOK, Files
<1>5. \A f \in Files : Before(f, name)
  BY <1>4, NewNamesLatest
<1>6. name.day <= DayOf[t]
  BY <1>1, ConstantsAssumption, SMTT(30)
<1>7. \A f \in DOMAIN d : /\ f.day <= DayOf[t]
                          /\ f # name => Before(f, name)
                          /\ \A i \in d[f].ids : i <= writes
  BY <1>3, <1>4, <1>5, SMTT(30)
<1>8. \A f, g \in DOMAIN d : Before(f, g) =>
        \A i \in d[f].ids, j \in d[g].ids : i < j
  BY <1>3 DEF Order, Files
<1>9. ASSUME NEW f \in DOMAIN d, NEW i \in d[f].ids, NEW j \in acked, j > i
      PROVE  \E g \in DOMAIN d : j \in d[g].ids
  <2>1. f \in Files /\ f \notin gone /\ i \in disk[f].ids
    BY <1>3, SMTT(30)
  <2>2. PICK g \in Files : j \in disk[g].ids
    BY <1>9, <2>1, SMTT(30) DEF Order, Files
  <2>3. CASE g \in gone
    <3>1. Before(g, f)
      BY <1>2, <2>1, <2>3, SMTT(30)
    <3>2. j < i
      BY <2>1, <2>2, <3>1, SMTT(30) DEF Order, Files
    <3>3. i \in Nat /\ j \in Nat
      BY <1>4, <2>1, <2>2, SMTT(30)
    <3>4. QED
      BY <1>9, <3>2, <3>3, SMTT(30)
  <2>4. CASE g \notin gone
    BY <1>3, <2>2, <2>4, SMTT(30)
  <2>5. QED
    BY <2>3, <2>4, SMTT(30)
<1>10. \A i \in acked : i <= writes
  BY SMTT(30) DEF Order
<1>11. QED
  BY <1>6, <1>7, <1>8, <1>9, <1>10, SMTT(30) DEF Order, d

LEMMA OrderPlus ==
  ASSUME NEW d, DiskOK(d), NEW a \in Names, a \notin DOMAIN d, NEW w, NEW ack,
         NEW t \in Times, Order(d, a, w, ack, t)
  PROVE  Order(Plus(d, a), a, w, ack, t)
<1> DEFINE e == Plus(d, a)
<1>1. /\ DOMAIN e = DOMAIN d \cup {a}
      /\ e[a] = [kind |-> "regular", ids |-> {}]
      /\ \A f \in DOMAIN d : f # a => e[f] = d[f]
  BY PlusOK, ZenonT(30)
<1> HIDE DEF e
<1>2. e[a].ids = {} /\ \A f \in DOMAIN d : e[f] = d[f]
  BY <1>1
<1>3. QED
  <2>1. \A f \in DOMAIN e : /\ f.day <= DayOf[t]
                            /\ f # a => Before(f, a)
                            /\ \A i \in e[f].ids : i <= w
    BY <1>1, <1>2, SMTT(30) DEF Order
  <2>2. \A f, g \in DOMAIN e : Before(f, g) =>
          \A i \in e[f].ids, j \in e[g].ids : i < j
    BY <1>1, <1>2, SMTT(30) DEF Order
  <2>3. \A f \in DOMAIN e : \A i \in e[f].ids : \A j \in ack :
          j > i => \E g \in DOMAIN e : j \in e[g].ids
    <3> SUFFICES ASSUME NEW f \in DOMAIN e, NEW i \in e[f].ids, NEW j \in ack,
                        j > i
                 PROVE  \E g \in DOMAIN e : j \in e[g].ids
      BY SMTT(30)
    <3>1. f \in DOMAIN d /\ i \in d[f].ids
      BY <1>1, <1>2, SMTT(30)
    <3>2. PICK g \in DOMAIN d : j \in d[g].ids
      BY <3>1, SMTT(30) DEF Order
    <3>3. QED
      BY <1>1, <1>2, <3>2
  <2>4. QED
    BY <2>1, <2>2, <2>3, SMTT(30) DEF Order, e

LEMMA OrderWrite ==
  ASSUME TypeOK, NEW d, DiskOK(d), NEW a \in DOMAIN d, NEW t \in Times,
         Order(d, a, writes, acked, t)
  PROVE  /\ Order([d EXCEPT ![a].ids = @ \cup {writes + 1}], a, writes + 1,
                  acked \cup {writes + 1}, t)
         /\ Order(d, a, writes + 1, acked, t)
<1> DEFINE e == [d EXCEPT ![a].ids = @ \cup {writes + 1}]
           w == writes + 1
<1>0. writes \in Nat /\ acked \subseteq Nat
  BY DEF TypeOK
<1>1. /\ DOMAIN e = DOMAIN d
      /\ e[a].ids = d[a].ids \cup {w}
      /\ \A f \in DOMAIN d : f # a => e[f] = d[f]
  BY DEF DiskOK, FileRecords
<1>2. \A f \in DOMAIN d : f \in Names /\ d[f].ids \subseteq Nat
  BY DEF DiskOK, FileRecords
<1>3. \A f \in DOMAIN d : \A i \in d[f].ids : i \in Nat /\ i <= writes /\ i < w
  BY <1>0, <1>2 DEF Order
<1> HIDE DEF e
<1>4. \A f \in DOMAIN e : /\ f.day <= DayOf[t]
                          /\ f # a => Before(f, a)
                          /\ \A i \in e[f].ids : i <= w
  BY <1>0, <1>1, <1>3 DEF Order
<1>a. \A i \in acked : i \in Nat /\ i <= writes
  <2>1. \A i \in acked : i <= writes
    BY Zenon DEF Order
  <2>2. QED
    BY <1>0, <2>1
<1>5. \A i \in acked \cup {w} : i <= w
  BY <1>0, <1>a, SMTT(30)
<1>6. ASSUME NEW f \in DOMAIN e, NEW g \in DOMAIN e, Before(f, g),
             NEW i \in e[f].ids, NEW j \in e[g].ids
      PROVE  i < j
  <2>1. f # a
    <3> SUFFICES ASSUME f = a PROVE FALSE
      BY SMTT(30)
    <3>1. g # f /\ ~Before(g, f)
      BY <1>1, <1>2, <1>6, BeforeIrreflexive, SMTT(30)
    <3>2. QED
      BY <1>1, <3>1 DEF Order
  <2>2. i \in d[f].ids
    BY <1>1, <2>1, SMTT(30)
  <2>3. CASE j \in d[g].ids
    BY <1>1, <1>6, <2>2, <2>3, SMTT(30) DEF Order
  <2>4. CASE j = w
    BY <1>1, <1>3, <2>2, <2>4, SMTT(30)
  <2>5. QED
    BY <1>1, <2>3, <2>4, SMTT(30)
<1>7. ASSUME NEW f \in DOMAIN e, NEW i \in e[f].ids, NEW j \in acked \cup {w},
             j > i
      PROVE  \E g \in DOMAIN e : j \in e[g].ids
  <2>1. CASE j = w
    BY <1>1, <2>1, SMTT(30)
  <2>2. CASE j \in acked
    <3>1. j <= writes /\ j \in Nat
      BY <1>0, <2>2 DEF Order
    <3>2. i # w
      BY <1>0, <1>7, <3>1, SMTT(30)
    <3>3. i \in d[f].ids
      BY <1>1, <3>2, SMTT(30)
    <3>4. PICK g \in DOMAIN d : j \in d[g].ids
      BY <1>1, <1>7, <2>2, <3>3, SMTT(30) DEF Order
    <3>5. QED
      BY <1>1, <3>4, SMTT(30)
  <2>3. QED
    BY <2>1, <2>2, SMTT(30)
<1>8. a.day <= DayOf[t]
  BY SMTT(30) DEF Order
<1>9. Order(e, a, w, acked \cup {w}, t)
  BY <1>4, <1>5, <1>6, <1>7, <1>8, SMTT(30) DEF Order
<1>10. Order(d, a, w, acked, t)
  <2>1. \A f \in DOMAIN d : /\ f.day <= DayOf[t]
                            /\ f # a => Before(f, a)
                            /\ \A i \in d[f].ids : i <= w
    BY <1>0, <1>3 DEF Order
  <2>2. \A i \in acked : i <= w
    BY <1>0, <1>a
  <2>3. QED
    BY <2>1, <2>2, SMTT(30) DEF Order
<1>11. QED
  BY <1>9, <1>10 DEF e

LEMMA WriteDataOrder ==
  ASSUME TypeOK, NEW d, DiskOK(d), NEW a \in DOMAIN d, NEW made, NEW s,
         NEW dataLen, NEW t \in Times, Order(d, a, writes, acked, t),
         WriteData(d, a, made, s, dataLen, t)
  PROVE  Order(disk', active', writes', acked', t)
<1>1. active' = a /\ writes' = writes + 1
  BY Zenon DEF WriteData
<1>2. \/ /\ disk' = [d EXCEPT ![a].ids = @ \cup {writes + 1}]
         /\ acked' = acked \cup {writes + 1}
      \/ disk' = d /\ acked' = acked
  BY Zenon DEF WriteData
<1>3. /\ Order([d EXCEPT ![a].ids = @ \cup {writes + 1}], a, writes + 1,
               acked \cup {writes + 1}, t)
      /\ Order(d, a, writes + 1, acked, t)
  BY OrderWrite
<1>4. QED
  BY Zenon, <1>1, <1>2, <1>3

LEMMA OpenAndWriteOrder ==
  ASSUME TypeOK, NEW d, DiskOK(d), NEW a \in Names, NEW made, NEW dataLen,
         NEW t \in Times, Order(d, a, writes, acked, t),
         OpenAndWrite(d, a, made, dataLen, t)
  PROVE  Order(disk', active', writes', acked', t)
<1>1. CASE /\ a \notin DOMAIN d
           /\ WriteData(Plus(d, a), a, made + 1, NewSession(t), dataLen, t)
  <2>1. DiskOK(Plus(d, a)) /\ a \in DOMAIN Plus(d, a)
    BY <1>1, PlusOK, ZenonT(30)
  <2>2. Order(Plus(d, a), a, writes, acked, t)
    BY <1>1, OrderPlus
  <2>3. QED
    BY <1>1, <2>1, <2>2, WriteDataOrder, SMTT(30)
<1>2. CASE GiveUp(d, a, made, IF a \in DOMAIN d THEN "exist" ELSE "io")
  BY <1>2 DEF GiveUp
<1>3. QED
  BY <1>1, <1>2 DEF OpenAndWrite

LEMMA RotateAndWriteOrder ==
  ASSUME TypeOK, MonotoneClock, NEW dataLen,
         Order(disk, active, writes, acked, now), RotateAndWrite(dataLen)
  PROVE  Order(disk', active', writes', acked', now')
<1>1. PICK t \in Later : \E name \in NewNames(t) : \E gone \in Purgeable(name) :
        /\ now' = t
        /\ IF PurgeReturnsNil(name, gone)
             THEN OpenAndWrite(Without(gone), name, 0, dataLen, t)
             ELSE GiveUp(Without(gone), name, created, "io")
  BY Zenon DEF RotateAndWrite
<1>2. PICK name \in NewNames(t) : \E gone \in Purgeable(name) :
        /\ now' = t
        /\ IF PurgeReturnsNil(name, gone)
             THEN OpenAndWrite(Without(gone), name, 0, dataLen, t)
             ELSE GiveUp(Without(gone), name, created, "io")
  BY Zenon, <1>1
<1>3. PICK gone \in Purgeable(name) :
        /\ now' = t
        /\ IF PurgeReturnsNil(name, gone)
             THEN OpenAndWrite(Without(gone), name, 0, dataLen, t)
             ELSE GiveUp(Without(gone), name, created, "io")
  BY Zenon, <1>2
<1>4. t \in Times /\ now \in Times /\ now <= t
  BY SMTT(30) DEF Later, TypeOK
<1>5. Order(disk, active, writes, acked, t)
  BY <1>4, OrderTime, DiskTypeOK, SMTT(30) DEF TypeOK
<1>6. Order(Without(gone), name, writes, acked, t)
  BY <1>4, <1>5, OrderWithout, SMTT(30)
<1>7. name \in Names /\ DiskOK(Without(gone))
  BY <1>4, NewNamesFresh, PurgeableType, WithoutOK, ZenonT(30)
<1>8. CASE OpenAndWrite(Without(gone), name, 0, dataLen, t)
  BY <1>3, <1>4, <1>6, <1>7, <1>8, OpenAndWriteOrder
<1>9. CASE GiveUp(Without(gone), name, created, "io")
  BY <1>3, <1>6, <1>9 DEF GiveUp
<1>10. QED
  BY <1>3, <1>8, <1>9

OrderInv == MonotoneClock => Order(disk, active, writes, acked, now)

LEMMA OrderInit == Init => OrderInv
<1> SUFFICES ASSUME Init PROVE Order(disk, active, writes, acked, now)
  BY DEF OrderInv
<1>1. TypeOK
  BY InitType
<1>2. acked = {} /\ writes = 0 /\ active \in StartNames(now) /\ now \in Times
  BY DEF Init
<1>3. /\ \A f \in Files : f.day <= DayOf[now]
      /\ \A f \in Files : disk[f].ids = {}
  <2>1. PICK names \in SUBSET {f \in InitialFiles : f.day <= DayOf[now]} :
          disk \in [names -> [kind : InitialKinds, ids : {{}}]]
    BY DEF Init
  <2>2. QED
    BY <2>1, SMTT(30) DEF Files
<1>4. CASE Files = {}
  <2>1. active = [day |-> DayOf[now], index |-> 0]
    BY <1>2, <1>4, SMTT(30) DEF StartNames
  <2>2. QED
    BY <1>2, <1>4, <2>1, ConstantsAssumption, SMTT(30) DEF Order, Files
<1>5. CASE Files # {}
  <2>1. active \in Files /\ \A g \in Files : g # active => Before(g, active)
    BY <1>2, <1>5, SMTT(30) DEF StartNames
  <2>2. QED
    BY <1>2, <1>3, <2>1 DEF Order, Files
<1>6. QED
  BY <1>4, <1>5

LEMMA OrderStep == CoreInv /\ OrderInv /\ [Next]_vars => OrderInv'
<1> SUFFICES ASSUME CoreInv, [Next]_vars, MonotoneClock,
                    Order(disk, active, writes, acked, now)
             PROVE  Order(disk', active', writes', acked', now')
  BY DEF OrderInv
<1>0. /\ TypeOK /\ DiskOK(disk) /\ active \in Names /\ now \in Times
      /\ Files = DOMAIN disk
  BY DiskTypeOK, SMTT(30) DEF CoreInv, TypeOK, Files
<1>1. ASSUME NEW dataLen \in Lengths, WriteOpen(dataLen)
      PROVE  Order(disk', active', writes', acked', now')
  <2>1. active \in DOMAIN disk
    BY <1>0, <1>1 DEF CoreInv, WritesToRegularFile, WriteOpen
  <2>2. CASE /\ WriteData(disk, active, created, session, dataLen, now)
             /\ UNCHANGED now
    BY <1>0, <2>1, <2>2, WriteDataOrder
  <2>3. CASE RotateAndWrite(dataLen)
    BY <1>0, <2>3, RotateAndWriteOrder
  <2>4. CASE GiveUp(disk, active, created, "io") /\ UNCHANGED now
    BY <2>4 DEF GiveUp
  <2>5. QED
    BY <1>1, <2>2, <2>3, <2>4, SMTT(30) DEF WriteOpen
<1>2. ASSUME NEW dataLen \in Lengths, WriteFirst(dataLen)
      PROVE  Order(disk', active', writes', acked', now')
  <2>1. OpenAndWrite(disk, active, created, dataLen, now) /\ now' = now
    BY <1>2, SMTT(30) DEF WriteFirst
  <2>2. QED
    BY <1>0, <2>1, OpenAndWriteOrder
<1>3. ASSUME NEW dataLen \in Lengths, WriteExisting(dataLen)
      PROVE  Order(disk', active', writes', acked', now')
  <2>1. active \in DOMAIN disk
    BY <1>0, <1>3, SMTT(30) DEF WriteExisting
  <2>2. CASE /\ WriteData(disk, active, created, NewSession(now), dataLen, now)
             /\ UNCHANGED now
    BY <1>0, <2>1, <2>2, WriteDataOrder, SMTT(30)
  <2>3. CASE GiveUp(disk, active, created, "io") /\ UNCHANGED now
    BY <2>3 DEF GiveUp
  <2>4. CASE RotateAndWrite(dataLen)
    BY <1>0, <2>4, RotateAndWriteOrder
  <2>5. QED
    BY <1>3, <2>2, <2>3, <2>4, SMTT(30) DEF WriteExisting
<1>4. CASE Rotate
  <2>1. CASE GiveUp(disk, active, created, "io") /\ UNCHANGED now
    BY <2>1 DEF GiveUp
  <2>2. ASSUME NEW t \in Later, NEW name \in NewNames(t),
               NEW gone \in Purgeable(name), now' = t,
               \/ GiveUp(Without(gone), name, 0, "ok")
               \/ GiveUp(Without(gone), name, created, "io")
        PROVE  Order(disk', active', writes', acked', now')
    <3>1. t \in Times /\ now <= t
      BY DEF Later
    <3>2. Order(disk, active, writes, acked, t)
      BY <1>0, <3>1, OrderTime
    <3>3. Order(Without(gone), name, writes, acked, t)
      BY <1>0, <3>1, <3>2, OrderWithout, SMTT(30)
    <3>4. /\ disk' = Without(gone) /\ active' = name
          /\ writes' = writes /\ acked' = acked
      BY <2>2 DEF GiveUp
    <3>5. QED
      BY <2>2, <3>3, <3>4
  <2>3. QED
    BY <1>4, <2>1, <2>2 DEF Rotate
<1>5. CASE Restart
  <2>1. PICK name \in StartNames(now) : GiveUp(disk, name, created, "ok")
    BY <1>5, SMTT(30) DEF Restart
  <2>2. /\ disk' = disk /\ active' = name /\ writes' = writes
        /\ acked' = acked /\ now' = now
    BY <1>5, <2>1, SMTT(30) DEF GiveUp, Restart
  <2>3. Order(disk, name, writes, acked, now)
    <3>1. CASE Files = {}
      <4>1. name = [day |-> DayOf[now], index |-> 0]
        BY <3>1, SMTT(30) DEF StartNames
      <4>2. QED
        BY <1>0, <3>1, <4>1, ConstantsAssumption, SMTT(30) DEF Order
    <3>2. CASE Files # {}
      <4>1. name \in Files /\ \A g \in Files : g # name => Before(g, name)
        BY <3>2 DEF StartNames
      <4>2. QED
        BY <1>0, <4>1 DEF Order
    <3>3. QED
      BY <3>1, <3>2, SMTT(30)
  <2>4. QED
    BY <2>2, <2>3, SMTT(30)
<1>6. CASE Tick
  <2>1. now' \in Times /\ now <= now'
    BY <1>6 DEF Tick, Later
  <2>2. Order(disk, active, writes, acked, now')
    BY <1>0, <2>1, OrderTime, SMTT(30)
  <2>3. QED
    BY <1>6, <2>2 DEF Tick
<1>7. CASE \/ Close
           \/ \E dataLen \in Lengths : WriteTooLarge(dataLen) \/ WriteFails(dataLen)
  BY <1>7 DEF Close, GiveUp, WriteTooLarge, WriteFails
<1>8. CASE UNCHANGED vars
  BY <1>8 DEF vars
<1>9. QED
  BY <1>1, <1>2, <1>3, <1>4, <1>5, <1>6, <1>7, <1>8, SMTT(30) DEF Next

\* With a clock that is never set back the order of the names is the order of
\* the writes, and purging removes writes oldest first.
THEOREM OrderInvariant == Spec => [](CoreInv /\ OrderInv)
BY CoreInit, CoreStep, OrderInit, OrderStep, PTL DEF Spec

\* When the clock is never set back, what the rotator keeps of the successful
\* writes is a suffix of them: purging, failing and restarting never leave a
\* gap.
THEOREM SuffixRetained == Spec => []RetainedIsSuffix
<1>1. OrderInv => RetainedIsSuffix
  <2> SUFFICES ASSUME OrderInv, MonotoneClock, NEW i \in Retained,
                      NEW j \in acked, j > i
               PROVE  j \in Retained
    BY DEF RetainedIsSuffix
  <2>1. PICK f \in Files : i \in disk[f].ids
    BY DEF Retained
  <2>2. PICK g \in Files : j \in disk[g].ids
    BY <2>1, SMTT(30) DEF OrderInv, Order, Files
  <2>3. QED
    BY <2>2 DEF Retained
<1>2. QED
  BY <1>1, OrderInvariant, PTL

\* When the clock is never set back, sorting the files by name sorts the writes
\* in them by age.
THEOREM NamesOrdered == Spec => []NamesFollowTime
<1>1. OrderInv => NamesFollowTime
  BY DEF OrderInv, Order, NamesFollowTime, Files
<1>2. QED
  BY <1>1, OrderInvariant, PTL

-----------------------------------------------------------------------------
(* The number of files in the directory.                                   *)

\* DirectoryBounded of a directory d with made files created since the last
\* purge that reported success.
Bounded(d, made) ==
  (\A f \in DOMAIN d : d[f].kind # "dangling") =>
    Cardinality(DOMAIN d) <= MaxBackups + made

\* purge never adds a file and never removes a dangling link, so the bound
\* stays; and when it reports success and met no dangling link, no more than
\* MaxBackups files are left.
LEMMA BoundedWithout ==
  ASSUME TypeOK, Bounded(disk, created), NEW t \in Times,
         NEW name \in NewNames(t), NEW gone \in Purgeable(name)
  PROVE  /\ Bounded(Without(gone), created)
         /\ PurgeReturnsNil(name, gone) => Bounded(Without(gone), 0)
<1> DEFINE d == Without(gone)
<1>1. name \notin Files /\ Files \ {name} = Files
  BY NewNamesFresh, SMTT(30)
<1>2. /\ gone \in SUBSET Files
      /\ Cardinality(gone) <= Excess(Files)
      /\ \A f \in gone : disk[f].kind # "dangling"
  BY <1>1, SMTT(30) DEF Purgeable
<1>3. /\ DOMAIN d = Files \ gone
      /\ \A f \in Files \ gone : d[f] = disk[f]
  BY <1>2, WithoutOK, ZenonT(30)
<1> HIDE DEF d
<1>4. SUFFICES ASSUME \A f \in DOMAIN d : d[f].kind # "dangling"
               PROVE  /\ Cardinality(DOMAIN d) <= MaxBackups + created
                      /\ PurgeReturnsNil(name, gone) =>
                           Cardinality(DOMAIN d) <= MaxBackups + 0
  BY DEF Bounded, d
<1>5. \A f \in Files : disk[f].kind # "dangling"
  BY <1>2, <1>3, <1>4
<1>6. IsFiniteSet(Files) /\ IsFiniteSet(gone)
  BY <1>2, FS_Subset, SMTT(30) DEF TypeOK
<1>7. /\ Cardinality(Files) \in Nat /\ Cardinality(gone) \in Nat
      /\ Cardinality(DOMAIN d) \in Nat
      /\ Cardinality(DOMAIN d) = Cardinality(Files) - Cardinality(gone)
  <2>1. Files \cap gone = gone
    BY <1>2
  <2>2. Cardinality(Files \ gone) = Cardinality(Files) - Cardinality(gone)
    BY <1>6, <2>1, FS_Difference
  <2>3. QED
    BY <1>3, <1>6, <2>2, FS_CardinalityType, FS_Difference, ZenonT(30)
<1>8. MaxBackups \in Nat /\ created \in Nat
  BY ConstantsAssumption DEF TypeOK
<1>9. Cardinality(Files) <= MaxBackups + created
  BY <1>5 DEF Bounded, Files
<1>10. ASSUME PurgeReturnsNil(name, gone)
       PROVE  Cardinality(DOMAIN d) <= MaxBackups
  <2>1. Cardinality(gone) = Excess(Files)
    BY <1>1, <1>5, <1>10, SMTT(30) DEF PurgeReturnsNil
  <2>2. QED
    BY <1>7, <1>8, <2>1, SMTT(30) DEF Excess
<1>11. QED
  BY <1>7, <1>8, <1>9, <1>10, SMTT(30)

LEMMA BoundedPlus ==
  ASSUME NEW d, DiskOK(d), NEW name \in Names, name \notin DOMAIN d,
         NEW made \in Nat, Bounded(d, made)
  PROVE  Bounded(Plus(d, name), made + 1)
<1>1. /\ DOMAIN Plus(d, name) = DOMAIN d \cup {name}
      /\ \A f \in DOMAIN d : Plus(d, name)[f] = d[f]
  BY PlusOK, SMTT(30)
<1>2. IsFiniteSet(DOMAIN d) /\ Cardinality(DOMAIN d) \in Nat
  BY FS_CardinalityType DEF DiskOK
<1>3. Cardinality(DOMAIN Plus(d, name)) = Cardinality(DOMAIN d) + 1
  BY <1>1, <1>2, FS_AddElement
<1>4. QED
  BY <1>1, <1>2, <1>3, ConstantsAssumption, SMTT(30) DEF Bounded

LEMMA BoundedWrite ==
  ASSUME NEW d, DiskOK(d), NEW name \in DOMAIN d, NEW made, NEW s,
         NEW dataLen, NEW t, Bounded(d, made),
         WriteData(d, name, made, s, dataLen, t)
  PROVE  Bounded(disk', created')
<1>1. created' = made
  BY Zenon DEF WriteData
<1>2. CASE disk' = [d EXCEPT ![name].ids = @ \cup {writes + 1}]
  <2>1. d[name] \in FileRecords
    BY DEF DiskOK
  <2>2. DOMAIN disk' = DOMAIN d
    BY <1>2
  <2>3. \A f \in DOMAIN d : disk'[f].kind = d[f].kind
    BY <1>2, <2>1 DEF FileRecords
  <2>4. QED
    BY <1>1, <2>2, <2>3 DEF Bounded
<1>3. CASE disk' = d
  BY <1>1, <1>3, SMTT(30)
<1>4. QED
  BY <1>2, <1>3, Zenon DEF WriteData

LEMMA BoundedOpenAndWrite ==
  ASSUME NEW d, DiskOK(d), NEW name \in Names, NEW made \in Nat, NEW dataLen,
         NEW t, Bounded(d, made), OpenAndWrite(d, name, made, dataLen, t)
  PROVE  Bounded(disk', created')
<1>1. CASE /\ name \notin DOMAIN d
           /\ WriteData(Plus(d, name), name, made + 1, NewSession(t), dataLen, t)
  <2>1. DiskOK(Plus(d, name)) /\ name \in DOMAIN Plus(d, name)
    BY PlusOK, ZenonT(30)
  <2>2. Bounded(Plus(d, name), made + 1)
    BY <1>1, BoundedPlus
  <2>3. QED
    BY <1>1, <2>1, <2>2, BoundedWrite, SMTT(30)
<1>2. CASE GiveUp(d, name, made, IF name \in DOMAIN d THEN "exist" ELSE "io")
  BY <1>2 DEF GiveUp
<1>3. QED
  BY <1>1, <1>2, SMTT(30) DEF OpenAndWrite

LEMMA BoundedRotateAndWrite ==
  ASSUME TypeOK, Bounded(disk, created), NEW dataLen, RotateAndWrite(dataLen)
  PROVE  Bounded(disk', created')
<1>1. ASSUME NEW t \in Later, NEW name \in NewNames(t),
             NEW gone \in Purgeable(name),
             IF PurgeReturnsNil(name, gone)
               THEN OpenAndWrite(Without(gone), name, 0, dataLen, t)
               ELSE GiveUp(Without(gone), name, created, "io")
      PROVE  Bounded(disk', created')
  <2>1. t \in Times /\ name \in Names
    BY NewNamesFresh DEF Later
  <2>2. DiskOK(Without(gone))
    BY PurgeableType, WithoutOK, ZenonT(30)
  <2>3. CASE PurgeReturnsNil(name, gone)
    BY <1>1, <2>1, <2>2, <2>3, BoundedWithout, BoundedOpenAndWrite
  <2>4. CASE ~PurgeReturnsNil(name, gone)
    BY <1>1, <2>1, <2>4, BoundedWithout DEF GiveUp
  <2>5. QED
    BY <2>3, <2>4
<1>2. QED
  BY <1>1 DEF RotateAndWrite

LEMMA BoundedInit == Init => Bounded(disk, created)
<1> SUFFICES ASSUME Init PROVE Bounded(disk, created)
  BY SMTT(30)
<1>1. TypeOK
  BY InitType
<1>2. Cardinality(Files) \in Nat /\ created = Cardinality(Files)
  BY <1>1, FS_CardinalityType DEF TypeOK, Init
<1>3. QED
  BY <1>2, ConstantsAssumption DEF Bounded, Files

LEMMA BoundedStep ==
  CoreInv /\ Bounded(disk, created) /\ [Next]_vars => Bounded(disk, created)'
<1> SUFFICES ASSUME CoreInv, Bounded(disk, created), [Next]_vars
             PROVE  Bounded(disk', created')
  BY SMTT(30)
<1>0. /\ TypeOK /\ DiskOK(disk) /\ active \in Names /\ created \in Nat
      /\ Files = DOMAIN disk
  BY DiskTypeOK, SMTT(30) DEF CoreInv, TypeOK, Files
<1>1. ASSUME NEW dataLen \in Lengths, WriteOpen(dataLen)
      PROVE  Bounded(disk', created')
  <2>1. active \in DOMAIN disk
    BY <1>0, <1>1, ZenonT(30) DEF CoreInv, WritesToRegularFile, WriteOpen
  <2>2. CASE WriteData(disk, active, created, session, dataLen, now)
    BY <1>0, <2>1, <2>2, BoundedWrite
  <2>3. CASE RotateAndWrite(dataLen)
    BY <1>0, <2>3, BoundedRotateAndWrite
  <2>4. CASE GiveUp(disk, active, created, "io")
    BY <2>4 DEF GiveUp
  <2>5. QED
    BY <1>1, <2>2, <2>3, <2>4, SMTT(30) DEF WriteOpen
<1>2. ASSUME NEW dataLen \in Lengths, WriteFirst(dataLen)
      PROVE  Bounded(disk', created')
  <2>1. OpenAndWrite(disk, active, created, dataLen, now)
    BY <1>2, SMTT(30) DEF WriteFirst
  <2>2. QED
    BY <1>0, <2>1, BoundedOpenAndWrite
<1>3. ASSUME NEW dataLen \in Lengths, WriteExisting(dataLen)
      PROVE  Bounded(disk', created')
  <2>1. active \in DOMAIN disk
    BY <1>0, <1>3 DEF WriteExisting
  <2>2. CASE WriteData(disk, active, created, NewSession(now), dataLen, now)
    BY <1>0, <2>1, <2>2, BoundedWrite, SMTT(30)
  <2>3. CASE GiveUp(disk, active, created, "io")
    BY <2>3 DEF GiveUp
  <2>4. CASE RotateAndWrite(dataLen)
    BY <1>0, <2>4, BoundedRotateAndWrite
  <2>5. QED
    BY <1>3, <2>2, <2>3, <2>4, SMTT(30) DEF WriteExisting
<1>4. CASE Rotate
  <2>1. CASE GiveUp(disk, active, created, "io")
    BY <2>1 DEF GiveUp
  <2>2. ASSUME NEW t \in Later, NEW name \in NewNames(t),
               NEW gone \in Purgeable(name),
               IF PurgeReturnsNil(name, gone)
                 THEN GiveUp(Without(gone), name, 0, "ok")
                 ELSE GiveUp(Without(gone), name, created, "io")
        PROVE  Bounded(disk', created')
    <3>1. t \in Times
      BY DEF Later
    <3>2. CASE PurgeReturnsNil(name, gone)
      BY <1>0, <2>2, <3>1, <3>2, BoundedWithout, SMTT(30) DEF GiveUp
    <3>3. CASE ~PurgeReturnsNil(name, gone)
      BY <1>0, <2>2, <3>1, <3>3, BoundedWithout, SMTT(30) DEF GiveUp
    <3>4. QED
      BY <3>2, <3>3
  <2>3. QED
    BY <1>4, <2>1, <2>2 DEF Rotate
<1>5. CASE \/ Close \/ Restart \/ Tick \/ UNCHANGED vars
           \/ \E dataLen \in Lengths : WriteTooLarge(dataLen) \/ WriteFails(dataLen)
  BY <1>5, ZenonT(30) DEF Close, Restart, GiveUp, Tick, vars, WriteTooLarge, WriteFails
<1>6. QED
  BY <1>1, <1>2, <1>3, <1>4, <1>5 DEF Next

\* Without a dangling link in it, the directory holds at most MaxBackups files
\* and the ones created since purge last reported success, across failed
\* purges, restarts and a clock that is set back.
THEOREM DirectoryBound == Spec => []DirectoryBounded
<1>1. Bounded(disk, created) <=> DirectoryBounded
  BY DEF Bounded, DirectoryBounded, Files
<1>2. QED
  BY <1>1, CoreInit, CoreStep, BoundedInit, BoundedStep, PTL DEF Spec

-----------------------------------------------------------------------------
(* The instants of a session.                                              *)

\* Why SessionInOneInterval holds.  The interval trigger compares the clock with
\* lastRotate, not with the opening of the file, and openNew opens a file
\* without asking it; but lastRotate is never after the opening, so when it lies
\* in the interval of a write then so does everything in between.
IntervalInv ==
  MonotoneClock /\ HasInterval =>
    /\ lastRotate <= now
    /\ open => /\ lastRotate <= session.first
               /\ session.first <= session.last
               /\ session.last <= now
    /\ ~newInterval(session.first, session.last)

\* A step that leaves no file open leaves the session as it was.
LEMMA IntervalClosed ==
  ASSUME TypeOK, IntervalInv, ~open', session' = session, now' \in Later,
         lastRotate' \in {lastRotate, now}
  PROVE  IntervalInv'
BY ConstantsAssumption DEF IntervalInv, TypeOK, Later, newInterval

\* A step that opens a file starts a session at the instant it shows.
LEMMA IntervalOpened ==
  ASSUME TypeOK, IntervalInv, session'.first = now', session'.last = now',
         now' \in Later, lastRotate' \in {lastRotate, now}
  PROVE  IntervalInv'
BY ConstantsAssumption DEF IntervalInv, TypeOK, Later, newInterval

LEMMA IntervalRotateAndWrite ==
  ASSUME TypeOK, IntervalInv, NEW dataLen \in Nat, RotateAndWrite(dataLen),
         lastRotate' \in {lastRotate, now}
  PROVE  IntervalInv'
<1>1. now' \in Later
  BY SMTT(30) DEF RotateAndWrite
<1>2. /\ open' => session'.first = now' /\ session'.last = now'
      /\ ~open' => session' = session
  BY RotateAndWriteEnds, SMTT(30)
<1>3. QED
  BY <1>1, <1>2, IntervalClosed, IntervalOpened, SMTT(30)

LEMMA NowIsLater == TypeOK => now \in Later
BY ConstantsAssumption, SMTT(30) DEF TypeOK, Later

LEMMA IntervalWriteOpen ==
  ASSUME CoreInv, IntervalInv, NEW dataLen \in Nat, WriteOpen(dataLen)
  PROVE  IntervalInv'
<1> DEFINE tr == isRotationTriggered(dataLen)
<1>1. /\ TypeOK /\ open /\ active \in Files /\ disk[active].kind = "regular"
      /\ lastRotate' = tr.last /\ now \in Later
  BY NowIsLater, SMTT(30) DEF CoreInv, WriteOpen, WritesToRegularFile, SetTriggers
<1>2. lastRotate' \in {lastRotate, now}
  BY <1>1, TriggerFacts, SMTT(30)
<1>3. CASE /\ tr.reason = "none"
           /\ WriteData(disk, active, created, session, dataLen, now)
           /\ UNCHANGED now
  <2>1. lastRotate' = lastRotate /\ (HasInterval => ~newInterval(lastRotate, now))
    BY <1>1, <1>3, TriggerFacts, SMTT(30)
  <2>2. /\ DiskOK(disk) /\ active \in DOMAIN disk /\ created \in Nat
        /\ now \in Times /\ session \in [bytes : Nat, first : Times, last : Times]
    BY <1>1, DiskTypeOK, SMTT(30) DEF TypeOK, Files
  <2>3. open' /\ session'.first = session.first /\ session'.last = now
    BY <1>1, <1>3, <2>2, WriteDataEnds, SMTT(30)
  <2>4. ASSUME MonotoneClock, HasInterval
        PROVE  /\ lastRotate <= session.first /\ session.first <= now
               /\ ~newInterval(session.first, now)
    <3>1. /\ lastRotate <= session.first /\ session.first <= session.last
          /\ session.last <= now
      BY <1>1, <2>4 DEF IntervalInv
    <3>2. /\ lastRotate \in Times /\ session.first \in Times
          /\ session.last \in Times
      BY <1>1, SMTT(30) DEF TypeOK
    <3>3. session.first \in Nat /\ session.last \in Nat /\ now \in Nat
      BY <2>2, <3>2, ConstantsAssumption, ZenonT(30)
    <3>4. session.first <= now
      BY <3>1, <3>3
    <3>5. /\ IntervalOf[lastRotate] <= IntervalOf[session.first]
          /\ IntervalOf[session.first] <= IntervalOf[now]
          /\ IntervalOf[lastRotate] \in Nat /\ IntervalOf[session.first] \in Nat
          /\ IntervalOf[now] \in Nat
      BY <2>2, <3>1, <3>2, <3>4, ConstantsAssumption, ZenonT(30)
    <3>6. IntervalOf[lastRotate] = IntervalOf[now]
      BY <2>1, <2>4 DEF newInterval
    <3>7. QED
      BY <3>1, <3>4, <3>5, <3>6, SMTT(30) DEF newInterval
  <2>5. now <= now
    BY <2>2, ConstantsAssumption
  <2>6. QED
    BY <1>3, <2>1, <2>3, <2>4, <2>5, SMTT(30) DEF IntervalInv
<1>4. CASE RotateAndWrite(dataLen)
  BY <1>1, <1>2, <1>4, IntervalRotateAndWrite, SMTT(30)
<1>5. CASE GiveUp(disk, active, created, "io") /\ UNCHANGED now
  BY <1>1, <1>2, <1>5, IntervalClosed, SMTT(30) DEF GiveUp
<1>6. QED
  BY <1>3, <1>4, <1>5, SMTT(30) DEF WriteOpen

LEMMA IntervalWriteExisting ==
  ASSUME CoreInv, IntervalInv, NEW dataLen \in Nat, WriteExisting(dataLen)
  PROVE  IntervalInv'
<1> DEFINE tr == isRotationTriggered(0)
<1>1. /\ TypeOK /\ active \in Files /\ lastRotate' = tr.last /\ now \in Later
  BY NowIsLater, SMTT(30) DEF CoreInv, WriteExisting, SetTriggers
<1>2. lastRotate' \in {lastRotate, now}
  BY <1>1, TriggerFacts, SMTT(30)
<1>3. CASE /\ disk[active].kind = "regular"
           /\ WriteData(disk, active, created, NewSession(now), dataLen, now)
           /\ UNCHANGED now
  <2>1. DiskOK(disk) /\ active \in DOMAIN disk /\ created \in Nat /\ now \in Times
    BY <1>1, DiskTypeOK, SMTT(30) DEF TypeOK, Files
  <2>2. /\ NewSession(now) \in [bytes : Nat, first : Times, last : Times]
        /\ NewSession(now).first = now
    BY <2>1, SMTT(30) DEF NewSession
  <2>3. session'.first = now /\ session'.last = now
    BY <1>1, <1>3, <2>1, <2>2, WriteDataEnds, SMTT(30)
  <2>4. QED
    BY <1>1, <1>2, <1>3, <2>3, IntervalOpened, SMTT(30)
<1>4. CASE RotateAndWrite(dataLen)
  BY <1>1, <1>2, <1>4, IntervalRotateAndWrite, SMTT(30)
<1>5. CASE GiveUp(disk, active, created, "io") /\ UNCHANGED now
  BY <1>1, <1>2, <1>5, IntervalClosed, SMTT(30) DEF GiveUp
<1>6. QED
  BY <1>3, <1>4, <1>5, SMTT(30) DEF WriteExisting

LEMMA IntervalInit == Init => IntervalInv
<1>1. Init => now \in Nat
  BY ConstantsAssumption DEF Init
<1>2. QED
  BY <1>1, SMTT(30) DEF Init, IntervalInv, NewSession, newInterval

LEMMA IntervalStep == CoreInv /\ IntervalInv /\ [Next]_vars => IntervalInv'
<1> SUFFICES ASSUME CoreInv, IntervalInv, [Next]_vars PROVE IntervalInv'
  OBVIOUS
<1>0. TypeOK /\ now \in Later /\ Lengths \subseteq Nat
  BY NowIsLater, ConstantsAssumption DEF CoreInv
<1>1. ASSUME NEW dataLen \in Lengths, WriteOpen(dataLen) \/ WriteExisting(dataLen)
      PROVE  IntervalInv'
  BY <1>0, <1>1, IntervalWriteOpen, IntervalWriteExisting, SMTT(30)
<1>2. ASSUME NEW dataLen \in Lengths, WriteFirst(dataLen)
      PROVE  IntervalInv'
  <2>1. /\ DiskOK(disk) /\ active \in Names /\ active \notin DOMAIN disk
        /\ created \in Nat /\ now \in Times
        /\ OpenAndWrite(disk, active, created, dataLen, now)
        /\ now' = now /\ lastRotate' = lastRotate
    BY <1>0, <1>2, DiskTypeOK, SMTT(30) DEF WriteFirst, TypeOK, Files, trigs
  <2>2. /\ open' => session'.first = now /\ session'.last = now
        /\ ~open' => session' = session
    BY <1>0, <2>1, OpenAndWriteEnds, ZenonT(30)
  <2>3. QED
    BY <1>0, <2>1, <2>2, IntervalClosed, IntervalOpened, SMTT(30)
<1>3. CASE \/ Rotate \/ Close \/ Restart
           \/ \E dataLen \in Lengths : WriteFails(dataLen)
  <2>1. open' = FALSE /\ session' = session
    BY <1>3, ZenonT(30) DEF Rotate, Close, Restart, WriteFails, GiveUp
  <2>2. now' \in Later /\ lastRotate' \in {lastRotate, now}
    BY <1>0, <1>3, ZenonT(30) DEF Rotate, Close, Restart, WriteFails, trigs
  <2>3. QED
    BY <1>0, <2>1, <2>2, IntervalClosed
<1>4. CASE Tick
  <2>1. /\ now' \in Later /\ now' \in Times
        /\ UNCHANGED <<open, lastRotate, session>>
    BY <1>4 DEF Tick, Later
  <2>2. /\ now \in Nat /\ now' \in Nat /\ lastRotate \in Nat
        /\ session.last \in Nat
    BY <1>0, <2>1, ConstantsAssumption, ZenonT(30) DEF TypeOK
  <2>3. QED
    BY <2>1, <2>2 DEF IntervalInv, Later, newInterval
<1>5. CASE UNCHANGED vars \/ \E dataLen \in Lengths : WriteTooLarge(dataLen)
  BY <1>5 DEF vars, WriteTooLarge, IntervalInv, newInterval
<1>6. QED
  BY <1>1, <1>2, <1>3, <1>4, <1>5 DEF Next

\* When the clock is never set back and an interval is configured, all that is
\* written between two openings of a file belongs to one interval, although
\* openNew opens files without asking the interval trigger.
THEOREM OneInterval == Spec => []SessionInOneInterval
<1>1. IntervalInv => SessionInOneInterval
  BY DEF IntervalInv, SessionInOneInterval
<1>2. QED
  BY <1>1, CoreInit, CoreStep, IntervalInit, IntervalStep, PTL DEF Spec
=============================================================================
