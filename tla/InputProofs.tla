----------------------------- MODULE InputProofs -----------------------------
(***************************************************************************)
(* What ParseResourceFlags and ParseFiles report and return, for any flags *)
(* and any files.                                                          *)
(***************************************************************************)
EXTENDS Input, FiniteSetTheorems, TLAPS

Parsed == 1 .. file - 1

\* The loop has dealt with the pairs before the one at hand.
PairsInv ==
  Files = {} =>
    /\ pc \in {"pair", "ok", "error"}
    /\ file \in 1 .. Len(given.pairs) + 1
    /\ pc # "pair" => file = Len(given.pairs) + 1
    /\ pc = "ok" => errs = {}
    /\ errs = {i \in Parsed : Refused(i)}
    /\ DOMAIN requests = {given.pairs[i].name : i \in {j \in Parsed : WellMade(given.pairs[j])}}
    /\ \A i \in Parsed : ~Refused(i) => requests[given.pairs[i].name] = given.pairs[i].value

LEMMA OnePair ==
  ASSUME PairsInv, Files = {}, given \in Given, ParsePair
  PROVE  PairsInv'
<1> DEFINE pairs == given.pairs  p == pairs[file]
<1>1. /\ UNCHANGED <<given, pc>> /\ pc = "pair" /\ file' = file + 1
      /\ file \in Nat \ {0} /\ file <= Len(pairs) /\ Len(pairs) \in Nat
  BY PairsAreCounted DEF ParsePair, PairsInv
<1>2. Parsed' = Parsed \cup {file} /\ file \notin Parsed
  BY <1>1 DEF Parsed
<1>3. \A i : Refused(i)' <=> Refused(i)
  BY <1>1 DEF Refused, WellMade, ValidateResourceName, IsStandardContainerResource
<1>4. \A i \in Parsed : ~Refused(i) => WellMade(pairs[i])
  BY DEF Refused
<1>5. p.name \in DOMAIN requests <=>
        \E j \in Parsed : WellMade(pairs[j]) /\ pairs[j].name = p.name
  BY DEF PairsInv
<1>6. CASE WellMade(p) /\ p.name \notin DOMAIN requests
  <2>1. ~Refused(file)
    BY <1>5, <1>6 DEF Refused, Parsed
  <2>2. /\ DOMAIN requests' = DOMAIN requests \cup {p.name}
        /\ requests'[p.name] = p.value
        /\ \A n \in DOMAIN requests : requests'[n] = requests[n]
        /\ errs' = errs
    BY <1>6 DEF ParsePair
  <2>3. errs' = {i \in Parsed' : Refused(i)'}
    BY <1>2, <1>3, <2>1, <2>2 DEF PairsInv
  <2>4. DOMAIN requests' = {pairs[i].name : i \in {j \in Parsed' : WellMade(pairs[j])}}
    BY <1>2, <1>6, <2>2 DEF PairsInv
  <2>5. \A i \in Parsed' : ~Refused(i)' => requests'[pairs[i].name] = pairs[i].value
    <3> SUFFICES ASSUME NEW i \in Parsed', ~Refused(i)
                 PROVE  requests'[pairs[i].name] = pairs[i].value
      BY <1>3
    <3>1. CASE i = file
      BY <2>2, <3>1
    <3>2. CASE i \in Parsed
      BY <1>4, <2>2, <3>2 DEF PairsInv
    <3> QED
      BY <1>2, <3>1, <3>2
  <2> QED
    BY <1>1, <2>3, <2>4, <2>5 DEF PairsInv
<1>7. CASE ~(WellMade(p) /\ p.name \notin DOMAIN requests)
  <2>1. Refused(file)
    BY <1>5, <1>7 DEF Refused, Parsed
  <2>2. requests' = requests /\ errs' = errs \cup {file}
    BY <1>7 DEF ParsePair
  <2>3. errs' = {i \in Parsed' : Refused(i)'}
    BY <1>2, <1>3, <2>1, <2>2 DEF PairsInv
  <2>4. DOMAIN requests' = {pairs[i].name : i \in {j \in Parsed' : WellMade(pairs[j])}}
    BY <1>2, <1>5, <1>7, <2>2 DEF PairsInv
  <2>5. \A i \in Parsed' : ~Refused(i)' => requests'[pairs[i].name] = pairs[i].value
    BY <1>2, <1>3, <2>1, <2>2 DEF PairsInv
  <2> QED
    BY <1>1, <2>3, <2>4, <2>5 DEF PairsInv
<1> QED
  BY <1>6, <1>7

\* A step that leaves the pairs' results alone.
LEMMA PairsKept ==
  ASSUME PairsInv, Files = {}, UNCHANGED <<given, file, requests, errs>>,
         pc' \in {"pair", "ok", "error"},
         pc' # "pair" => file = Len(given.pairs) + 1,
         pc' = "ok" => errs = {}
  PROVE  PairsInv'
<1>1. Parsed' = Parsed
  BY DEF Parsed
<1>2. \A i : Refused(i)' <=> Refused(i)
  BY DEF Refused
<1>3. errs' = {i \in Parsed' : Refused(i)'}
  BY <1>1, <1>2 DEF PairsInv
<1>4. DOMAIN requests' = {given.pairs[i].name : i \in {j \in Parsed' : WellMade(given.pairs[j])}}
  BY <1>1 DEF PairsInv
<1>5. \A i \in Parsed' : ~Refused(i)' => requests'[given.pairs[i].name] = given.pairs[i].value
  BY <1>1, <1>2 DEF PairsInv
<1> QED
  BY <1>3, <1>4, <1>5 DEF PairsInv

LEMMA PairsNext == PairsInv /\ given \in Given /\ [Next]_vars => PairsInv' /\ (given \in Given)'
<1> SUFFICES ASSUME PairsInv, given \in Given, [Next]_vars PROVE PairsInv' /\ given' = given
  OBVIOUS
<1>1. given' = given
  BY DEF Next, vars, ReadFile, DecodeDocument, RejectDocument, EndOfFile, ReturnWorkloads,
     ParsePair, ReturnRequests
<1>2. PairsInv'
  <2> SUFFICES ASSUME Files = {} PROVE PairsInv'
    BY <1>1 DEF PairsInv, Files
  <2>1. pc \in {"pair", "ok", "error"}
    BY DEF PairsInv
  <2>2. CASE ParsePair
    BY <2>2, OnePair
  <2>3. CASE ReturnRequests
    <3>1. /\ UNCHANGED <<given, file, requests, errs>>
          /\ pc' \in {"ok", "error"} /\ (pc' = "ok" => errs = {}) /\ file > Len(given.pairs)
      BY <2>3 DEF ReturnRequests
    <3>2. file = Len(given.pairs) + 1
      BY <3>1, PairsAreCounted DEF PairsInv
    <3> QED
      BY <3>1, <3>2, PairsKept
  <2>4. CASE ReadFile \/ DecodeDocument \/ RejectDocument \/ EndOfFile \/ ReturnWorkloads
    BY <2>1, <2>4 DEF ReadFile, DecodeDocument, RejectDocument, EndOfFile, ReturnWorkloads
  <2>5. CASE UNCHANGED vars
    <3>1. UNCHANGED <<given, file, requests, errs, pc>>
      BY <2>5 DEF vars
    <3> QED
      BY <2>1, <3>1, PairsKept DEF PairsInv
  <2> QED
    BY <2>2, <2>3, <2>4, <2>5 DEF Next
<1> QED
  BY <1>1, <1>2

\* "All malformed values are reported together", and nothing that is not malformed;
\* without errors the requests are the flags: for any flags, in any order.
THEOREM FlagsAreFaithful == Spec => []FlagsFaithful
<1>1. Init => PairsInv /\ given \in Given
  <2> SUFFICES ASSUME Init PROVE PairsInv
    BY DEF Init
  <2>1. Len(given.pairs) \in Nat /\ Parsed = {}
    BY PairsAreCounted DEF Init, Parsed
  <2> QED
    BY <2>1 DEF Init, PairsInv
<1>2. PairsInv /\ given \in Given => FlagsFaithful
  <2> SUFFICES ASSUME PairsInv, given \in Given, Files = {}, pc \in {"ok", "error"}
               PROVE  FlagsFaithful
    BY DEF FlagsFaithful
  <2>1. Parsed = DOMAIN given.pairs
    BY PairsAreCounted DEF PairsInv, Parsed
  <2>2. ASSUME pc = "ok" PROVE \A i \in Parsed : ~Refused(i) /\ WellMade(given.pairs[i])
    BY <2>2 DEF PairsInv, Refused
  <2> QED
    BY <2>1, <2>2 DEF PairsInv, FlagsFaithful
<1> QED
  BY <1>1, <1>2, PairsNext, PTL DEF Spec
-----------------------------------------------------------------------------
(* ParseFiles.                                                             *)

Sources(g)   == {g.stdin} \cup {g.content[f] : f \in DOMAIN g.content}
Documents(g) == UNION {ToSet(s) : s \in Sources(g) \ {Unreadable}}
Made         == {WorkloadFromObject(d, given.namespace) : d \in Documents(given)}

\* What of stdin is left once the first few files are read.
Unread(few) == IF \E j \in 1 .. few : given.filenames[j] = "-" THEN << >> ELSE given.stdin

\* How many documents of the file at hand are decoded.
Behind == Len(SourceOf(file)) - Len(docs)

Reading ==
  /\ file \in Files /\ SourceOf(file) # Unreadable
  /\ docs \in Seq(Documents(given)) /\ Len(docs) <= Len(SourceOf(file))
  /\ \A j \in 1 .. Len(docs) : docs[j] = SourceOf(file)[Behind + j]
  /\ \A d \in 1 .. Behind : ~Wrong(SourceOf(file)[d])

Decoded == Objects(1 .. file - 1) \cup
           (IF pc = "document" THEN {o \in ObjectsIn(file) : o[2] <= Behind} ELSE {})

\* The loops have dealt with the files before the one at hand, and with the
\* documents behind in this one.
ManifestsInv ==
  Files # {} =>
    /\ pc \in {"file", "document", "ok", "error"}
    /\ file \in 1 .. Len(given.filenames) + 1
    /\ workloads \in Seq(Made)
    /\ \A i \in Files : i < file => ~Faulty(SourceOf(i))
    /\ pc = "file" => stdin = Unread(file - 1)
    /\ pc = "document" => stdin = Unread(file) /\ Reading
    /\ pc # "error" => IsFiniteSet(Decoded) /\ InOrder(workloads, Decoded)
    /\ pc = "ok" => file = Len(given.filenames) + 1 /\ workloads # << >>
    /\ pc = "error" => /\ file \in Files => Faulty(SourceOf(file))
                       /\ file \notin Files => Objects(Files) = {}

LEMMA FilesCounted ==
  ASSUME given \in Given
  PROVE  /\ given.filenames \in Seq(DOMAIN given.content \cup {"-"})
         /\ Len(given.filenames) \in Nat /\ Files = 1 .. Len(given.filenames)
BY FilesAreSequences DEF Files

\* What a file holds is unreadable or a sequence of documents.
LEMMA SourceType ==
  ASSUME given \in Given, NEW i \in Files
  PROVE  SourceOf(i) = Unreadable \/ SourceOf(i) \in Seq(Documents(given))
<1>1. ASSUME NEW s \in Sources(given), s # Unreadable PROVE s \in Seq(Documents(given))
  <2>1. s \in Seq(ToSet(s))
    BY <1>1, FilesAreSequences DEF Sources
  <2>2. \A j \in 1 .. Len(s) : s[j] \in Documents(given)
    BY <1>1, <2>1 DEF Documents, ToSet
  <2> QED
    BY <2>1, <2>2
<1>2. SourceOf(i) \in Sources(given) \/ SourceOf(i) = << >>
  <2>1. given.filenames[i] \in DOMAIN given.content \cup {"-"}
    BY FilesCounted
  <2> QED
    BY <2>1 DEF SourceOf, Sources
<1>3. << >> \in Seq(Documents(given))
  OBVIOUS
<1> QED
  BY <1>1, <1>2, <1>3

LEMMA SameSources ==
  ASSUME given' = given
  PROVE  /\ Files' = Files /\ Made' = Made
         /\ \A i : SourceOf(i)' = SourceOf(i) /\ ObjectsIn(i)' = ObjectsIn(i)
         /\ \A i : Faulty(SourceOf(i))' <=> Faulty(SourceOf(i))
         /\ \A files : Objects(files)' = Objects(files)
         /\ \A few : Unread(few)' = Unread(few)
BY DEF Files, Made, SourceOf, ObjectsIn, Faulty, Wrong, Accepted, ReplicasOf,
       ValidatePodResourceNames, ValidateResourceName, IsStandardContainerResource,
       Objects, Unread, Documents, Sources, WorkloadFromObject, NamespaceOr, NameOr

LEMMA SameObjects ==
  ASSUME given' = given
  PROVE  \A o : WorkloadFromObject(SourceOf(o[1])[o[2]], given.namespace)' =
               WorkloadFromObject(SourceOf(o[1])[o[2]], given.namespace)
<1> SUFFICES ASSUME NEW o
             PROVE  WorkloadFromObject(SourceOf(o[1])[o[2]], given.namespace)' =
                    WorkloadFromObject(SourceOf(o[1])[o[2]], given.namespace)
  OBVIOUS
<1>1. SourceOf(o[1])' = SourceOf(o[1])
  BY SameSources
<1> QED
  BY <1>1 DEF WorkloadFromObject, NamespaceOr, NameOr, ReplicasOf

LEMMA SameOrder ==
  ASSUME UNCHANGED <<given, workloads>>, Decoded' = Decoded
  PROVE  (IsFiniteSet(Decoded) /\ InOrder(workloads, Decoded))' <=> IsFiniteSet(Decoded) /\ InOrder(workloads, Decoded)
<1>1. \A o : UpTo(o, Decoded)' = UpTo(o, Decoded)
  BY DEF UpTo
<1> QED
  BY <1>1, SameObjects DEF InOrder

LEMMA OneFileRead ==
  ASSUME ManifestsInv, Files # {}, given \in Given, ReadFile
  PROVE  ManifestsInv'
<1>1. /\ UNCHANGED <<given, file, workloads, requests, errs>>
      /\ pc = "file" /\ file \in Files /\ file \in Nat \ {0}
      /\ stdin = Unread(file - 1)
      /\ docs' = IF Filename = "-" THEN stdin ELSE given.content[Filename]
      /\ stdin' = IF Filename = "-" THEN << >> ELSE stdin
      /\ pc' = IF docs' = Unreadable THEN "error" ELSE "document"
  BY FilesCounted DEF ReadFile, ManifestsInv
<1>2. /\ docs' = SourceOf(file) /\ stdin' = Unread(file)
  <2>1. 1 .. file = (1 .. file - 1) \cup {file}
    BY <1>1
  <2> QED
    BY <1>1, <2>1 DEF SourceOf, Unread, Filename
<1>3. /\ Files' = Files /\ Made' = Made /\ file' = file /\ workloads' = workloads
      /\ \A i : SourceOf(i)' = SourceOf(i) /\ ObjectsIn(i)' = ObjectsIn(i)
      /\ \A i : Faulty(SourceOf(i))' <=> Faulty(SourceOf(i))
      /\ \A files : Objects(files)' = Objects(files)
      /\ Unread(file)' = Unread(file)
  BY <1>1, SameSources
<1>4. CASE docs' = Unreadable
  <2>1. pc' = "error" /\ Faulty(SourceOf(file))
    BY <1>1, <1>2, <1>4 DEF Faulty
  <2> QED
    BY <1>1, <1>3, <2>1 DEF ManifestsInv
<1>5. CASE docs' # Unreadable
  <2>1. pc' = "document" /\ SourceOf(file) # Unreadable
        /\ docs' \in Seq(Documents(given)) /\ Len(docs') \in Nat
    BY <1>1, <1>2, <1>5, SourceType
  <2>2. Behind' = 0
    BY <1>2, <1>3, <2>1 DEF Behind
  <2>3. Reading'
    BY <1>1, <1>2, <1>3, <2>1, <2>2 DEF Reading
  <2>4. Decoded' = Decoded
    <3>1. \A o \in ObjectsIn(file) : ~(o[2] <= 0)
      BY <1>2, <2>1 DEF ObjectsIn
    <3> QED
      BY <1>1, <1>3, <2>1, <2>2, <3>1 DEF Decoded
  <2>5. (IsFiniteSet(Decoded) /\ InOrder(workloads, Decoded))'
    BY <1>1, <1>3, <2>4, SameOrder DEF ManifestsInv
  <2>6. stdin' = Unread(file)'
    BY <1>2, <1>3
  <2> QED
    BY <1>1, <1>3, <2>1, <2>3, <2>5, <2>6 DEF ManifestsInv
<1> QED
  BY <1>4, <1>5

\* The document at hand is the next one of its file.
LEMMA NextDocument ==
  ASSUME Reading, given \in Given, docs # << >>
  PROVE  /\ SourceOf(file) \in Seq(Documents(given))
         /\ Behind \in Nat /\ Behind + 1 \in 1 .. Len(SourceOf(file))
         /\ Head(docs) = SourceOf(file)[Behind + 1]
<1>1. SourceOf(file) \in Seq(Documents(given)) /\ docs \in Seq(Documents(given))
  BY SourceType DEF Reading
<1>2. Len(docs) \in Nat \ {0} /\ Len(SourceOf(file)) \in Nat
  BY <1>1
<1>3. Head(docs) = docs[1]
  BY <1>1, <1>2
<1> QED
  BY <1>1, <1>2, <1>3 DEF Reading, Behind

LEMMA OneDocumentRejected ==
  ASSUME ManifestsInv, Files # {}, given \in Given, RejectDocument
  PROVE  ManifestsInv'
<1>1. /\ UNCHANGED <<given, file>> /\ pc = "document" /\ docs # << >> /\ Wrong(Head(docs))
      /\ pc' = "error" /\ workloads' = << >>
  BY DEF RejectDocument, Wrong
<1>2. Reading /\ file \in Files
  BY <1>1 DEF ManifestsInv, Reading
<1>3. Faulty(SourceOf(file))
  <2>1. Head(docs) \in ToSet(SourceOf(file))
    BY <1>1, <1>2, NextDocument DEF ToSet
  <2> QED
    BY <1>1, <2>1 DEF Faulty
<1>4. /\ Files' = Files
      /\ \A i : Faulty(SourceOf(i))' <=> Faulty(SourceOf(i))
  BY <1>1, SameSources
<1>5. workloads' \in Seq(Made')
  BY <1>1
<1> QED
  BY <1>1, <1>2, <1>3, <1>4, <1>5 DEF ManifestsInv

Ahead(o, i, d) ==
  o[1] \in Nat /\ o[2] \in Nat /\ (o[1] < i \/ (o[1] = i /\ o[2] < d))

\* Of one object more, in last place, the workload is last too.
LEMMA OneMoreInOrder ==
  ASSUME NEW few, IsFiniteSet(few), InOrder(workloads, few), workloads \in Seq(Made),
         NEW i \in Nat, NEW d \in Nat, NEW last, last = <<i, d>>, last \notin few,
         \A o \in few : Ahead(o, i, d),
         NEW made \in Made, made = WorkloadFromObject(SourceOf(i)[d], given.namespace),
         NEW more, more = few \cup {last}, NEW longer, longer = Append(workloads, made)
  PROVE  IsFiniteSet(more) /\ InOrder(longer, more)
<1>1. /\ IsFiniteSet(more) /\ Cardinality(few) \in Nat /\ Cardinality(more) = Cardinality(few) + 1
  BY FS_AddElement, FS_CardinalityType
<1>2. /\ Len(longer) = Cardinality(few) + 1
      /\ longer[Cardinality(few) + 1] = made
      /\ \A j \in 1 .. Cardinality(few) : longer[j] = workloads[j]
  BY <1>1 DEF InOrder
<1>3. last[1] = i /\ last[2] = d
  OBVIOUS
<1>4. UpTo(last, more) = more
  BY <1>3 DEF UpTo, Ahead
<1>5. ASSUME NEW o \in few
      PROVE  UpTo(o, more) = UpTo(o, few) /\ Cardinality(UpTo(o, few)) \in 1 .. Cardinality(few)
  <2>1. UpTo(o, more) = UpTo(o, few)
    BY <1>3 DEF UpTo, Ahead
  <2>2. UpTo(o, few) \in SUBSET few /\ o \in UpTo(o, few)
    BY DEF UpTo, Ahead
  <2>3. /\ IsFiniteSet(UpTo(o, few)) /\ Cardinality(UpTo(o, few)) <= Cardinality(few)
        /\ Cardinality(UpTo(o, few)) \in Nat
    BY <2>2, FS_Subset, FS_CardinalityType
  <2>4. Cardinality(UpTo(o, few)) # 0
    BY <2>2, <2>3, FS_EmptySet
  <2> QED
    BY <1>1, <2>1, <2>3, <2>4
<1>6. ASSUME NEW o \in more
      PROVE  longer[Cardinality(UpTo(o, more))] =
               WorkloadFromObject(SourceOf(o[1])[o[2]], given.namespace)
  <2>1. CASE o = last
    BY <1>1, <1>2, <1>3, <1>4, <2>1
  <2>2. CASE o \in few
    BY <1>2, <1>5, <2>2 DEF InOrder
  <2> QED
    BY <2>1, <2>2
<1> QED
  BY <1>1, <1>2, <1>6 DEF InOrder

LEMMA OneDocumentDecoded ==
  ASSUME ManifestsInv, Files # {}, given \in Given, DecodeDocument
  PROVE  ManifestsInv'
<1> DEFINE src == SourceOf(file)  d == Behind + 1
<1>1. /\ UNCHANGED <<given, stdin, pc, file>> /\ pc = "document" /\ docs # << >>
      /\ ~Wrong(Head(docs)) /\ docs' = Tail(docs)
      /\ workloads' = IF Head(docs) = Blank THEN workloads
                      ELSE Append(workloads, WorkloadFromObject(Head(docs), given.namespace))
  BY DEF DecodeDocument, Wrong
<1>2. Reading /\ file \in Files /\ file \in Nat \ {0}
  BY <1>1 DEF ManifestsInv, Reading
<1>3. /\ src \in Seq(Documents(given)) /\ Behind \in Nat
      /\ d \in 1 .. Len(src) /\ Head(docs) = src[d] /\ src[d] \in Documents(given)
  BY <1>1, <1>2, NextDocument
<1>4. /\ Files' = Files /\ Made' = Made /\ Documents(given)' = Documents(given)
      /\ \A i : SourceOf(i)' = SourceOf(i) /\ ObjectsIn(i)' = ObjectsIn(i)
      /\ \A i : Faulty(SourceOf(i))' <=> Faulty(SourceOf(i))
      /\ \A files : Objects(files)' = Objects(files)
      /\ \A few : Unread(few)' = Unread(few)
  BY <1>1, SameSources DEF Documents, Sources
<1>5. docs \in Seq(Documents(given)) /\ Len(docs) \in Nat /\ Len(src) \in Nat
  BY <1>2, <1>3 DEF Reading
<1>6. /\ docs' \in Seq(Documents(given)) /\ Len(docs') = Len(docs) - 1
      /\ \A j \in 1 .. Len(docs') : docs'[j] = docs[j + 1]
  BY <1>1, <1>5
<1>7. Behind' = d
  BY <1>1, <1>4, <1>5, <1>6 DEF Behind
<1>8. Reading'
  <2>1. \A j \in 1 .. Len(docs') : docs'[j] = src[d + j]
    <3> SUFFICES ASSUME NEW j \in 1 .. Len(docs') PROVE docs'[j] = src[d + j]
      OBVIOUS
    <3>1. j + 1 \in 1 .. Len(docs) /\ j \in Nat
      BY <1>5, <1>6
    <3>2. docs[j + 1] = src[Behind + (j + 1)]
      BY <1>2, <3>1 DEF Reading
    <3>3. Behind + (j + 1) = d + j
      BY <1>3, <3>1
    <3> QED
      BY <1>6, <3>2, <3>3
  <2>2. \A e \in 1 .. d : ~Wrong(src[e])
    <3>1. 1 .. d = (1 .. Behind) \cup {d}
      BY <1>3
    <3> QED
      BY <1>1, <1>2, <1>3, <3>1 DEF Reading
  <2>3. \A e \in 1 .. d : ~Wrong(src[e])'
    BY <1>1, <1>4, <2>2 DEF Wrong, Accepted, ReplicasOf, ValidatePodResourceNames,
       ValidateResourceName, IsStandardContainerResource
  <2>4. file' = file /\ Len(docs') <= Len(src) /\ src # Unreadable
    BY <1>1, <1>2, <1>5, <1>6 DEF Reading
  <2> QED
    BY <1>2, <1>4, <1>6, <1>7, <2>1, <2>3, <2>4 DEF Reading
<1>9. /\ Decoded = Objects(1 .. file - 1) \cup {o \in ObjectsIn(file) : o[2] <= Behind}
      /\ Decoded' = Objects(1 .. file - 1) \cup {o \in ObjectsIn(file) : o[2] <= d}
  BY <1>1, <1>4, <1>7 DEF Decoded
<1>10. IsFiniteSet(Decoded) /\ InOrder(workloads, Decoded) /\ workloads \in Seq(Made)
  BY <1>1 DEF ManifestsInv
<1>11. CASE Head(docs) = Blank
  <2>1. \A o \in ObjectsIn(file) : o[2] \in Nat /\ o[2] # d
    BY <1>3, <1>11 DEF ObjectsIn
  <2>2. Decoded' = Decoded
    BY <1>3, <1>9, <2>1
  <2>3. (IsFiniteSet(Decoded) /\ InOrder(workloads, Decoded))' /\ workloads' = workloads
    BY <1>1, <1>10, <1>11, <2>2, SameOrder
  <2> QED
    BY <1>1, <1>4, <1>8, <1>10, <2>3 DEF ManifestsInv
<1>12. CASE Head(docs) # Blank
  <2> DEFINE made == WorkloadFromObject(src[d], given.namespace)
  <2>1. made \in Made /\ workloads' = Append(workloads, made)
    BY <1>1, <1>3, <1>12 DEF Made
  <2>2. <<file, d>> \in ObjectsIn(file) /\ \A o \in ObjectsIn(file) : o = <<file, o[2]>> /\ o[2] \in Nat
    BY <1>3, <1>12 DEF ObjectsIn
  <2>3. Decoded' = Decoded \cup {<<file, d>>}
    <3>1. \A o \in ObjectsIn(file) : o[2] <= d <=> o[2] <= Behind \/ o = <<file, d>>
      BY <1>3, <2>2
    <3> QED
      BY <1>9, <2>2, <3>1
  <2>4. ASSUME NEW o \in Decoded
        PROVE  /\ o[1] \in Nat /\ o[2] \in Nat
               /\ o[1] < file \/ (o[1] = file /\ o[2] < d)
    <3>1. CASE o \in Objects(1 .. file - 1)
      <4>1. PICK i \in 1 .. file - 1 : o \in ObjectsIn(i)
        BY <3>1 DEF Objects
      <4>2. SourceOf(i) \in Seq(Documents(given))
        <5>1. i \in Files /\ i < file
          BY <1>2, <4>1, FilesCounted
        <5>2. SourceOf(i) # Unreadable
          BY <5>1 DEF ManifestsInv, Faulty
        <5> QED
          BY <5>1, <5>2, SourceType
      <4>3. o[1] = i /\ o[2] \in DOMAIN SourceOf(i)
        BY <4>1 DEF ObjectsIn
      <4>4. o[2] \in Nat
        BY <4>2, <4>3
      <4> QED
        BY <1>2, <4>3, <4>4
    <3>2. CASE o \in ObjectsIn(file) /\ o[2] <= Behind
      BY <1>2, <1>3, <2>2, <3>2
    <3> QED
      BY <1>9, <3>1, <3>2
  <2>5. <<file, d>> \notin Decoded
    <3>1. <<file, d>>[1] = file /\ <<file, d>>[2] = d
      OBVIOUS
    <3> QED
      BY <1>2, <1>3, <2>4, <3>1
  <2> HIDE DEF made, src, d
  <2>6. d \in Nat /\ file \in Nat /\ made = WorkloadFromObject(SourceOf(file)[d], given.namespace)
    BY <1>2, <1>3 DEF made, src
  <2>7. IsFiniteSet(Decoded') /\ InOrder(workloads', Decoded')
    <3>1. \A o \in Decoded : Ahead(o, file, d)
      BY <2>4 DEF Ahead
    <3> QED
      BY <1>10, <2>1, <2>3, <2>5, <2>6, <3>1, OneMoreInOrder
  <2>8. InOrder(workloads, Decoded)'
    BY <1>1, <2>7, SameObjects DEF InOrder, UpTo
  <2>9. workloads' \in Seq(Made)
    BY <1>10, <2>1
  <2> QED
    BY <1>1, <1>4, <1>8, <2>7, <2>8, <2>9 DEF ManifestsInv
<1> QED
  BY <1>11, <1>12

LEMMA OneFileDone ==
  ASSUME ManifestsInv, Files # {}, given \in Given, EndOfFile
  PROVE  ManifestsInv'
<1>1. /\ UNCHANGED <<given, stdin, docs, workloads>> /\ pc = "document" /\ docs = << >>
      /\ file' = file + 1 /\ pc' = "file"
  BY DEF EndOfFile
<1>2. Reading /\ file \in Files /\ file \in 1 .. Len(given.filenames) /\ stdin = Unread(file)
  BY <1>1, FilesCounted DEF ManifestsInv, Reading
<1>3. SourceOf(file) \in Seq(Documents(given)) /\ SourceOf(file) # Unreadable
  BY <1>2, SourceType DEF Reading
<1>4. Len(SourceOf(file)) \in Nat /\ Behind = Len(SourceOf(file))
  BY <1>1, <1>3 DEF Behind
<1>5. ~Faulty(SourceOf(file))
  <2>1. \A d \in ToSet(SourceOf(file)) : ~Wrong(d)
    BY <1>2, <1>3, <1>4 DEF Reading, ToSet
  <2> QED
    BY <1>3, <2>1 DEF Faulty
<1>6. /\ Files' = Files /\ Made' = Made
      /\ \A i : ObjectsIn(i)' = ObjectsIn(i)
      /\ \A i : Faulty(SourceOf(i))' <=> Faulty(SourceOf(i))
      /\ \A files : Objects(files)' = Objects(files)
      /\ \A few : Unread(few)' = Unread(few)
  BY <1>1, SameSources
<1>7. Decoded' = Decoded
  <2>1. \A o \in ObjectsIn(file) : o[2] <= Behind
    BY <1>3, <1>4 DEF ObjectsIn
  <2>2. 1 .. (file + 1) - 1 = (1 .. file - 1) \cup {file}
    BY <1>2
  <2>3. Objects(1 .. (file + 1) - 1) = Objects(1 .. file - 1) \cup ObjectsIn(file)
    BY <2>2 DEF Objects
  <2> QED
    BY <1>1, <1>6, <2>1, <2>3 DEF Decoded
<1>8. (IsFiniteSet(Decoded) /\ InOrder(workloads, Decoded))' /\ workloads' \in Seq(Made)
  BY <1>1, <1>7, SameOrder DEF ManifestsInv
<1>9. \A i \in Files : i < file + 1 => ~Faulty(SourceOf(i))
  <2>1. \A i \in Files : i < file + 1 => i < file \/ i = file
    BY <1>2, FilesCounted
  <2> QED
    BY <1>5, <2>1 DEF ManifestsInv
<1>10. file' \in 1 .. Len(given.filenames) + 1 /\ stdin' = Unread(file - 1)'
  <2>1. file' - 1 = file /\ file' \in 1 .. Len(given.filenames) + 1
    BY <1>1, <1>2, FilesCounted
  <2> QED
    BY <1>1, <1>2, <2>1 DEF Unread
<1> QED
  BY <1>1, <1>6, <1>8, <1>9, <1>10 DEF ManifestsInv

LEMMA AllFilesDone ==
  ASSUME ManifestsInv, Files # {}, given \in Given, ReturnWorkloads
  PROVE  ManifestsInv'
<1>1. /\ UNCHANGED <<given, file, docs, workloads>> /\ pc = "file"
      /\ pc' = IF workloads = << >> THEN "error" ELSE "ok"
  BY DEF ReturnWorkloads
<1>2. file = Len(given.filenames) + 1 /\ Len(given.filenames) \in Nat
      /\ Files = 1 .. file - 1 /\ file \notin Files
  BY FilesCounted DEF ReturnWorkloads, ManifestsInv
<1>3. /\ Files' = Files /\ Made' = Made
      /\ \A i : Faulty(SourceOf(i))' <=> Faulty(SourceOf(i))
      /\ \A files : Objects(files)' = Objects(files)
  BY <1>1, SameSources
<1>4. Decoded = Objects(Files) /\ Decoded' = Decoded
  BY <1>1, <1>2, <1>3 DEF Decoded
<1>5. IsFiniteSet(Decoded) /\ InOrder(workloads, Decoded) /\ workloads \in Seq(Made)
  BY <1>1 DEF ManifestsInv
<1>6. (IsFiniteSet(Decoded) /\ InOrder(workloads, Decoded))'
  BY <1>1, <1>4, <1>5, SameOrder
<1>7. CASE workloads = << >>
  <2>1. Cardinality(Decoded) = 0
    BY <1>5, <1>7 DEF InOrder
  <2>2. Objects(Files) = {}
    BY <1>4, <1>5, <2>1, FS_EmptySet
  <2> QED
    BY <1>1, <1>2, <1>3, <1>7, <2>2 DEF ManifestsInv
<1>8. CASE workloads # << >>
  BY <1>1, <1>2, <1>3, <1>6, <1>8 DEF ManifestsInv
<1> QED
  BY <1>7, <1>8

LEMMA ManifestsNext ==
  ManifestsInv /\ given \in Given /\ [Next]_vars => ManifestsInv' /\ (given \in Given)'
<1> SUFFICES ASSUME ManifestsInv, given \in Given, [Next]_vars PROVE ManifestsInv' /\ given' = given
  OBVIOUS
<1>1. given' = given
  BY DEF Next, vars, ReadFile, DecodeDocument, RejectDocument, EndOfFile, ReturnWorkloads,
     ParsePair, ReturnRequests
<1>2. ManifestsInv'
  <2> SUFFICES ASSUME Files # {} PROVE ManifestsInv'
    BY <1>1 DEF ManifestsInv, Files
  <2>1. CASE ReadFile
    BY <2>1, OneFileRead
  <2>2. CASE DecodeDocument
    BY <2>2, OneDocumentDecoded
  <2>3. CASE RejectDocument
    BY <2>3, OneDocumentRejected
  <2>4. CASE EndOfFile
    BY <2>4, OneFileDone
  <2>5. CASE ReturnWorkloads
    BY <2>5, AllFilesDone
  <2>6. CASE ParsePair \/ ReturnRequests
    BY <2>6 DEF ParsePair, ReturnRequests, ManifestsInv
  <2>7. CASE UNCHANGED vars
    <3>1. UNCHANGED <<given, stdin, pc, file, docs, workloads>>
      BY <2>7 DEF vars
    <3>2. /\ Files' = Files /\ Made' = Made
          /\ \A i : SourceOf(i)' = SourceOf(i) /\ ObjectsIn(i)' = ObjectsIn(i)
          /\ \A i : Faulty(SourceOf(i))' <=> Faulty(SourceOf(i))
          /\ \A files : Objects(files)' = Objects(files)
          /\ Unread(file)' = Unread(file) /\ Unread(file - 1)' = Unread(file - 1)
      BY <3>1, SameSources DEF Unread
    <3>3. Behind' = Behind /\ Documents(given)' = Documents(given)
      BY <3>1, <3>2 DEF Behind, Documents, Sources
    <3>4. Reading' <=> Reading
      BY <3>1, <3>2, <3>3 DEF Reading, Wrong, Accepted, ReplicasOf, ValidatePodResourceNames,
         ValidateResourceName, IsStandardContainerResource
    <3>5. Decoded' = Decoded
      BY <3>1, <3>2, <3>3 DEF Decoded
    <3>6. (IsFiniteSet(Decoded) /\ InOrder(workloads, Decoded))'
            <=> IsFiniteSet(Decoded) /\ InOrder(workloads, Decoded)
      BY <3>1, <3>5, SameOrder
    <3> QED
      BY <3>1, <3>2, <3>4, <3>6 DEF ManifestsInv
  <2> QED
    BY <2>1, <2>2, <2>3, <2>4, <2>5, <2>6, <2>7 DEF Next
<1> QED
  BY <1>1, <1>2

\* "ParseFiles reads the given manifest files and returns the workloads they
\* contain": all of them in order, whatever the files hold and however often a
\* file or stdin is named, or an error and none (ParseFiles, decodeDocuments).
THEOREM ManifestsAreFaithful == Spec => []ManifestsFaithful
<1>1. Init => ManifestsInv /\ given \in Given
  <2> SUFFICES ASSUME Init, Files # {} PROVE ManifestsInv
    BY DEF Init, ManifestsInv
  <2>1. /\ given \in Given /\ pc = "file" /\ file = 1 /\ workloads = << >> /\ stdin = given.stdin
    BY DEF Init
  <2>2. Len(given.filenames) \in Nat /\ Files = 1 .. Len(given.filenames)
    BY <2>1, FilesCounted
  <2>3. 1 .. file - 1 = {} /\ stdin = Unread(file - 1)
    BY <2>1 DEF Unread
  <2>4. Decoded = {}
    BY <2>1, <2>3 DEF Decoded, Objects
  <2>5. IsFiniteSet(Decoded) /\ InOrder(workloads, Decoded)
    BY <2>1, <2>4, FS_EmptySet DEF InOrder
  <2>6. workloads \in Seq(Made) /\ file \in 1 .. Len(given.filenames) + 1
        /\ \A i \in Files : ~(i < file)
    BY <2>1, <2>2
  <2> QED
    BY <2>1, <2>3, <2>5, <2>6 DEF ManifestsInv
<1>2. ManifestsInv /\ given \in Given => ManifestsFaithful
  <2> SUFFICES ASSUME ManifestsInv, given \in Given, Files # {} PROVE ManifestsFaithful
    BY DEF ManifestsFaithful
  <2>1. Len(given.filenames) \in Nat /\ Files = 1 .. Len(given.filenames)
    BY FilesCounted
  <2>2. ASSUME pc = "ok"
        PROVE  /\ \A i \in Files : ~Faulty(SourceOf(i))
               /\ InOrder(workloads, Objects(Files)) /\ workloads # << >>
    <3>1. file = Len(given.filenames) + 1 /\ InOrder(workloads, Decoded) /\ workloads # << >>
      BY <2>2 DEF ManifestsInv
    <3>2. Files = 1 .. file - 1 /\ \A i \in Files : i < file
      BY <2>1, <3>1
    <3>3. Decoded = Objects(Files)
      BY <2>2, <3>2 DEF Decoded
    <3> QED
      BY <3>1, <3>2, <3>3 DEF ManifestsInv
  <2> QED
    BY <2>2 DEF ManifestsInv, ManifestsFaithful
<1> QED
  BY <1>1, <1>2, ManifestsNext, PTL DEF Spec
===============================================================================
