-------------------------------- MODULE Input --------------------------------
(***************************************************************************)
(* pkg/input: how manifests, file by file and document by document, and    *)
(* --resource flags, pair by pair, become workloads, or an error.  A       *)
(* document is Blank, Garbled or an object; what a file holds is a         *)
(* sequence of documents, or Unreadable.                                   *)
(***************************************************************************)
EXTENDS Integers, Sequences, SequencesExt, FiniteSets

CONSTANTS
  None, Unset,            \* a nil *int32; a string field that is not set
  Blank, Garbled, Unreadable,
  Qualified, WellFormed,  \* resource names with a "/"; those the API's syntax allows
  HugePages,              \* resource names that begin with "hugepages-"
  Given                   \* [filenames, content, stdin, namespace, pairs]

ASSUME PairsAreCounted ==
  \A g \in Given : Len(g.pairs) \in Nat /\ DOMAIN g.pairs = 1 .. Len(g.pairs)

ASSUME FilesAreSequences ==
  \A g \in Given :
    /\ g.filenames \in Seq(DOMAIN g.content \cup {"-"})
    /\ \A s \in {g.stdin} \cup {g.content[f] : f \in DOMAIN g.content} :
         s # Unreadable => s \in Seq(ToSet(s))

VARIABLES
  given,      \* what the command line and the files hold
  stdin,      \* what of stdin is not read yet
  pc,
  file,       \* the file being read, or the pair being parsed
  docs,       \* what of it is not decoded yet
  workloads,  \* the workloads so far
  requests,   \* the requests so far
  errs        \* the pairs that were found malformed

vars == <<given, stdin, pc, file, docs, workloads, requests, errs>>
-----------------------------------------------------------------------------
(* Names and defaults.                                                     *)

NamespaceOr(ns, fallback) ==
  IF ns # Unset THEN ns ELSE IF fallback # Unset THEN fallback ELSE "default"

NameOr(name, generateName, fallback) ==
  IF name # Unset THEN name ELSE IF generateName # Unset THEN generateName \o "x" ELSE fallback

IsStandardContainerResource(n) == n \in {"cpu", "memory", "ephemeral-storage"} \cup HugePages

ValidateResourceName(n) ==
  IF n \in Qualified THEN n \in WellFormed ELSE IsStandardContainerResource(n)

Fallback == [Pod |-> "pod", Deployment |-> "deployment", StatefulSet |-> "statefulset"]

\* A bare Pod has no replica count; a nil one is 1.
ReplicasOf(obj) == IF obj.kind = "Pod" \/ obj.replicas = None THEN 1 ELSE obj.replicas

ValidatePodResourceNames(obj) == \A n \in obj.resources : ValidateResourceName(n)

\* workloadFromObject takes the object.
Accepted(obj) ==
  /\ obj.kind \in DOMAIN Fallback
  /\ ReplicasOf(obj) >= 0
  /\ ValidatePodResourceNames(obj)

WorkloadFromObject(obj, ns) ==
  [kind |-> obj.kind, namespace |-> NamespaceOr(obj.namespace, ns), replicas |-> ReplicasOf(obj),
   name |-> NameOr(obj.name, obj.generateName, Fallback[obj.kind])]
-----------------------------------------------------------------------------
(* ParseFiles.                                                             *)

Files == DOMAIN given.filenames

Init ==
  /\ given \in Given
  /\ stdin = given.stdin
  /\ pc = IF Files # {} THEN "file" ELSE "pair"
  /\ file = 1 /\ docs = << >> /\ workloads = << >>
  /\ requests = [n \in {} |-> 0] /\ errs = {}

Filename == given.filenames[file]

\* Mutant: stdin can be read again.
ReadFileAgain ==
  /\ pc = "file" /\ file <= Len(given.filenames)
  /\ docs' = IF Filename = "-" THEN given.stdin ELSE given.content[Filename]
  /\ pc' = IF docs' = Unreadable THEN "error" ELSE "document"
  /\ UNCHANGED <<given, stdin, file, workloads, requests, errs>>

\* Reading "-" takes all of stdin and leaves nothing.
ReadFile ==
  /\ pc = "file" /\ file <= Len(given.filenames)
  /\ docs' = IF Filename = "-" THEN stdin ELSE given.content[Filename]
  /\ stdin' = IF Filename = "-" THEN << >> ELSE stdin
  /\ pc' = IF docs' = Unreadable THEN "error" ELSE "document"
  /\ UNCHANGED <<given, file, workloads, requests, errs>>

DecodeDocument ==
  /\ pc = "document" /\ docs # << >>
  /\ Head(docs) # Garbled
  /\ Head(docs) # Blank => Accepted(Head(docs))
  /\ docs' = Tail(docs)
  /\ workloads' = IF Head(docs) = Blank THEN workloads
                  ELSE Append(workloads, WorkloadFromObject(Head(docs), given.namespace))
  /\ UNCHANGED <<given, stdin, pc, file, requests, errs>>

RejectDocument ==
  /\ pc = "document" /\ docs # << >>
  /\ \/ Head(docs) = Garbled
     \/ Head(docs) \notin {Blank, Garbled} /\ ~Accepted(Head(docs))
  /\ pc' = "error" /\ workloads' = << >>
  /\ UNCHANGED <<given, stdin, file, docs, requests, errs>>

EndOfFile ==
  /\ pc = "document" /\ docs = << >>
  /\ file' = file + 1 /\ pc' = "file"
  /\ UNCHANGED <<given, stdin, docs, workloads, requests, errs>>

ReturnWorkloads ==
  /\ pc = "file" /\ file > Len(given.filenames)
  /\ pc' = IF workloads = << >> THEN "error" ELSE "ok"
  /\ UNCHANGED <<given, stdin, file, docs, workloads, requests, errs>>
-----------------------------------------------------------------------------
(* ParseResourceFlags.  A pair is Garbled without a name, a "=" or a       *)
(* value; a value is Garbled if it is no quantity.                         *)

WellMade(p) ==
  p # Garbled /\ p.value # Garbled /\ p.value >= 0 /\ ValidateResourceName(p.name)

\* Mutant: a name counts as given before its value was looked at.
ParsePairHastily ==
  LET p == given.pairs[file] IN
  /\ pc = "pair" /\ file <= Len(given.pairs)
  /\ requests' = IF p # Garbled /\ p.name \notin DOMAIN requests
                 THEN [n \in DOMAIN requests \cup {p.name} |->
                         IF n = p.name THEN p.value ELSE requests[n]]
                 ELSE requests
  /\ errs' = IF requests' = requests \/ ~WellMade(p) THEN errs \cup {file} ELSE errs
  /\ file' = file + 1
  /\ UNCHANGED <<given, stdin, pc, docs, workloads>>

ParsePair ==
  LET p == given.pairs[file] IN
  /\ pc = "pair" /\ file <= Len(given.pairs)
  /\ IF WellMade(p) /\ p.name \notin DOMAIN requests
     THEN /\ requests' = [n \in DOMAIN requests \cup {p.name} |->
                            IF n = p.name THEN p.value ELSE requests[n]]
          /\ errs' = errs
     ELSE requests' = requests /\ errs' = errs \cup {file}
  /\ file' = file + 1
  /\ UNCHANGED <<given, stdin, pc, docs, workloads>>

ReturnRequests ==
  /\ pc = "pair" /\ file > Len(given.pairs)
  /\ pc' = IF errs = {} /\ given.pairs # << >> THEN "ok" ELSE "error"
  /\ UNCHANGED <<given, stdin, file, docs, workloads, requests, errs>>

Next ==
  \/ ReadFile \/ DecodeDocument \/ RejectDocument \/ EndOfFile \/ ReturnWorkloads
  \/ ParsePair \/ ReturnRequests

Spec == Init /\ [][Next]_vars
-----------------------------------------------------------------------------
(* What ParseFiles and ParseResourceFlags promise, as a whole.             *)

\* The source of the i-th filename: only the first "-" finds anything in stdin.
SourceOf(i) ==
  LET f == given.filenames[i] IN
  IF f # "-" THEN given.content[f]
  ELSE IF \E j \in 1 .. i - 1 : given.filenames[j] = "-" THEN << >> ELSE given.stdin

Wrong(d) == d = Garbled \/ (d # Blank /\ ~Accepted(d))

Faulty(source) == source = Unreadable \/ \E d \in ToSet(source) : Wrong(d)

\* Where the objects are: <<i, d>> for the d-th document of the i-th file.
ObjectsIn(i)   == {<<i, d>> : d \in {d \in DOMAIN SourceOf(i) : SourceOf(i)[d] # Blank}}
Objects(files) == UNION {ObjectsIn(i) : i \in files}

UpTo(o, objects) == {p \in objects : p[1] < o[1] \/ (p[1] = o[1] /\ p[2] <= o[2])}

\* There is a workload for every object, in the order of files and documents.
InOrder(made, objects) ==
  /\ Len(made) = Cardinality(objects)
  /\ \A o \in objects : made[Cardinality(UpTo(o, objects))] =
                          WorkloadFromObject(SourceOf(o[1])[o[2]], given.namespace)

\* All or nothing: the workloads are those of every object of every file, in order,
\* or there is an error, at the first file with a fault or for want of objects.
ManifestsFaithful ==
  Files # {} =>
    /\ pc = "ok" =>
         /\ \A i \in Files : ~Faulty(SourceOf(i))
         /\ InOrder(workloads, Objects(Files))
         /\ workloads # << >>
    /\ pc = "error" =>
         /\ \A i \in Files : i < file => ~Faulty(SourceOf(i))
         /\ file \in Files => Faulty(SourceOf(file))
         /\ file \notin Files => Objects(Files) = {}

\* The i-th pair cannot be taken: it is malformed, or an earlier well-made one has
\* its name.
Refused(i) ==
  WellMade(given.pairs[i]) =>
    \E j \in 1 .. i - 1 : /\ WellMade(given.pairs[j])
                          /\ given.pairs[j].name = given.pairs[i].name

\* Every pair that cannot be taken is reported, whatever else is wrong, and no other;
\* without errors each name has the value it was given.
FlagsFaithful ==
  Files = {} /\ pc \in {"ok", "error"} =>
    LET pairs == given.pairs
    IN  /\ errs = {i \in DOMAIN pairs : Refused(i)}
        /\ pc = "ok" => /\ DOMAIN requests = {pairs[i].name : i \in DOMAIN pairs}
                        /\ \A i \in DOMAIN pairs : requests[pairs[i].name] = pairs[i].value
===============================================================================
