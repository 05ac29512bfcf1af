------------------------------- MODULE MCInput -------------------------------
(***************************************************************************)
(* Small inputs: two files and stdin of up to two documents, and up to     *)
(* three --resource flags.                                                 *)
(***************************************************************************)
EXTENDS Input

Object(kind, name, namespace, replicas, resources) ==
  [kind |-> kind, name |-> name, generateName |-> "job-", namespace |-> namespace,
   replicas |-> replicas, resources |-> resources]

Objs == { Object("Pod", Unset, "a", 2, {}), Object("Deployment", "web", Unset, None, {"cpu"}),
          Object("StatefulSet", "web", Unset, 0, {"nvidia.com/gpu", "hugepages-2Mi"}),
          Object("Deployment", "web", "a", -1, {}), Object("Job", "web", "a", None, {}),
          Object("Pod", "web", Unset, None, {"gpu"}) }

Documents == Objs \cup {Blank, Garbled}

Holding == {Unreadable, << >>} \cup {<<d>> : d \in Documents}
             \cup {<<Blank, d>> : d \in Objs}

Pairs == {Garbled, [name |-> "cpu", value |-> 2], [name |-> "cpu", value |-> Garbled],
          [name |-> "gpu", value |-> 1], [name |-> "a/b/c", value |-> 1],
          [name |-> "nvidia.com/gpu", value |-> -1], [name |-> "nvidia.com/gpu", value |-> 1]}

Argument(filenames, one, two, stdinDocs, namespace, pairs) ==
  [filenames |-> filenames, content |-> [one |-> one, two |-> two], stdin |-> stdinDocs,
   namespace |-> namespace, pairs |-> pairs]

Manifests ==
  { Argument(fs, one, <<Object("Deployment", "api", "b", 3, {})>>, held, ns, << >>) :
      fs \in {<<"one">>, <<"-", "one", "-">>, <<"two", "one">>},
      one \in Holding, held \in Holding, ns \in {Unset, "c"} }

Flags ==
  { Argument(<< >>, << >>, << >>, << >>, Unset, pairs) :
      pairs \in UNION {[1 .. len -> Pairs] : len \in 0 .. 3} }

AllGiven == Manifests \cup Flags
===============================================================================
