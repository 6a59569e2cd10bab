---------------------------- MODULE MCOfflineTools ----------------------------
(***************************************************************************)
(* OfflineTools for TLC: a checkpoint of two shards and eight tensors, two *)
(* of them trellises, of which one is described by the quantization        *)
(* metadata; three more versions of it on the server, one of which keeps   *)
(* the length of every file and the others only the entries.               *)
(***************************************************************************)
EXTENDS OfflineTools, TLC

MCShards == <<"s1", "s2">>

MCTensors == <<"embed", "head.trellis", "m.mul1", "m.suh", "m.svh", "m.trellis", "v.weight">>

MCComponent == [embed |-> "text"] @@ [n \in {"head.trellis"} |-> "output_head"]
               @@ [n \in {"v.weight"} |-> "vision"]
               @@ [n \in {"m.mul1", "m.suh", "m.svh", "m.trellis"} |-> "mtp"]

MCCompanions == [n \in {"head.trellis", "m.trellis"} |->
                   IF n = "m.trellis" THEN {"m.mul1", "m.suh", "m.svh"} ELSE {}]

meta(dtype, shape, start, end) == [dtype |-> dtype, shape |-> shape, start |-> start, end |-> end]

First1 == ("embed" :> meta("BF16", <<3, 2>>, 0, 12))
          @@ ("head.trellis" :> meta("I16", <<8, 8, 16>>, 12, 2060))

Second(vision) == ("m.trellis" :> meta("I16", <<8, 16, 16>>, 0, 4096))
                  @@ ("m.mul1" :> meta("I32", <<>>, 4096, 4100))
                  @@ ("m.suh" :> meta("F16", <<128>>, 4100, 4356))
                  @@ ("m.svh" :> meta("F16", <<256>>, 4356, 4868))
                  @@ ("v.weight" :> meta("F32", <<vision>>, 4868, 4868 + (4 * vision)))

layout(json, pad, tensors) == [json |-> json, pad |-> pad, tensors |-> tensors]

MCLayout ==
  [pinned |-> [s1 |-> layout(100, 0, First1), s2 |-> layout(200, 4, Second(3))],
   \* four bytes of padding less, four bytes of weights more
   resized |-> [s1 |-> layout(100, 0, First1), s2 |-> layout(200, 0, Second(4))],
   \* the same tensors under longer headers
   padded |-> [s1 |-> layout(102, 0, First1), s2 |-> layout(200, 5, Second(3))],
   \* a header too long to be asked for
   oversized |-> [s1 |-> layout(100, 0, First1), s2 |-> layout(260, 0, Second(3))]]

MCVersions == DOMAIN MCLayout

MCBits == [n \in {"head.trellis"} |-> 1]

\* Two attention layers and two linear ones, four values wide per head.
MCGeometry == [full |-> 2, gdn |-> 2, heads |-> 2, dim |-> 16, gk |-> 1, gv |-> 2,
               dk |-> 2, dv |-> 3, conv |-> 4, mtp_layers |-> 1]

\* Around the pages of four tokens.
Contexts == {1, 3, 4, 5, 8, 9}

MCPlanOptions == [context : Contexts, k_bits : {6}, v_bits : {5}, mtp : BOOLEAN,
                  history : {4}, slots : {1}]

\* A card on which two pages fit, or all three, or none.
MCProfiles == [context : Contexts, nominal_gpu : {9, 11}, floor : {0, 2}]

-------------------------------------------------------------------------------
(* Answers.                                                                *)

scalar(tag, val) == [tag |-> tag, val |-> val]
dict(f) == [tag |-> "dict", val |-> f]
list(s) == [tag |-> "list", val |-> s]

Scalars == {scalar("int", "1"), scalar("float", "1"), scalar("bool", "true")}

Objects(values) == {dict(<<>>)} \cup {dict([a |-> x]) : x \in values}
                   \cup {dict([a |-> x, b |-> y]) : x, y \in values}

Arrays(values) == {list(<<>>)} \cup {list(<<x>>) : x \in values}
                  \cup {list(<<x, y>>) : x, y \in values}

Flat == Scalars \cup Objects(Scalars) \cup Arrays(Scalars)

Few == {scalar("int", "1"), dict(<<>>), dict([b |-> scalar("int", "1")]),
        list(<<scalar("int", "1")>>), list(<<scalar("bool", "true")>>)}

JsonValues == Flat \cup Objects(Few) \cup Arrays(Few)

\* What is answered where a call of the tool "t" is expected.
Calls == {dict([name |-> scalar("str", n), arguments |-> v]) :
            n \in {"t", "u"}, v \in Objects(Few) \cup {list(<<>>)}}
         \cup {list(<<>>), dict([name |-> scalar("str", "t")]),
               dict([name |-> scalar("int", "1"), arguments |-> dict(<<>>)]),
               dict([name |-> scalar("str", "t"), arguments |-> dict(<<>>),
                     id |-> scalar("int", "1")])}

\* All that, with its components.
MCJson == JsonValues \cup Few \cup Calls \cup {scalar("str", n) : n \in {"t", "u"}}

MCNesting == [v \in MCJson |-> IF v.tag \notin Containers THEN 0
                              ELSE IF v \in Flat \cup Few THEN 1
                              ELSE IF v \in JsonValues THEN 2
                              ELSE 3]

answer(text, json, functions) == [text |-> text, json |-> json, functions |-> functions]

MCSuiteCases ==
  { [case |-> [kind |-> "exact", expected |-> "17"],
     responses |-> {answer(t, NotJson, NotPython) : t \in {"17", "18"}}] }
  \cup { [case |-> [kind |-> "json_contract", expected |-> e],
          responses |-> {answer("", v, NotPython) : v \in JsonValues \cup {NotJson}}] : e \in JsonValues }
  \cup { [case |-> [kind |-> "tool_call", name |-> "t", arguments |-> e],
          responses |-> {answer("", NotJson, NotPython)}
            \cup {answer("", v, NotPython) : v \in Calls}] : e \in Objects(Few) }
  \cup { [case |-> [kind |-> "python_syntax", function |-> "f", test_source |-> "tests"],
          responses |-> {answer("source", NotJson, fs) : fs \in {NotPython, {}, {"g"}, {"f", "g"}}}] }

MCContainerRuns == {NoReceipt, TimedOut} \cup [rc : 0..1, ran : {0, 4}]
===============================================================================
