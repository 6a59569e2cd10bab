----------------------------- MODULE AnswerGrading -----------------------------
(***************************************************************************)
(* bench/fitness.py:judge for the cases that are answered in one reply,    *)
(* with the container run of bench/code_judge.py that the collector makes  *)
(* for source code.  A response is what its readers see of it: its text    *)
(* without surrounding space, its value as JSON, the functions it defines  *)
(* as a Python module.  A JSON value is [tag, val]; val is text for a      *)
(* scalar, a function for an object and a sequence for an array.           *)
(*                                                                         *)
(* A response nested so deeply that the parser gives up raises an          *)
(* exception judge does not catch, and is left out: Deepest is how deep it *)
(* follows.                                                                *)
(***************************************************************************)
EXTENDS Naturals, Sequences

CONSTANTS Json,                 \* the values that contracts and responses hold
          Deepest, Nesting,     \* how deep the parser follows; how deep a value is
          NotJson, NotPython,   \* text that does not parse
          NoReceipt             \* no container was asked for

Containers == {"dict", "list"}

ASSUME JsonAssumption ==
  /\ Deepest \in Nat /\ Nesting \in [Json -> 0..Deepest]
  /\ \A v \in Json :
       /\ v.tag = "list" => v.val \in Seq(Json)
       /\ v.tag \in Containers => \A k \in DOMAIN v.val : /\ v.val[k] \in Json
                                                          /\ Nesting[v.val[k]] < Nesting[v]

-------------------------------------------------------------------------------
(* matches: an object may have more keys than expected, at any depth; an   *)
(* array has the same length; true is not 1, and 1 is not 1.0.             *)

\* Deviation: an array may go on after what is expected.
ArrayGoesOn(value, expected) == Len(value.val) >= Len(expected.val)

ArrayFits(value, expected) == Len(value.val) = Len(expected.val)

\* For each value and what is expected of it.
matching[pair \in Json \X Json] ==
  LET value == pair[1]   expected == pair[2] IN
  /\ value.tag = expected.tag
  /\ IF expected.tag \in Containers
       THEN /\ expected.tag = "list" => ArrayFits(value, expected)
            /\ \A k \in DOMAIN expected.val :
                 k \in DOMAIN value.val /\ matching[<<value.val[k], expected.val[k]>>]
       ELSE value.val = expected.val

matches(value, expected) == matching[<<value, expected>>]

-------------------------------------------------------------------------------
(* run_in_container: unittest's exit code and the count it reported, 0 if  *)
(* there was none; or no answer in time.                                   *)

TimedOut == [rc |-> 1, ran |-> 0]

RunInContainer(response, case, run) ==
  [passed |-> run.rc = 0 /\ run.ran > 0, tests_ran |-> run.ran,
   solution |-> response.text, test |-> case.test_source]

-------------------------------------------------------------------------------
(* judge                                                                   *)

Passes(test) == IF test THEN "pass" ELSE "fail"

JudgeExact(case, response) == Passes(response.text = case.expected)

JudgeJson(case, response) ==
  Passes(response.json # NotJson /\ matches(response.json, case.expected))

\* Name and arguments and nothing else; exactly the arguments that are expected.
JudgeTool(case, response) ==
  LET call == response.json IN
  Passes(/\ call # NotJson /\ call.tag = "dict"
         /\ DOMAIN call.val = {"name", "arguments"}
         /\ call.val["name"].tag = "str" /\ call.val["name"].val = case.name
         /\ call.val["arguments"].tag = "dict"
         /\ DOMAIN call.val["arguments"].val = DOMAIN case.arguments.val
         /\ matches(call.val["arguments"], case.arguments))

\* Syntax alone proves nothing; a receipt must be of this source and these tests.
JudgePython(case, response, receipt) ==
  IF response.functions = NotPython THEN "fail"
  ELSE IF case.function \notin response.functions THEN "fail"
  ELSE IF receipt = NoReceipt THEN "unverified"
  ELSE Passes(/\ receipt.solution = response.text /\ receipt.test = case.test_source
              /\ receipt.tests_ran > 0
              /\ receipt.passed)

judge(case, response, receipt) ==
  CASE case.kind = "exact" -> JudgeExact(case, response)
    [] case.kind = "json_contract" -> JudgeJson(case, response)
    [] case.kind = "tool_call" -> JudgeTool(case, response)
    [] case.kind = "python_syntax" -> JudgePython(case, response, receipt)

-------------------------------------------------------------------------------
(* What a contract says, read without recursion on both sides at once: the *)
(* set of all single facts about a value, each with its place.             *)

\* What a value says of itself: an array, its length; a scalar, its text.
Itself(v) == <<<<>>, v.tag, CASE v.tag = "dict" -> ""
                              [] v.tag = "list" -> Len(v.val)
                              [] OTHER -> v.val>>

\* The facts about a component, one place further down.
Below(step, facts) == {<<<<step, fact[1]>>, fact[2], fact[3]>> : fact \in facts}

Facts[v \in Json] ==
  {Itself(v)} \cup (IF v.tag \in Containers
                    THEN UNION {Below(<<v.tag, k>>, Facts[v.val[k]]) : k \in DOMAIN v.val}
                    ELSE {})

\* The one call that a tool case asks for.
ExpectedCall(case) ==
  [tag |-> "dict", val |-> [name |-> [tag |-> "str", val |-> case.name],
                            arguments |-> case.arguments]]

\* An answer passes just when it keeps the whole contract of its case: the
\* expected text; every fact the expected value states; that one call with no
\* argument missing or added; or a module with the required function of which a
\* container ran at least one test and reported success.  Source code is
\* unverified, never passed, without a container.
PassMeansContract(case, response, run) ==
  LET status == judge(case, response,
                      IF run = NoReceipt THEN NoReceipt ELSE RunInContainer(response, case, run))
      value == response.json
      runnable == case.kind = "python_syntax" /\ response.functions # NotPython
                  /\ case.function \in response.functions
  IN  /\ status = "unverified" <=> runnable /\ run = NoReceipt
      /\ status = "pass" <=>
        CASE case.kind = "exact" -> response.text = case.expected
          [] case.kind = "json_contract" ->
               value # NotJson /\ Facts[case.expected] \subseteq Facts[value]
          [] case.kind = "tool_call" ->
               /\ value # NotJson
               /\ Facts[ExpectedCall(case)] \subseteq Facts[value]
               /\ DOMAIN value.val = DOMAIN ExpectedCall(case).val
               /\ DOMAIN value.val["arguments"].val = DOMAIN case.arguments.val
          [] case.kind = "python_syntax" ->
               runnable /\ run # NoReceipt /\ run.rc = 0 /\ run.ran > 0
===============================================================================
