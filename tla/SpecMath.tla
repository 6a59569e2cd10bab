------------------------------- MODULE SpecMath -------------------------------
(***************************************************************************)
(* tools/spec_math.py: what one position of speculative decoding puts out. *)
(* Probabilities are exact: a distribution is a function from tokens to    *)
(* multiples of 1/Whole.  The code's tolerances for rounding errors of     *)
(* floating point are therefore comparisons with zero here.                *)
(***************************************************************************)
EXTENDS Integers, FiniteSets, Functions

CONSTANTS Tokens, Whole

ASSUME WholeAssumption == Whole \in Nat \ {0}

ASSUME TokensAssumption == IsFiniteSet(Tokens)

Least(m, n) == IF m <= n THEN m ELSE n

Total(f) == SumFunctionOnSet(f, Tokens)

\* validate
Distribution == {f \in [Tokens -> 0..Whole] : Total(f) = Whole}

-------------------------------------------------------------------------------
(* one_position_output                                                     *)

Accepted(p, q) == [t \in Tokens |-> Least(p[t], q[t])]

Rejected(p, q) == Whole - Total(Accepted(p, q))

\* Deviation: after a rejection the target is sampled afresh.
ResidualOfTarget(p, q) == p

Residual(p, q) == [t \in Tokens |-> IF p[t] > q[t] THEN p[t] - q[t] ELSE 0]

\* The output law, in multiples of 1/(Whole * norm).
Norm(p, q) == IF Rejected(p, q) = 0 THEN 1 ELSE Total(Residual(p, q))

Output(p, q) ==
  [t \in Tokens |-> IF Rejected(p, q) = 0 THEN Accepted(p, q)[t]
                    ELSE (Accepted(p, q)[t] * Norm(p, q)) + (Rejected(p, q) * Residual(p, q)[t])]

-------------------------------------------------------------------------------
(* coupled_acceptance: a proposed token d is kept if a sample x ~ p is d,  *)
(* and otherwise with the extra probability.  Fractions as [num, den].     *)

Acceptance(p, q, d) == [num |-> Least(q[d], p[d]), den |-> q[d]]

Extra(p, q, d) == IF p[d] = Whole THEN [num |-> 0, den |-> 1]
                  ELSE [num |-> (Whole * Least(q[d], p[d])) - (p[d] * q[d]),
                        den |-> q[d] * (Whole - p[d])]

-------------------------------------------------------------------------------
(* Properties.                                                             *)

\* Speculation does not change the law of the output: whatever the draft
\* proposes, a token comes out with its probability under the target.
TargetLaw(p, q) == \A t \in Tokens : Output(p, q)[t] = p[t] * Norm(p, q)

\* The coupled form accepts each possible proposal with the same probability,
\* and what it adds on top of the coincidence is a probability.
CoupledLaw(p, q) ==
  \A d \in {t \in Tokens : q[t] > 0} :
    LET a == Acceptance(p, q, d)   extra == Extra(p, q, d) IN
    /\ 0 <= extra.num /\ extra.num <= extra.den
    /\ a.num * Whole * extra.den
         = a.den * ((p[d] * extra.den) + ((Whole - p[d]) * extra.num))
===============================================================================
