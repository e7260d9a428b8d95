----------------------------- MODULE MCMetering -----------------------------
(***************************************************************************)
(* An instance of Metering for model checking.                             *)
(***************************************************************************)
EXTENDS Metering, TLC

CONSTANTS s1, alice, m1, m2, tr, r1, r2, r3

OneSubscriber == [s \in Subs |-> alice]
OneMerchant == [s \in Subs |-> m1]
OnlyNone == {None}
NoneOr4 == {None, 4}

\* References are interchangeable.
ReferenceSymmetry == Permutations(References)

\* One call per window; one unit a period; two calls, three units and a burst.
RateLimit == [maxCalls |-> 1, window |-> 2, burst |-> 0, cap |-> None]
UnitLimit == [maxCalls |-> None, window |-> 0, burst |-> 0, cap |-> 1]
BothLimits == [maxCalls |-> 2, window |-> 1, burst |-> 1, cap |-> 3]
SomeLimits == {RateLimit, UnitLimit, BothLimits}
=============================================================================
