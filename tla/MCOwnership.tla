----------------------------- MODULE MCOwnership -----------------------------
(***************************************************************************)
(* An instance of Ownership for model checking.                            *)
(***************************************************************************)
EXTENDS Ownership, TLC

CONSTANTS s1, s2, alice, bob, c1

\* Half price and one unit off, for a single subscription.
OneCoupon == {[percent |-> 5000, fixed |-> 1, max |-> 1]}

\* Subscriptions are interchangeable; subscribers are not, as only one of them
\* is paid for by the other.
SubSymmetry == Permutations(Subs)
=============================================================================
