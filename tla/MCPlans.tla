------------------------------- MODULE MCPlans -------------------------------
(***************************************************************************)
(* Instances of Plans for model checking.                                  *)
(***************************************************************************)
EXTENDS Plans, TLC

CONSTANTS s1, s2, alice, m1

\* A dear offer, and a cheaper and slower one with a cap and a trial.
Basic == [amount |-> 2, interval |-> 1, cap |-> None, trial |-> 0]
Capped == [amount |-> 1, interval |-> 2, cap |-> 2, trial |-> 1]
OnlyBasic == {Basic}
BasicOrCapped == {Basic, Capped}

\* A cap, or none.
OneOrNone == {1, None}

\* The two subscriptions are interchangeable.
SubSymmetry == Permutations(Subs)

\* At most this many limits and deprecations are in force at a time.
CONSTANT MaxSettings
Settings ==
    Cardinality({u \in Subscribers : credit[u] # 0})
  + Cardinality({u \in Subscribers : activeCap[u] # DefaultActiveCap})
  + Cardinality({m \in Merchants : maxSubs[m] # Unlimited})
  + Cardinality({x \in DOMAIN capDefault : capDefault[x] # None})
  + Cardinality({p \in DOMAIN plan : plan[p].disabled})
  + Cardinality({p \in DOMAIN plan : plan[p].maxActive # 0})
FewSettings == Settings <= MaxSettings
=============================================================================
