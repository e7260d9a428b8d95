---------------------------- MODULE MCSettlement ----------------------------
(***************************************************************************)
(* Instances of Settlement for model checking.                             *)
(***************************************************************************)
EXTENDS Settlement

CONSTANTS s1, s2, m1, m2, usdc, eurc, sales

\* Both subscriptions pay m1 at first.
AllToM1 == [s \in Subs |-> m1]

\* One token, or one token for each subscription.
OneToken == [s \in Subs |-> usdc]
TokenEach == [s \in Subs |-> IF s = s1 THEN usdc ELSE eurc]

\* No labels, or the first subscription labelled.
Unlabelled == [s \in Subs |-> NoLabel]
FirstLabelled == [s \in Subs |-> IF s = s1 THEN sales ELSE NoLabel]

Funds3 == [t \in Tokens |-> 3]

\* m2 takes the remainder of an uneven split; and m2 gets all.
Uneven == {<<[payee |-> m2, weight |-> 4000], [payee |-> m1, weight |-> 6000]>>,
           <<[payee |-> m2, weight |-> 10000]>>}

Weekly == {[cadence |-> 1, min |-> 2], [cadence |-> 0, min |-> 0]}
\* There and back, and to its own address.
M1AndBack == {<<m1, m2>>, <<m2, m1>>, <<m1, m1>>}
=============================================================================
