----------------------------- MODULE MCReceipts -----------------------------
(***************************************************************************)
(* An instance of Receipts for model checking.                             *)
(***************************************************************************)
EXTENDS Receipts, TLC

CONSTANTS s1, alice, m1, tr, k1, k2

OneSubscriber == [s \in Subs |-> alice]
OneMerchant == [s \in Subs |-> m1]
OnlyNone == {None}
NoneOr2 == {None, 2}

\* Keys are interchangeable.
KeySymmetry == Permutations(Keys)

\* Two statements, retained or folded, are enough for a compaction to keep one
\* and fold one and for the next to add to it; one configured value differs
\* from its default at a time; expiry has no part in what is checked here.
ShortBooks ==
    /\ unbacked <= 4
    /\ keep = 0 \/ ttl = DefaultTtl
    /\ \A s \in Subs : /\ Len(rows[s]) + pruned[s].count <= 2
                      /\ sub[s].expiresAt = None /\ sub[s].expiresAtLedger = None
=============================================================================
