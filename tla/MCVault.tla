------------------------------- MODULE MCVault -------------------------------
(***************************************************************************)
(* Instances of Vault for model checking, and what a comment promises of   *)
(* the grace buyout.                                                       *)
(***************************************************************************)
EXTENDS Vault, FiniteSetsExt

CONSTANTS s1, alice, m1, tr

\* One subscriber and one merchant for every subscription.
OneSubscriber == [s \in Subs |-> alice]
OneMerchant == [s \in Subs |-> m1]

\* Optional caps and times: a configuration file cannot write None itself.
OnlyNone == {None}
NoneOr3 == {None, 3}

\* What the vault owes: prepaid money to subscribers, earnings to accounts.
Liabilities ==
    MapThenSumSet(LAMBDA s : sub[s].prepaid, Subs)
  + MapThenSumSet(LAMBDA x : bal[x], Accounts)

\* subscription.rs, do_grace_buyout: the amount is "tokens to deposit", so a
\* buyout leaves every balance it credits backed by tokens.
BuyoutBacked == vault >= Liabilities
=============================================================================
