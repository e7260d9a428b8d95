# Subscription vault: TLA+ specification

This directory specifies the Soroban contract in `contracts/subscription_vault`, a vault
of prepaid subscriptions: TLA+ modules translated from the Rust source, TLC
configurations that check them on small instances, and TLAPS proofs for all instances.
`PROJECT.json` maps every definition to the lines it models and lists runs, mutants,
findings, hazards and theorems. Paths below are relative to
`src/contracts/subscription_vault/src/` (repository: `contracts/subscription_vault/src/`).

## 1. The system

Subscribers deposit tokens into the vault and subscribe to merchants. A billing engine
(admin or operator) calls `charge_subscription`, `batch_charge` or `charge_usage`; the
vault moves money from the subscription's prepaid balance to the merchant's balance and,
as a fee, to the treasury. Merchants withdraw, refund or have payouts flushed; subscribers
cancel, withdraw, or dispute a charge. The administrator has an emergency stop, a
blocklist and a recovery function.

Every entrypoint is one host invocation. It is atomic: an `Err`, or a panic such as a
token transfer the vault cannot cover, undoes all its writes. Concurrency is the
interleaving of entrypoint calls by parties that do not coordinate, with ledger time
passing in between. The one exception to atomicity is an item of `batch_charge`, whose
error is caught: writes made before the error stay.

| Component | State | Operations | Hard behaviour | Correct when |
|---|---|---|---|---|
| Interval charge (`charge_core.rs`) | `Sub(id)`, `ChargedPeriod`, `ChargeFailureCounter`, grace start | `charge_one` | retries, grace, auto-pause, batch errors | one collection per period and interval; no money made or lost; a due subscription is settled |
| Usage and one-off charges (`charge_core.rs`, `subscription.rs`) | period snapshots | `charge_usage_one`, `do_charge_one_off` | interplay with cap and closed period | debits what it credits; within the cap |
| Lifecycle (`subscription.rs`, `state_machine.rs`, `queries.rs`) | status, expiry, `cancel_at`, `auto_renew`, active count | create, cancel, schedule, pause, resume, cleanup | a view that rewrites elapsed grace periods; counter updates in several handlers | observed status follows the transition table; the counter never under-counts |
| Deposits (`subscription.rs`) | prepaid balance | deposit, bulk, delegated, grace buyout | different guards on each path | every credited unit is backed by a token |
| Subscriber withdrawals | `EmergencyWithdrawIntent` | withdraw, refund, emergency withdraw | several paths zero one balance | paid at most once |
| Merchant settlement (`merchant.rs`) | `MerchantBalance`, `MerchantEarnings`, sub-accounts, `PayoutSchedule`, `SplitPayees` | credit, withdraw, refund, flush, rotate, register | rounding, several tokens, rotation | balances covered by tokens and reconciled with earnings |
| Disputes (`dispute.rs`) | `Dispute`, `DisputeEscrow`, `SubscriptionDispute`, window | open, respond, resolve | window changed while open; balance drawn down meanwhile | one open dispute per subscription with its amount in escrow |
| Emergency stop, blocklist, merchant pause | flags | enable/disable, add/remove, pause/unpause | switched between any two calls | nothing is billed past a switch |
| Governance, admin rotation, treasury timelock (`governance.rs`, `admin.rs`) | guardians, proposals, cutoff, hand-over, queued change | submit, vote, execute, approve and consume, rotate, claim, queue | votes, invalidation and timelocks interleave; one approval used by two entrypoints | nothing privileged changes without an approval that has waited; approvals die with the admin's term |
| Usage limits and period snapshots (`charge_core.rs`, `subscription.rs`, `period_snapshots.rs`) | `UsageLimits`, `UsageState`, references, `BillingPeriodSnapshot` | configure, charge with reference | limits set before the id exists and changed between calls; windows and periods that roll | bounded calls per window and units per period; a reference charged once; snapshots add up |
| Ownership (`subscription.rs`, `coupon.rs`) | owner, `SubscriberSubs`, `SubscriberActiveCount`, `TransferIntent`, `DelegatedPayerGrant`, coupons | transfer, grant, deposit on behalf, apply coupon | the owner changes between any two calls | lists, counters, intents and grants follow the owner; redemptions are exact |
| Plans and admission (`subscription.rs`, `merchant.rs`) | `Plan`, `SubPlan`, `PlanMaxActive`, caps and their defaults, `CreditLimit`, creation windows, merchant and subscriber limits | publish, update, deprecate a plan; create from one, migrate; set limits | terms replaced while subscriptions run and are charged; limits compared with sums that other calls move | running terms are those of the linked version; caps hold; creations and exposure stay bounded |
| Receipts (`lib.rs` statements, `idempotency.rs`, batches in `admin.rs`) | statements and their aggregate, key buffer, lifetime of a key | append, compact, check and push a key, batch charge | a full buffer, keys that expire under a changing lifetime, items that fail after they have charged | statements add up to what was charged; no key is charged twice while it lives |
| Configuration storage (`admin.rs`, `lib.rs`) | instance and persistent tier, schema version, exports | set, migrate (two entrypoints), dry run, export, restore | any order of them from any deployed version | a reader gets the value written last; ids are never reissued; an upgrade is always possible |
| Nonces, reentrancy guard, oracle, whitelist and tags, metadata | own keys | own entrypoints | replay, callbacks | not modelled, see section 7 |

`accounting` in `lib.rs` is a stub (adds, subtracts and reads nothing), and no code writes
`CancellationEscrow`, so the claim and the dispute of a cancellation escrow are
unreachable. At this commit the crate does not build as it stands (event literals without
`contract_id`), and the replay salt (`charge_core.rs:484`) copies four bytes into an
eight-byte slice; the model takes what these lines are evidently meant to do.

## 2. Modules

| Module | Contents |
|---|---|
| `StateMachine` | statuses and the transition table of `state_machine.rs` |
| `Lifecycle` | abstract specification: one status per subscription that moves along the table |
| `Vault` | the core: subscriptions, charges, deposits, withdrawals, switches, clock |
| `MCVault` | instances of `Vault`, and what a comment promises of the grace buyout |
| `VaultProofs` | theorems about `Vault` |
| `Receipts` | on top of `Vault`: statements and compaction, idempotency keys, batches |
| `MCReceipts` | an instance of `Receipts` |
| `Metering` | on top of `Vault`: usage limits, references, billing-period snapshots |
| `MCMetering` | an instance of `Metering` |
| `BookkeepingProofs` | theorems about `Receipts` and `Metering` |
| `Ownership` | owners and what hangs on them: lists, counter, transfers, delegated payers, coupons |
| `MCOwnership` | an instance of `Ownership` |
| `OwnershipProofs` | theorems about `Ownership` |
| `Plans` | plan versions, migration between them, caps, credit, rate and concurrency limits |
| `MCPlans` | an instance of `Plans` |
| `PlansProofs` | theorems about `Plans` |
| `Arbitration` | abstract specification: what the contract promises to both sides of a dispute |
| `Settlement` | merchant side: splits, sub-accounts, earnings, payouts, rotation, disputes, several tokens |
| `MCSettlement` | instances of `Settlement` |
| `SettlementProofs` | theorems about `Settlement` |
| `Mandate` | abstract specification: what the contract promises about proposals put to its admin |
| `Governance` | guardians, proposals and approvals, admin rotation and hand-over, treasury queue, token registry |
| `MCGovernance` | instances of `Governance` |
| `GovernanceProofs` | theorems about `Governance` |
| `Storage` | the two configuration tiers, schema migration, export and restoration |
| `MCStorage` | an instance of `Storage` |
| `StorageProofs` | theorems about `Storage` |
| `Sums` | lemmas about sums over finite sets, used by the proofs |

`Vault` and `Settlement` meet at `credit_charge_payees`: `Vault` decides whether and how
much is charged and splits off the fee, `Settlement` distributes what the merchant gets.
Labels and the rotation of a merchant's address are `Settlement`'s alone; in `Vault` and the
modules on top of it a subscription has no label and keeps its merchant.
`Settlement` therefore sees prepaid money as one pool per token that charges draw from at
any time, which allows every order of charges that `Vault` does. `Metering` and `Receipts`
extend `Vault`: each of their steps is a step of `Vault` or leaves `Vault`'s state alone (proved). `Ownership`
shares with `Vault` the transition table; it keeps of billing only how a charge ends,
because `Vault` fixes the owner that `Ownership` lets change. `Plans` shares the table too: it
fixes neither amount, interval nor cap, which `Vault` does. `Storage` is about where
configuration lives, whatever it says; its emergency stop is the one of `Vault`.

### State and actions of `Vault`

`sub[s]` holds the `Subscription` record and the keys stored per subscription id; an id not
yet created is `Absent`. `bal` is `MerchantBalance` of merchants and treasury, `vault` the
contract's token balance. Handlers read through `get_subscription`, which shows an elapsed
grace period as `InsufficientBalance`, and write back what they read, as the code does.
`charge_one` is six actions that partition its outcomes: `ChargeExpire`, `ChargeAtCap`,
`ChargeScheduledCancellation`, `ChargeOverCap`, `ChargeCollect`, `ChargeUnderfunded`; the
guards they share are `ChargeAllowed` and `ChargeDue`. Every other entrypoint is one
action named after it. Definitions that begin with `Mutant:` in their comment are used
by no specification; they are the deliberate bugs the properties are tested against.

A subscription comes from `CreateSubscription` or `CreateSubscriptionFromPlan`. Both end in
`Enter`; the second may start with a trial (`Trials`) and, like the code, reads neither the
merchant's blocklist entry nor compares the cap with the amount, and sets no expiry.

Abstracted in `Vault`:

- One token; fee-token conversion, sub-accounts, splits and disputes are left to `Settlement` or out.
- The resolved amount of a charge (oracle, coupon, proration) is any member of
  `ChargeAmounts`; zero-amount charges are excluded, and with them the subscriptions of
  amount 0 that are billed by usage only (`validation.rs:48`). They are in `Storage`, where
  that amount matters.
- Guards that only refuse and whose state nothing else reads are left out: vacation,
  whitelist, nonces, multi-signature approval, configuration cooldowns; credit and rate
  limits are in `Plans`, idempotency keys in `Receipts`.
  This gives more behaviours than the code, so the safety results carry over.
- Configuration (fees, grace period, threshold, cooldown, caps per subscriber) is constant.
- The ledger sequence advances with the timestamp.
- `usage_enabled` is true wherever `UsageAmounts` is not empty.
- In `cancel` and `resume`, "merchant" also stands for the bulk operations of the admin.

### State and actions of `Receipts`

`rows` and `pruned` are the retained statements of a subscription and the aggregate of the
compacted ones, `idem` its key buffer, `ttl` and `keep` the admin's settings. Every charge of
`Vault` that leaves a receipt has an action that makes the charge, appends the statement and
records the key: `ChargeSubscription` rolls back as a whole when the buffer is full,
`BatchCharge` keeps charge and statement and reports the item as failed. `unbacked`, `live`
and `twice` are history variables: credits out of nothing and what recoveries took, keys recorded and unexpired ever
since under every lifetime configured, keys charged while live. A batch that names several
ids is a sequence of items at one time. Calls that succeed and change nothing (a key that is
alive) are no steps. A key is a pair of domain and name: hashing is taken to be injective.
`GraceBuyout` records its key without looking for it, as the code does.

### State and actions of `Metering`

`limits` and `usage` are the keys `UsageLimits` and `UsageState`, `refs` the references
charged, `snapshot` the billing-period snapshots; `capped`, `calls` and `inherited` are
history variables. `ChargeUsageWithReference` is `charge_usage_one`: reference, burst, window,
per-period cap, then the charge of `Vault`. The model keeps these behaviours of the code:

- the period of the counter rolls only while a cap is configured, and a call refused by
  the cap stores the rolled state all the same (`RefuseOverPeriodCap`);
- any merchant may configure the id that is given out next; the model lets them configure
  any absent id;
- direct creation (`CreateMetered`) needs limits of the subscription's own merchant, creation
  from a plan (`CreateMeteredFromPlan`) looks at none: such a subscription is metered without
  limits (`Limited`), or under those another merchant left for its id, until its own
  merchant sets some (`inherited`);
- an amount over the lifetime cap counts against the limits although nothing is debited;
- a grace buyout writes no snapshot (so none is made in the run).

Left out: the governance override of a usage cap and the retention of 365 snapshots.

### State and actions of `Ownership`

`index[u][s]` is how often the list of `u` has `s`: lists are appended to without a look, so
absence of duplicates is something to check. `granted` and `paid` are history variables.
Of billing, `ChargeCollects`, `ChargeUnderfunded` and `ChargeEnds` say how a charge may
leave a subscription; when it falls due is left open, which gives more behaviours than the
code. Behaviours kept: `accept_transfer` looks again at neither status nor owner; an
archived subscription can be transferred; a grant is consumed whole; a coupon's merchant is
not compared with the subscription's, and a coupon that leaves nothing to pay makes the
charge fail. Left out because they only refuse: emergency stop, credit limit, merchant
pause, blocklist (whose removal, which resumes subscriptions, is in `Vault`).

### State and actions of `Plans`

`plan` is the catalogue (a sequence: an id is a position, starting at 1), `sub` the
subscription records with their plan link and `ChargedPeriod`, `indexed`, `activeCount`,
`activeCap`, `credit`, `maxSubs`, `capDefault` and `window` the keys the limits read.
`Admitted` is what both ways to create a subscription check; each adds its own. An update
appends a version; a migration replaces amount, interval and cap of a running subscription,
in any status, and looks neither at the credit nor at the concurrency limit. Deposits,
charges, pause, resume and cancellation are there as far as exposure, caps and counters see
them, without grace period and auto-pause. A cap or a default of one may be set
or cleared (`CapChoices` has `None`). One settlement token; a subscriber is never the
admin, who is exempt from the creation rate.

### State and actions of `Storage`

`instance` and `persistent` map keys to values, with `None` for an absent entry. Settings
fall into those `init` requires, optional ones, and extras that no migration moves.
`read_config` and `write_config` are the code's: the tier depends on the stored version.
`Migrate` is the ladder up to version 5 with its final check, `MigrateConfigToPersistent` the
older entrypoint. `ExportPage` is one page of either export, at a cursor the caller keeps;
other calls run between two pages. `subs` are the stored records by id, since the rewrites
of versions 4 and 5 only fill absent fields, and `zeroAmount` those of amount 0, which
creation and restoration allow for subscriptions billed by usage. `verify_migration` refuses
when a moved entry is left in the instance tier, or when one of three sampled records (the first, the
middle and the last id below `NextId`) has amount 0; the other things it samples for, an interval of 0 and a
negative balance, no entrypoint stores. `Init` is a contract before `init`, or a
deployment of any earlier version.

### State and actions of `Settlement`

One variable per storage key family (`bal`, `earn`, `tokensOf`, `subAccount`, `schedule`,
`split`, `dispute`, `escrow`, `disputeOf`, ...), one action per entrypoint. `bal` is an
integer, as in the code: `safe_sub` only guards against wrap-around. A sub-account has
one number for all tokens, as its storage key does. A charge on a label that nobody registered
under the present merchant (the label is free at creation, and rotation leaves sub-accounts behind) fails
after its payees are credited: alone it is rolled back, so `CreditCharge` asks for the
sub-account; in a batch the credit stays and nothing is debited, which is
`BatchChargeUnrouted`. `unbacked` counts what it credited, up to `MaxUnbacked`. `RotateMerchantAddress` merges or
overwrites the keys the code migrates, and leaves alone those it does not. Left out:
fees, emergency stop, blocklist, withdrawal multisig (all only refuse here), overflow of
`i128`, and the pause and vacation keys in rotation.

### State and actions of `Governance`

One variable per key (`admin`, `weight`, `proposal`, `cutoff`, `handover`, `queued`, ...),
one action per entrypoint. What a proposal asks for is an operation: kind and targets as
in `Proposal`. `Approved` is `require_multisig_approval` and `Consume` is
`consume_multisig_proposal`; the admin's operations take the id they pass between them as
a parameter, because the id 0 stands for two things in the code. `Governance` and `Vault`
share the emergency stop and the recovery: `Vault` has their effect on money, `Governance`
who may call them and when. Left out because they only refuse: nonces, the cooldown
between two changes of one setting, the token balance a recovery needs, and the live
subscriptions that keep a token from being removed.

## 3. Runs that pass

Bounds are in the `.cfg` files. Time is counted in units of the configured durations
(interval 1 or 2, grace period 0 to 2), since the code only compares sums of them; amounts
are small multiples of a charge, since it only adds, compares and takes fractions. In every
run the clock stops at `MaxTime`, after which the system may stop: hence
`CHECK_DEADLOCK FALSE`.

| Run | Properties | What it shows | States |
|---|---|---|---|
| `billing` | `BillingCalendar`, `ChargeSpacing`, `LifecycleRefined` | one subscription, created directly or from a plan with a trial, through its life, with buyout, cap, expiry, scheduled cancellation, renewal switch and archival over two and a half intervals: its place in the calendar, collections an interval and a period apart, status along the state machine | 210 000 |
| `switches` | `ActiveCountCovers`, `StopFreezesBilling`, `BlockedNeverBilled` | stop, blocklist, merchant pause and auto-pause between all other calls, with grace periods and buyouts | 1 780 000 |
| `liveness` | `ActiveDueSettled`, `ScheduledCancelFires`, `AutoPauseFires` | under fair billing and without a grace period, with a cap or none, a due Active subscription is settled, a scheduled cancellation carried out, and repeated failures lead out of InsufficientBalance | 236 000 |
| `receipts` | `StatementsReconcile`, `BooksBalance`, `KeyChargedOnce` | every kind of charge, alone and in batches, with fees, refunds, withdrawals and a stranded-fund recovery, while statements are compacted and the lifetime of keys changes | 459 000 |
| `metering` | `LimitsOwned`, `RateBounded`, `SnapshotsReconcile`, `UsageCapHolds` | limits set by two merchants before the id exists and changed between calls, a subscription created directly or from a plan; usage and interval charges over two billing periods: calls and units stay bounded, limits are the merchant's own unless inherited with the id, snapshots account for every unit | 249 000 |
| `plans` | `TermsFollowPlan`, `CapNeverExceeded`, `CreationRate`, `ExposureGuarded`, `ReplaysExplained` | subscriptions created directly and from plans, migrated, charged and resumed while plans are updated and limits and caps are set and cleared: what they are billed on, how far limits hold, and when a due charge is refused | 932 000 |
| `ownership` | `ListsFollowOwner`, `ActiveCountCovers`, `IntentIsOwners`, `PayerWithinGrants`, `RedemptionsExact` | two subscriptions change hands between two subscribers in every status, with a delegated payer and a coupon | 556 000 |
| `disputes` | `DisputesArbitrated`, `EarningsNonNegative`, `TokensIsolated`, `RotationKeepsClaims` | two subscriptions in two tokens, two disputes, withdrawals, a window that changes and rotation there, back and to the same address: each dispute is decided once and holds its amount until then, nobody goes into debt, tokens cover what is owed in them | 289 000 |
| `payees` | `Covered`, `RollUp` | uneven splits, a labelled subscription charged before and after its label is registered, alone and in batches, refunds, sub-account withdrawals and payouts: no unit made or lost but what `BatchChargeUnrouted` credits, earnings reconcile | 2 140 000 |
| `governance` | `VotesAreAdmins`, `MandateRefined`, `ChangesBacked` | stop, tokens, recovery, treasury and admin role by proposal, approved operation, rotation, hand-over and queue while guardians come and go: votes and proposals die with the admin's term, and no proposal closes twice; with guardians nothing changes without a proposal that has waited and, but for the first, has its quorum and is used up | 582 000 |
| `storage` | `LastWriteRead`, `IdsFresh`, `ExportComplete`, `UpgradeOpen`, `PreviewExact` | a deployment of any version is configured, migrated either way, exported page by page and restored into, with records of amount 0 anywhere: reads, ids, exports and dry runs are right, and an upgrade goes through exactly when no sampled record has amount 0 | 896 000 |

`metering` is symmetric in its three references: two to charge and one to retry with. Two
subscribers and two subscriptions in `ownership` let a subscription move there and back
while the other holds the cap (`ActiveCap` 1); one coupon code is enough because
redemptions of different codes meet only in the subscription's binding.

Two subscriptions are enough for `disputes`, `payees` and `plans` because subscriptions
interact only through shared balances, counters and indexes, where two users already
compete; two disputes let a second follow or overlap a first. In `disputes` the window is two
ledgers until the admin shortens it to one, so an unanswered dispute can be resolved only
after that, while an answered one need not wait. Two proposals are needed in
`governance` because the first one (id 0) is special; `PairsOfInterest` follows two at once
where they are about the emergency stop and the admin role, and every other operation in a
proposal of its own.

`plans` has two plan versions, so that a migration and an update of what has been migrated
from exist, an expensive offer and a cheaper, slower one with cap and trial (so that a
migration lengthens the interval of a subscription that has been charged), and a
creation cap of 1, which two subscriptions reach at the boundary of a window. `FewSettings`
keeps one limit or deprecation in force at a time, since each limit is compared on its own;
all of them occur. `MaxScan` does not bind, so that limits are compared over both
subscriptions. The run is symmetric in the subscriptions. `storage` has one setting of
each kind (settings of one kind are treated alike), three ids and pages of two, so that an
export has a cursor in the middle. `receipts` has two keys and a buffer for one, so that the
second finds it full or finds the first expired; `ShortBooks` stops at two statements and a
few unbacked units, which lets one compaction fold and the next add, and leaves out times of
expiry, which `billing` has. It is symmetric in the keys. In `payees` up to two batch items (`MaxUnbacked`) are
credited without a debit, so that the same item is repeated, and the label is registered before, between or
after them. In `storage` three ids make the first, the middle and the last record different ones, so that
each of the three samples decides by itself.

Fairness (`FairSpec`): ledgers keep closing (`WF_vars(Tick)`), and the billing engine keeps
submitting charges for every subscription (`EngineRuns`: `WF_vars(Billing(s))` for each). This is the contract's
operating assumption (`docs/batch_charge.md`): nothing in it bills by itself. The run has
neither merchant pauses nor blocklist: a merchant that stays paused is not charged, and its
scheduled cancellations wait for as long (section 4). No fairness is
assumed of subscribers, merchants or the administrator.

Every property has a mutant in `PROJECT.json`: a plausible bug in one definition that makes
TLC report the property violated.

## 4. Where the code and its documentation disagree

The run `buyout` checks what a comment says and finds the code breaking it: a grace buyout
credits balances without a token transfer. The quotation is in `PROJECT.json`.

The models also contain the following behaviour of the code, which documents or comments
describe otherwise. It shapes what the passing runs may include, and has no run of its own:

- A one-off charge credits the merchant and does not store the debit (`subscription.rs:2377`,
  `docs/oneoff_charges.md:68`); recovery takes every token for recoverable, because
  `get_total_accounted` is a stub (`lib.rs:423`, `lib.rs:1091`). Hence
  `BooksBalance` counts one-off charges, buyouts and recoveries apart (`unbacked`).
- A grace buyout looks at neither the lifetime cap nor the blocklist (`subscription.rs:922`,
  `docs/lifetime_caps.md:3`, `docs/blocklist.md:13`). `BlockedNeverBilled` names it as the one exception.
- Cancellations, withdrawals and merchant refunds go on under the emergency stop
  (`docs/protocol_invariants.md:136`); `StopFreezesBilling` says what the stop does block.
- `pause_merchant` writes a key that charges no longer read (`merchant.rs:132`, `docs/merchant_pause.md:24`).
- A blocklisted merchant's subscriptions are not charged (`docs/blocklist.md:14` says they are).
- With a grace period configured auto-pause is never reached: the transition is refused
  before failures are counted (`charge_core.rs:866`, `admin.rs:1069`). Hence no grace period
  in `liveness`.
- The first proposal has the id that means "no proposal", so what it approves does not use
  it up (`admin.rs:318`, `admin.rs:316`); `ChangesBacked` says what holds of it.
- Auto-pause followed by resume counts a subscription twice (`charge_core.rs:928`);
  `ActiveCountCovers` states the direction that holds.
- Operators and delegated payers can fund a Cancelled subscription (`docs/integration_guide.md:217`).
- A cancellation pays out at once; there is no escrow (`types.rs:888`).
- A merchant's withdrawal is booked under refunds and under withdrawals (`merchant.rs:1117`,
  `docs/merchant_earnings.md:45`). Hence no withdrawals in `payees`, which checks `RollUp`.
- Rotation to the same address erases the balance (`merchant.rs:1580`, `lib.rs:1035`);
  `RotationKeepsClaims` exempts it, `Covered` is proved without it.
- A labelled subscription with split payees drives its merchant below zero
  (`charge_core.rs:646`), and a sub-account filled in one token is paid out in another
  (`merchant.rs:2071`). Hence no labels in `disputes`.
- The voter on a proposal is the stored admin (`governance.rs:271`), so no proposal gathers
  the votes of several guardians (`docs/governance_proposals.md:9`); the required weight
  is rounded down (`governance.rs:375`), and zero without guardians.
- `queue_treasury_change` applies its change at once and again when it is executed, which undoes a
  proposal carried out meanwhile; its delay is 48 days, not hours, and with
  guardians it is never approved (`admin.rs:909`, `docs/timelocked_treasury_change.md:5`);
  `rotate_admin` refuses an approval with another id than 0.
- `restore_snapshot_page` raises `NextId` in instance storage, which version 3 and later do not
  read (`lib.rs:1692`, promised in `lib.rs:1619`): ids of restored records are issued again,
  and the entry left behind makes a later `migrate` fail its own check. `IdsFresh` and
  `UpgradeOpen` say what holds; `Storage` also has `RestoreAdvancesNextId`, the promise
  itself, which TLC refutes when it is added to `MCStorage_storage.cfg`. A restored record
  loses its grace start, scheduled cancellation, renewal switch and label.
- `export_full_snapshot_page` takes its bound from instance storage too (`lib.rs:1555`) and is
  empty from version 3 on; `ExportComplete` says what holds.
- A batch item whose key finds the buffer full has been charged and is reported as failed
  (`charge_core.rs:798`; `lib.rs:1112` says the results tell which ids were charged).
- A migration to a plan with a longer interval keeps `ChargedPeriod`, so later charges that
  are due are refused as replays (`charge_core.rs:526`, `subscription.rs:3674`), which the comment
  at `charge_core.rs:519` reserves for what is "already charged for this billing period". `ReplaysExplained`
  says that nothing else shuts a due subscription out.
- Resumption, a payer's deposit that resumes, migration and a grace buyout do not look at the
  credit limit (`docs/credit_limits.md:110`); `ExposureGuarded` names the exceptions in `Plans`.
- Creation from a plan skips the merchant's blocklist entry, the accepted token, the check of the cap against the
  amount, and usage limits, all of which direct creation makes (`subscription.rs:3362`): a metered
  subscription may have no limits, or those another merchant set for its id
  (`subscription.rs:3819`). `LimitsOwned` says what holds.
- An item of `batch_charge` on a label that is not registered under its merchant credits
  balance and earnings of the payees, then fails, and the debit is never stored
  (`charge_core.rs:636`, `merchant.rs:2078`); it can be repeated. `Covered` counts these credits apart
  (`unbacked`) and says that nothing else is credited without a debit.
- `verify_migration` refuses a sampled record of amount 0 (`admin.rs:1518`), which
  `validation.rs:48` allows for subscriptions billed by usage: with such a record at id 0, in the middle or
  last, neither `migrate` nor `migrate_config_to_persistent` goes through until further
  creations move the sample or, for id 0, a restored page replaces the record. `UpgradeOpen` says exactly when an upgrade is possible.
- A scheduled cancellation is looked at only after the pause and the blocklist
  (`charge_core.rs:391`), so it waits for as long as the merchant is paused or a party blocked.
- One-off charges have statements and are not in `lifetime_charged`
  (`docs/reconciliation_strategy.md:28`); `StatementsReconcile` leaves them out.
- The admin's creation cap is written to persistent storage from version 3 on and read from
  instance storage (`admin.rs:412`, `subscription.rs:473`): the default always applies.
- The fee token, the oracle and the creation cap are moved by no migration; read through
  `read_config` they are lost at version 3.
- `do_operator_batch_charge` in `operator` (`lib.rs:672`) is a stub.

## 5. Theorems

All are proved by TLAPS for every value of the constants that satisfies the assumptions
`ConfigAssumption` and `InputAssumption` (`Vault`), `MeteringAssumption` (`Metering`),
`ReceiptsAssumption` (`Receipts`), `OwnershipAssumption` and `NoOneAssumption` (`Ownership`),
`PlansAssumption` (`Plans`), `SettlementAssumption` (`Settlement`), `GovernanceAssumption`
(`Governance`) or `StorageAssumption` (`Storage`, where the families of settings are also
assumed disjoint and some setting required by `init`): durations, amounts and bounds are natural numbers, charged amounts and the
interval positive, basis points at most 10000, the functions of the constants total, the
sets that are summed over finite, and
the counter's range at least the number of subscriptions. TLC evaluates them on each run.

| Theorem | Statement |
|---|---|
| `VaultProofs!TypeCorrect` | `Spec => []TypeOK`: in particular no balance goes below zero |
| `VaultProofs!CalendarCorrect` | `Spec => []BillingCalendar` |
| `VaultProofs!SpacingCorrect` | `Spec => ChargeSpacing` (INV-1 of `docs/protocol_invariants.md`) |
| `VaultProofs!LifecycleCorrect` | `Spec => LifecycleRefined`: `Vault` implements `Lifecycle` |
| `VaultProofs!StopCorrect` | `Spec => StopFreezesBilling` |
| `VaultProofs!BlockedCorrect` | `Spec => BlockedNeverBilled` |
| `VaultProofs!CounterCorrect` | `Spec => []ActiveCountCovers` |
| `VaultProofs!DueSettlement` | `FairSpec /\ []AllChargeable => ActiveDueSettled` |
| `BookkeepingProofs!MeteredIsVault` | `MeteredSpec => Spec`: the metered vault implements `Vault` |
| `BookkeepingProofs!LimitsAreOwned` | `MeteredSpec => []LimitsOwned`: limits are the merchant's own, or inherited by a subscription from a plan |
| `BookkeepingProofs!MeteringTyped` | `MeteredSpec => []MeteringTypeOK` |
| `BookkeepingProofs!UsageCapCorrect` | `MeteredSpec => UsageCapHolds` |
| `BookkeepingProofs!RateCorrect` | `MeteredSpec => []RateBounded` |
| `BookkeepingProofs!SnapshotsCorrect` | `MeteredSpec => []SnapshotsReconcile`, if no buyout is made |
| `BookkeepingProofs!ReceiptedIsVault` | `ReceiptsSpec => Spec`: the vault with receipts implements `Vault` |
| `BookkeepingProofs!ReceiptsSpacing` | `ReceiptsSpec => ChargeSpacing`, whatever keys are passed |
| `BookkeepingProofs!BooksCorrect` | `ReceiptsSpec => []BooksBalance` |
| `BookkeepingProofs!KeysCorrect` | `ReceiptsSpec => []KeyChargedOnce` |
| `BookkeepingProofs!StatementsCorrect` | `ReceiptsSpec => []StatementsReconcile` |
| `PlansProofs!TermsCorrect` | `Spec => []TermsFollowPlan` |
| `PlansProofs!CapsHold` | `Spec => []CapNeverExceeded` |
| `PlansProofs!RateCorrect` | `Spec => []CreationRate` |
| `PlansProofs!ExposureCorrect` | `Spec => ExposureGuarded` |
| `PlansProofs!ReplaysCorrect` | `Spec => ReplaysExplained` |
| `PlansProofs!PlansLifecycle` | `Spec => StatusRefined`: `Plans` implements `Lifecycle` |
| `OwnershipProofs!ListsFollow` | `Spec => []ListsFollowOwner` |
| `OwnershipProofs!IntentsAreOwners` | `Spec => []IntentIsOwners` |
| `OwnershipProofs!PayersWithinGrants` | `Spec => []PayerWithinGrants` |
| `OwnershipProofs!CounterCovers` | `Spec => []ActiveCountCovers` |
| `OwnershipProofs!RedemptionsCounted` | `Spec => []RedemptionsExact` |
| `OwnershipProofs!OwnershipTyped` | `Spec => []TypeOK` |
| `OwnershipProofs!OwnedLifecycle` | `Spec => StatusRefined`: `Ownership` implements `Lifecycle` |
| `SettlementProofs!DisputesCorrect` | `Spec => []DisputesConsistent` |
| `SettlementProofs!ArbitrationCorrect` | `Spec => DisputesArbitrated`: `Settlement` implements `Arbitration` |
| `SettlementProofs!SettlementTyped` | `Spec => []TypeOK` |
| `SettlementProofs!RotationsCorrect` | `Spec => RotationKeepsClaims` |
| `SettlementProofs!DebtsCorrect` | `Spec => []EarningsNonNegative`, without labelled subscriptions |
| `SettlementProofs!TokensCorrect` | `Spec => []TokensIsolated`, without labelled subscriptions |
| `SettlementProofs!CoverCorrect` | `Spec => []Covered`, labels and failed batch items included, if nobody is rotated to their own address |
| `SettlementProofs!RollUpCorrect` | `Spec => []RollUp`, without withdrawals, disputes and rotations |
| `GovernanceProofs!VotesCorrect` | `Spec => []VotesAreAdmins` |
| `GovernanceProofs!RotationCorrect` | `Spec => RotationInvalidates` |
| `GovernanceProofs!MandateCorrect` | `Spec => MandateRefined`: `Governance` implements `Mandate` |
| `GovernanceProofs!GovernanceTyped` | `Spec => []TypeOK` |
| `GovernanceProofs!ChangesCorrect` | `Spec => ChangesBacked` |
| `StorageProofs!ReadsCorrect` | `Spec => []LastWriteRead` |
| `StorageProofs!IdsCorrect` | `Spec => []IdsFresh` |
| `StorageProofs!ExportsCorrect` | `Spec => []ExportComplete` |
| `StorageProofs!PreviewCorrect` | `Spec => PreviewExact` |
| `StorageProofs!UpgradeCorrect` | `Spec => []UpgradeOpen`: possible exactly when the sampled records pass |

The conditions in the table are those under which the code keeps its promise; section 4
says what it does beyond them. A grace buyout writes no snapshot. A labelled subscription
with split payees is debited from its merchant whoever was credited, and a sub-account does
not know its token. Rotating a merchant to its own address writes the balance under the new
key and then removes the old one, which is the same key: claims are lost, so `Covered` fails,
while what is left stays covered. A withdrawal is booked under two counters, and a lost
dispute or a rotation moves a balance without its earnings. Each condition names the inputs
that do the harm and leaves everything else free. Two properties name their exceptions
themselves: `BlockedNeverBilled` the buyout, which does not look at the blocklist, and
`ReplaysExplained` the migration to a longer interval.

The condition of `DueSettlement` is of another kind: `AllChargeable` says that a charge of a
due Active subscription can go through, with `ENABLED`, about which the prover knows nothing.
It holds as long as no balance overflows; TLC finds it invariant when it is added to
`MCVault_liveness.cfg`.

`VaultProofs`. The inductive invariant `IInv` is `TypeOK /\ BillingCalendar`. Neither part
is inductive without the other: a buyout is allowed by the status GracePeriod alone, so
that a collection is an interval after the last one needs the calendar's clause that a
stored grace period means an unpaid interval, and that clause needs times to be numbers.
A record written by a handler is `Good` if it is typed, stands in the calendar, collects at
most once and moves along the state machine; three lemmas give the ways to be Good (keep
status and calendar, move the status, collect), one lemma per handler shows what it writes
is Good, and `WriteGood` turns that into a fact about all subscriptions. The books
(balances, counter, index) are typed by separate lemmas. `TickStep` is the case in which
the observed status changes without a write.
The emergency stop and the blocklist are one lemma per handler on what it may change while
they are on. For the counter, `CountInv` adds `ActiveCountCovers` to `IInv`: a handler that
writes one record owes the counter at most the change of its status, and at its ceiling the counter covers
every set of subscriptions. For `DueSettlement`, every outcome of `charge_one` on a due Active
subscription ends its being due: a collection moves the time of the last payment to now, the
other two take it out of Active, and the early returns are not open to it. With weak fairness
of the charge, temporal logic does the rest.

`BookkeepingProofs`. Each step of either module is a step of `Vault` or a stutter, so what
`VaultProofs` shows carries over. For `LimitsOwned`, no
handler but the two creations brings an id into being (`NoNewId`, `FreshIds`): direct creation and
configuration check the merchant, creation from a plan adds its id to `inherited`, and
configuration by the merchant takes it out. Calls without limits (`UnlimitedMeters`) count nothing and
are in no bound.

- `BooksInv`: what all subscriptions and accounts hold is a sum over two finite sets; one lemma per kind of
  charge says by how much it moves the sum, the fee and what is left of the amount together.
- `KeyInv`: every live key has its entry in the buffer, with the time it was recorded, and is not expired. What the pruning of
  the buffer keeps is shown for `SelectSeq` itself, over its recursive function.
- `StatementInv`: charges are accounted for by rows and aggregate. Totals over a list are a fold, whose
  value for a longer list and for a list cut in two comes from the same argument.
- `MeterInv`: beside types, where a usage state may stand (never ahead of clock or period, nothing called before it is
  written), and that the calls fit the window: as many as counted since it began, no more than the limit
  in the stretch before it, at most twice the limit in any stretch. The stretch before is what makes
  the bound of two windows inductive. The calls are those made since the limits were configured: configuring keeps
  the stored window and count, and calls under former limits prove nothing about the new ones.
- `SnapshotInv`: the totals of the periods add up to what was charged.

`OwnershipProofs`. The invariant `OwnerInv` joins `ListsFollowOwner` and `IntentIsOwners`: a
transfer keeps lists free of duplicates only because its intent is to somebody other than
the owner. It adds that exactly the absent ids are without an owner and that none of them
has an intent, so that a new id is on no list. `PayerInv` rests on it: the grant a deposit
uses is that of an owner who exists. `CountInv` follows the counters of both sides of a
transfer (`Kept` lists the ways one step may treat one subscriber's counter). `RedemptionInv`
adds that a subscription has used only the coupon it is bound to and that nobody has used a
coupon which does not exist, since creating a code again sets its maximum anew.

`PlansProofs`. The invariant `PlanInv` adds to the two properties their types and two facts
about the catalogue: plans of one family have one merchant, and every link is to a plan that
exists. Migration compares families and never merchants, so that the merchant stays right
follows only from the first. Plans are never rewritten but for `disabled` and `maxActive`.
Within the cap: a charge and a new cap are compared with it, creation starts from zero.
For the creation rate, `RateInv` says that a window began with a creation, counts all that
came after it, and that fewer creations than the cap lie in the day before it; any stretch of a day
meets at most those two. For the exposure, one record written moves the sum by what it adds (`SumChange`).
`Rewritten` lists what a step may do to one record: the statuses it may reach (`Reached`), which gives the
refinement of `Lifecycle`, and its times (`Timed`). For `ReplaysExplained`, a `ChargedPeriod` that began no later
than the last payment stays behind the present period once an interval has passed since, and a shorter
interval only makes the last payment's period number larger (`ShorterIntervals`).

`SettlementProofs`. `DisputeInv` adds to `DisputesConsistent` the types of the five
dispute variables and that `nextDispute` is above every dispute on record, which is what
makes a new dispute's escrow slot empty. Only three actions touch these variables; the
others are one lemma. The same three are the steps `Arbitration` sees: `Open`, `Answer` and `Decide` of the
subscription whose index entry names the dispute, which `DisputeInv` says it does. `TypeInv` adds the types of money and configuration. `DebtInv` is about the
split of a charge: truncated shares and the remainder add up to the amount and none is negative
(`SumScale`), so a merchant is debited no more than it was credited in the same call.
For the tokens, `Surplus(t)` is what the vault holds beyond what it owes in `t`. Every step
leaves it alone (`Still`) or moves an amount between it and one sub-account (`Routing`), and
that is the whole argument for both `TokensIsolated` and `Covered`: without labels there is
no routing, and with them the surplus of all tokens is what the sub-accounts hold less what is
`unbacked`, which `BatchChargeUnrouted` raises by as much as it raises claims. A rotation of a
merchant to itself only raises the surplus (`Vacated`). Every other rotation moves the balance of every token
and a dispute's claim from one merchant to another (`SumMove`). `RollUpInv` compares, for each merchant,
what earnings record beyond balances (`Onward`) with its sub-accounts, over all tokens and labels.

`GovernanceProofs`. The invariant `VoteInv` adds to `VotesAreAdmins` that proposals are
stored exactly under the ids below `nextId` and that the cutoff is at most `nextId`. With
it, moving the cutoff to `nextId` leaves no proposal to say anything about, which is the
whole argument for the three actions that change the admin; the others keep the admin, and
only `VoteProposal` writes a vote. For `MandateRefined` the same three actions are `Succeed`, with at most the
executed proposal closed, and the others submit, close or leave the agenda alone. `GovernanceInv` adds the types of the settings and
`DelayKept`: a stored proposal's eta is a minimum delay after its submission, which is why
even what the first proposal approves has waited. `Written` is a table of which call writes which
variable, so that each variable has its case and not each action; `QuorumRounding` says that rounding
the required weight down costs less than one vote.

`StorageProofs`. The invariant `StorageInv` says that what a migration moves is in one tier:
nothing is persistent before version 3, and from then on only a restored bound on ids is in
the instance tier. Without it a migration could put an old value over a newer one. It adds that
before `init` nothing is stored (`init` may only overwrite nothing) and that after it every
required setting has a value. `MovedInv` is the argument both migrations share. That a page has
a highest id comes from the well-foundedness of the natural numbers. For `PreviewExact`,
`NextId` reads the same before and after the configuration moves, so both rewrites see the
records the dry run counts. For the exports, `ExportInv` says that everything below the cursor
which was there at the beginning has been delivered; records are never removed, and `IdsFresh` gives that
all of them are below the bound. `UpgradeOpen` follows from the same invariant: nothing `migrate` checks for is left
in the instance tier, and the bound it samples below is the one read before it (`NextId`), so the
samples alone decide.

`Sums` holds what these proofs need of `SumFunctionOnSet` and the library does not state: its
recursion (`SumRec`), one value changed (`SumChange`), sums of sums, multiples, sums over the
groups of a partition (`SumAdd`, `SumScale`, `SumGroups`) and a value moved from one argument to another
(`SumMove`). The library's induction theorems cannot be used here, so each is shown by taking a smallest
subset for which it fails (`SmallestSubset`) or, for the functions behind `SelectSeq` and folds over lists, a least
number (`LeastNatural`).

## 6. Only model-checked

- `ScheduledCancelFires` and `AutoPauseFires` are liveness under fairness whose arguments are inductions
  over time and over the number of failures; temporal induction is out of the prover's reach. They rest
  on the run `liveness`. The premise of `DueSettlement` is not part of a run: TLC confirms it on the
  instance of `liveness` when `AllChargeable` is added there as an invariant, and the run itself
  checks the theorem's conclusion without it.
- Where a theorem has a condition, the run of its property meets it too, because the code
  breaks the property outside of it.

Every other property of a passing run is stated by a theorem. The specifications bound some counters
(`MaxTime` and the like) by constants; the theorems hold for every such bound.

## 7. Not modelled

- Cancellation escrow: no code writes the record.
- Nonces: a counter per domain that refuses a call that does not name its value.
- Reentrancy guard: a lock that every guarded call releases; calls are atomic here, and the
  token contract is taken not to call back.
- Oracle prices and proration: the resolved amount of a charge is an input of `Vault`.
- Whitelist and merchant tags, vacation, fee overrides and redirect of a merchant: they only
  refuse, or are constants of the model.
- Metadata and credential badges: nothing else reads them.
- Queries, including the paging of statements and periods; input checks are in the guards of
  the handlers, events and messages are left out.
- Merchant balances in a restored page: they overwrite the books of `Settlement`.

Observed while reading and not checked by a run: an emergency-withdraw intent survives
resume and re-pause; interval charges ignore a merchant's fee override; proration never
takes effect; usage charges are refused for the rest of a period once its interval charge
has closed the snapshot; rotation leaves sub-accounts and split lists under the old
address, so a labelled subscription can be charged only by batch items that fail (section 4) until
its label is registered again.

## 8. Plan

1. Done: `StateMachine`, `Lifecycle`, `Vault`, `Receipts`, `Metering`, `Plans`, `Ownership`,
   `Settlement`, `Governance`, `Storage`, and the abstract specifications `Mandate` and
   `Arbitration`, with the runs and theorems above.
2. `Vault` and `Settlement` composed at `credit_charge_payees`: what one debits the other
   distributes.
3. Proration and oracle prices as operators checked against reference definitions.
4. Theorems about the composition of 2, when it is there.
