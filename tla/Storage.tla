------------------------------ MODULE Storage ------------------------------
(***************************************************************************)
(* Where the contract keeps its configuration, and how it moves: instance  *)
(* storage up to schema version 2, persistent storage from version 3 on,   *)
(* migrations between the versions, export of subscriptions in pages and   *)
(* the restoration of exported pages.                                      *)
(*                                                                         *)
(* A restored page also overwrites merchant balances, the books of module  *)
(* Settlement; the admin's signature and the cooldown between two changes  *)
(* of one setting only refuse. A dry run of a migration writes nothing.    *)
(***************************************************************************)
EXTENDS Integers, FiniteSets

CONSTANTS
    Required,        \* set by init: Token, Admin, MinTopup, GracePeriod
    Optional,        \* DisputeWindowSecs, Treasury, FeeBps, Operator
    Extras,          \* configuration no migration moves: FeeToken, Oracle,
                     \* SubscriberCreateCap
    Values,          \* what settings are set to
    Deployed,        \* schema versions of deployments that get this binary
    MaxId,           \* MAX_SUBSCRIPTION_ID
    PageSizes        \* page sizes of an export; zero exports nothing

STORAGE_VERSION == 5

\* An absent entry; the schema version of a deployment before init.
None == -1

Ids == 0..MaxId
Settings == Required \cup Optional

ASSUME StorageAssumption ==
    /\ Values \subseteq Nat /\ 0 \in Values
    /\ Deployed \subseteq {None} \cup 0..STORAGE_VERSION
    /\ MaxId \in Nat /\ PageSizes \subseteq Nat \ {0}
    /\ Required # {} /\ Required \cap Optional = {} /\ Settings \cap Extras = {}
    /\ (Settings \cup Extras) \cap {"NextId", "EmergencyStop", "SchemaVersion"} = {}

VARIABLES
    instance,    \* configuration entries in instance storage
    persistent,  \* configuration entries in persistent storage
    subs,        \* ids with a DataKey::Sub record
    zeroAmount,  \* those of them with amount 0, all of it charged by usage
    export,      \* an export in progress: its cursor and what it has delivered
    summary,     \* SchemaMigrationSummary of the last migration
    written,     \* history: the value last given to each setting
    late         \* history: a page was restored at schema version 3 or later

records == <<subs, zeroAmount>>
vars == <<instance, persistent, records, export, summary, written, late>>

\* What a migration moves, besides the schema version itself.
Moved == Settings \cup {"NextId", "EmergencyStop"}
Keys == Moved \cup Extras \cup {"SchemaVersion"}
Empty == [k \in Keys |-> None]

Idle == [from |-> "none", next |-> None, began |-> {}, got |-> {}, legacy |-> TRUE]

-----------------------------------------------------------------------------
(* Reading and writing configuration.                                      *)

get_schema_version ==
    IF persistent["SchemaVersion"] # None THEN persistent["SchemaVersion"]
    ELSE IF instance["SchemaVersion"] # None THEN instance["SchemaVersion"] ELSE 0

Persisting == get_schema_version >= 3

read_config(k) ==
    IF persistent[k] # None THEN persistent[k]
    ELSE IF Persisting THEN None ELSE instance[k]

write_config(k, v) ==
    IF Persisting
      THEN /\ persistent' = [persistent EXCEPT ![k] = v]
           /\ instance' = [instance EXCEPT ![k] = None]
      ELSE /\ instance' = [instance EXCEPT ![k] = v]
           /\ UNCHANGED persistent

has_config(k) == read_config(k) # None

OrZero(v) == IF v = None THEN 0 ELSE v
NextId == OrZero(read_config("NextId"))
get_emergency_stop == OrZero(read_config("EmergencyStop")) = 1

\* require_admin: the admin is among the settings init stores.
Initialized == \A k \in Required : has_config(k)

\* The version is stored first, so that every setting goes to persistent storage.
DoInit ==
    /\ \A k \in Required : ~has_config(k)
    /\ persistent' = [k \in Keys |-> IF k = "SchemaVersion" THEN STORAGE_VERSION
                                     ELSE IF k \in Required THEN 0 ELSE persistent[k]]
    /\ instance' = [k \in Keys |-> IF k \in Required THEN None ELSE instance[k]]
    /\ written' = [k \in Moved \cup Extras |-> IF k \in Required THEN 0 ELSE written[k]]
    /\ UNCHANGED <<records, export, summary, late>>

\* By the admin or by an executed proposal.
SetConfig(k, v) ==
    /\ Initialized
    /\ write_config(k, v)
    /\ written' = [written EXCEPT ![k] = v]
    /\ UNCHANGED <<records, export, summary, late>>

\* set_fee_token with no token, remove_operator: both tiers forget the entry.
RemoveConfig(k) ==
    /\ Initialized
    /\ persistent' = [persistent EXCEPT ![k] = None]
    /\ instance' = [instance EXCEPT ![k] = None]
    /\ written' = [written EXCEPT ![k] = None]
    /\ UNCHANGED <<records, export, summary, late>>

\* From a plan, or directly and then of amount 0 if it is billed by usage alone. The
\* id is taken from NextId, whatever is stored there.
CreateSubscription(zero) ==
    /\ Initialized
    /\ ~get_emergency_stop
    /\ NextId < MaxId
    /\ write_config("NextId", NextId + 1)
    /\ subs' = subs \cup {NextId}
    /\ zeroAmount' = IF zero THEN zeroAmount \cup {NextId} ELSE zeroAmount \ {NextId}
    /\ UNCHANGED <<export, summary, written, late>>

-----------------------------------------------------------------------------
(* Migration.                                                              *)

\* Mutant: the schema version itself is not counted.
count_legacy_settings == Cardinality({k \in Moved : instance[k] # None})

count_legacy_config_keys ==
    Cardinality({k \in Moved \cup {"SchemaVersion"} : instance[k] # None})

count_rewriteable_subscriptions == Cardinality({i \in subs : i < NextId})

\* What a dry run announces: entries to move and records to rewrite, once for
\* version 4 (ledger expiration) and once for version 5 (sub-account label).
plan_schema_migration ==
    LET v == get_schema_version IN
    [keys |-> IF v <= 2 THEN count_legacy_config_keys ELSE 0,
     expiry |-> IF v <= 3 THEN count_rewriteable_subscriptions ELSE 0,
     label |-> IF v <= 4 THEN count_rewriteable_subscriptions ELSE 0]

\* Mutant: the emergency stop is not among the keys that are moved.
MovedEntriesRunning(inst, pers) ==
    [k \in Keys |-> IF k = "SchemaVersion" THEN 3
                    ELSE IF k \in Moved \ {"EmergencyStop"} /\ inst[k] # None THEN inst[k]
                    ELSE pers[k]]

\* Mutant: NextId is not among the keys that are moved.
MovedEntriesForgotten(inst, pers) ==
    [k \in Keys |-> IF k = "SchemaVersion" THEN 3
                    ELSE IF k \in Moved \ {"NextId"} /\ inst[k] # None THEN inst[k]
                    ELSE pers[k]]

\* do_migrate_config_to_persistent_internal: an entry of the instance tier
\* replaces the persistent one.
MovedEntries(inst, pers) ==
    [k \in Keys |-> IF k = "SchemaVersion" THEN 3
                    ELSE IF k \in Moved /\ inst[k] # None THEN inst[k] ELSE pers[k]]

\* Mutant: the emergency stop is copied and left behind.
RemainingEntriesKept(inst) ==
    [k \in Keys |-> IF k \in Extras \cup {"EmergencyStop"} THEN inst[k] ELSE None]

RemainingEntries(inst) == [k \in Keys |-> IF k \in Extras THEN inst[k] ELSE None]

\* Of the records, three are sampled and must have an amount above 0.
SamplesPass(next) ==
    next > 0 => \A i \in {0, next \div 2, next - 1} \cap subs : i \notin zeroAmount

\* Nothing that has moved may be left behind and no sampled record may fail, else
\* the migration is rolled back. The bound on ids is read after the move.
verify_migration(inst, pers) ==
    /\ \A k \in Moved : inst[k] = None
    /\ SamplesPass(OrZero(pers["NextId"]))

\* The tiers after the rung of the ladder that moves configuration.
LadderInstance == IF get_schema_version <= 2 THEN RemainingEntries(instance) ELSE instance
LadderPersistent ==
    IF get_schema_version <= 2 THEN MovedEntries(instance, persistent) ELSE persistent

\* When migrate succeeds: from an older version, if verification does.
Migratable ==
    /\ Initialized
    /\ get_schema_version < STORAGE_VERSION
    /\ verify_migration(LadderInstance, LadderPersistent)

\* The ladder: configuration up to version 2, then the two rewrites, then the
\* version; refused when the stored version is newer.
Migrate ==
    LET v == get_schema_version
        rewritten == Cardinality({i \in subs : i < OrZero(LadderPersistent["NextId"])})
    IN
    /\ Migratable
    /\ instance' = [LadderInstance EXCEPT !["SchemaVersion"] = None]
    /\ persistent' = [LadderPersistent EXCEPT !["SchemaVersion"] = STORAGE_VERSION]
    /\ summary' = [keys |-> IF v <= 2 THEN count_legacy_config_keys ELSE 0,
                   expiry |-> IF v <= 3 THEN rewritten ELSE 0, label |-> rewritten]
    /\ UNCHANGED <<records, export, written, late>>

\* The older entrypoint stops at version 3, and may be repeated there.
MigrateConfigToPersistent ==
    /\ Initialized
    /\ get_schema_version <= 3
    /\ verify_migration(RemainingEntries(instance), MovedEntries(instance, persistent))
    /\ instance' = RemainingEntries(instance)
    /\ persistent' = MovedEntries(instance, persistent)
    /\ UNCHANGED <<records, export, summary, written, late>>

-----------------------------------------------------------------------------
(* Export and restore.                                                     *)

\* Mutant: the end of a page is delivered by no page.
PageOfOpen(start, size, bound) == {i \in subs : start <= i /\ i + 1 < start + size /\ i < bound}

PageOf(start, size, bound) == {i \in subs : start <= i /\ i < start + size /\ i < bound}

\* One page of export_full_snapshot_page ("full", bounded by the instance
\* entry) or export_subscription_summaries ("summaries", bounded by
\* read_config). The caller starts at zero, follows the cursor and, of
\* summaries, stops when the start is past the bound.
ExportPage(from, size) ==
    LET starting == export.next = None
        start == IF starting THEN 0 ELSE export.next
        bound == IF from = "full" THEN OrZero(instance["NextId"]) ELSE NextId
        seen == IF starting THEN [Idle EXCEPT !.from = from, !.began = subs] ELSE export
    IN
    /\ starting \/ export.from = from
    /\ export' = [seen EXCEPT !.next = IF start + size < bound THEN start + size ELSE None,
                              !.got = @ \cup PageOf(start, size, bound),
                              !.legacy = @ /\ ~Persisting]
    /\ UNCHANGED <<instance, persistent, records, summary, written, late>>

\* Under the emergency stop, a page from a backup or from another deployment
\* replaces the records it names, those of amount 0 included. NextId is read from
\* and raised in the instance tier, at every version.
RestoreSnapshotPage(page, zero) ==
    LET next == 1 + (CHOOSE i \in page : \A j \in page : j <= i) IN
    /\ get_emergency_stop
    /\ subs' = subs \cup page
    /\ zeroAmount' = (zeroAmount \ page) \cup zero
    /\ instance' = [instance EXCEPT !["NextId"] = IF next > OrZero(@) THEN next ELSE @]
    /\ late' = (late \/ Persisting)
    /\ UNCHANGED <<persistent, export, summary, written>>

-----------------------------------------------------------------------------
\* A contract before init, or one of an earlier schema version, without
\* subscriptions: the ones it has are created as this binary creates them.
Init ==
    /\ \E v \in Deployed :
          LET config == [k \in Keys |-> IF k = "SchemaVersion" THEN (IF v = 0 THEN None ELSE v)
                                        ELSE IF k \in Required THEN 0 ELSE None]
          IN  /\ instance = IF v \in 0..2 THEN config ELSE Empty
              /\ persistent = IF v >= 3 THEN config ELSE Empty
              /\ written = [k \in Moved \cup Extras |->
                              IF k \in Required /\ v # None THEN 0 ELSE None]
    /\ subs = {} /\ zeroAmount = {} /\ export = Idle /\ late = FALSE
    /\ summary = [keys |-> 0, expiry |-> 0, label |-> 0]

Next ==
    \/ DoInit \/ \E zero \in BOOLEAN : CreateSubscription(zero)
    \/ \E k \in Settings \cup Extras, v \in Values : SetConfig(k, v)
    \/ \E v \in {0, 1} : SetConfig("EmergencyStop", v)
    \/ \E k \in Optional \cup Extras : RemoveConfig(k)
    \/ Migrate \/ MigrateConfigToPersistent
    \/ \E from \in {"full", "summaries"}, size \in PageSizes : ExportPage(from, size)
    \/ \E page \in (SUBSET (Ids \ {MaxId})) \ {{}} :
          \E zero \in SUBSET page : RestoreSnapshotPage(page, zero)

Spec == Init /\ [][Next]_vars

-----------------------------------------------------------------------------
(* Properties.                                                             *)

\* However settings are changed, before, between and after migrations from any
\* version, a reader gets the value that was written last.
LastWriteRead ==
    \A k \in Settings \cup {"EmergencyStop"} : read_config(k) = written[k]

\* Subscription ids are never issued twice (subscription_ids.md): NextId is
\* beyond every stored record, across migrations and restorations, unless a
\* page was restored at version 3 or later, where the restored bound is not
\* the one that is read.
IdsFresh == late \/ \A i \in subs : i < NextId

\* The same of every restoration, as lib.rs says: restore_snapshot_page "updates
\* `NextId` to at least the highest restored id+1".
RestoreAdvancesNextId == \A i \in subs : i < NextId

\* What a dry run of migrate announces is what the migration then does, although
\* the rewrites run after the configuration has moved.
PreviewExact ==
    [][Initialized /\ get_schema_version < get_schema_version'
                                           /\ get_schema_version' = STORAGE_VERSION =>
           /\ summary' = plan_schema_migration
           /\ summary'.keys = Cardinality({k \in Keys : instance[k] # None /\ instance'[k] = None})]_vars

\* A finished export has delivered every record that existed when it began,
\* although subscriptions are created and configuration migrates between two
\* pages; a full export, as long as no page was read at version 3 or later.
ExportComplete ==
    export.next = None /\ ~late /\ (export.from = "full" => export.legacy) =>
        export.began \subseteq export.got

\* An older deployment can be brought to the current version exactly when none of
\* the records sampled below the bound it reads today has amount 0, unless a page
\* was restored at version 3 or later, which leaves an entry behind that
\* verify_migration refuses.
UpgradeOpen ==
    get_schema_version < STORAGE_VERSION /\ Initialized /\ ~late =>
        (Migratable <=> SamplesPass(NextId))
=============================================================================
