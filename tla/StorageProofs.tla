---------------------------- MODULE StorageProofs ----------------------------
(***************************************************************************)
(* Proofs about Storage: for every set of settings, every deployed version *)
(* and every number of ids, a reader gets the value written last and ids   *)
(* are never issued twice.                                                 *)
(***************************************************************************)
EXTENDS Storage, FiniteSetTheorems, WellFoundedInduction, TLAPS

\* A non-empty page has a highest id.
LEMMA HighestId ==
    ASSUME NEW page \in SUBSET Ids, page # {}
    PROVE  \E i \in page : \A j \in page : j <= i
  <1> USE StorageAssumption
  <1> DEFINE T == {n \in Nat : MaxId - n \in page}
  <1>1. T # {}
    <2>1. PICK i \in page : TRUE
      OBVIOUS
    <2>2. MaxId - i \in Nat /\ MaxId - (MaxId - i) = i
      BY DEF Ids
    <2> QED
      BY <2>1, <2>2
  <1> DEFINE Less == {ss \in Nat \X Nat : ss[1] < ss[2]}
  <1>2. PICK n \in T : \A m \in T : ~(<<m, n>> \in Less)
    <2>1. IsWellFoundedOn(Less, Nat)
      BY NatLessThanWellFounded, Zenon DEF OpToRel
    <2> HIDE DEF Less
    <2> QED
      BY <1>1, <2>1, WFMin
  <1>3. \A m \in T : n <= m
    <2> TAKE m \in T
    <2>1. ~(m < n)
      <3> SUFFICES ASSUME m < n PROVE <<m, n>> \in Less
        BY <1>2
      <3> QED
        OBVIOUS
    <2> QED
      BY <2>1
  <1>4. \A j \in page : j <= MaxId - n
    <2> TAKE j \in page
    <2>1. MaxId - j \in Nat /\ MaxId - (MaxId - j) = j
      BY DEF Ids
    <2>2. n <= MaxId - j
      BY <2>1, <1>3
    <2> QED
      BY <2>2 DEF Ids
  <1> QED
    BY <1>4

-----------------------------------------------------------------------------
(* The invariant.                                                          *)

Value == Nat \cup {None}

Types ==
    /\ instance \in [Keys -> Value] /\ persistent \in [Keys -> Value]
    /\ written \in [Moved \cup Extras -> Value]
    /\ subs \subseteq Nat /\ late \in BOOLEAN
    /\ persistent["SchemaVersion"] \in {None} \cup 3..STORAGE_VERSION
    /\ instance["SchemaVersion"] \in {None} \cup 0..2

\* What moves is in one tier: nothing is persistent before version 3, and only a
\* restored bound on ids is in the instance tier from then on.
OneTier ==
    /\ ~Persisting => \A k \in Moved : persistent[k] = None
    /\ Persisting => \A k \in Moved \cup {"SchemaVersion"} :
          k # "NextId" \/ ~late => instance[k] = None

\* Before init there is nothing; after it, every required setting has a value.
InitializedOrBlank ==
    \/ Initialized
    \/ /\ instance = Empty /\ persistent = Empty /\ subs = {}
       /\ written = [k \in Moved \cup Extras |-> None]

StorageInv == Types /\ OneTier /\ InitializedOrBlank /\ LastWriteRead /\ IdsFresh

\* The stored versions tell the tier.
LEMMA TierByVersion ==
    ASSUME Types
    PROVE  /\ Persisting <=> persistent["SchemaVersion"] # None
           /\ get_schema_version \in 0..STORAGE_VERSION
           /\ persistent["SchemaVersion"] # None =>
                 get_schema_version = persistent["SchemaVersion"]
  <1> DEFINE p == persistent["SchemaVersion"]
             i == instance["SchemaVersion"]
  <1>1. p \in {None} \cup 3..5 /\ i \in {None} \cup 0..2
    BY DEF Types, STORAGE_VERSION
  <1>2. get_schema_version = IF p # None THEN p ELSE IF i # None THEN i ELSE 0
    BY DEF get_schema_version
  <1> HIDE DEF p, i
  <1>3. /\ p # None => get_schema_version = p
        /\ p = None => get_schema_version \in 0..2
    BY <1>1, <1>2 DEF None
  <1>4. Persisting <=> p # None
    BY <1>1, <1>3 DEF Persisting, None
  <1>5. get_schema_version \in 0..STORAGE_VERSION
    BY <1>1, <1>3 DEF STORAGE_VERSION
  <1> QED
    BY <1>3, <1>4, <1>5 DEF p

\* Which keys there are, and that their families do not overlap.
LEMMA Families ==
    /\ Moved \subseteq Keys /\ Extras \subseteq Keys /\ Settings \subseteq Moved
    /\ Required \subseteq Settings /\ Optional \subseteq Settings
    /\ "NextId" \in Moved /\ "EmergencyStop" \in Moved /\ "SchemaVersion" \in Keys
    /\ "SchemaVersion" \notin Moved \cup Extras /\ "NextId" \notin Settings \cup Extras
    /\ "EmergencyStop" \notin Settings \cup Extras
    /\ Moved \cap Extras = {}
  BY StorageAssumption DEF Moved, Keys, Settings

\* A new contract and a deployment of any earlier version keep a moved entry in one tier.
LEMMA InitInv == Init => StorageInv
  <1> SUFFICES ASSUME Init PROVE StorageInv
    OBVIOUS
  <1>1. PICK v \in Deployed :
          LET config == [k \in Keys |-> IF k = "SchemaVersion" THEN (IF v = 0 THEN None ELSE v)
                                        ELSE IF k \in Required THEN 0 ELSE None]
          IN  /\ instance = IF v \in 0..2 THEN config ELSE Empty
              /\ persistent = IF v >= 3 THEN config ELSE Empty
              /\ written = [k \in Moved \cup Extras |->
                              IF k \in Required /\ v # None THEN 0 ELSE None]
    BY DEF Init
  <1>2. v \in {None} \cup 0..5 /\ subs = {} /\ late = FALSE
    BY StorageAssumption DEF Init, STORAGE_VERSION
  <1> DEFINE config == [k \in Keys |-> IF k = "SchemaVersion" THEN (IF v = 0 THEN None ELSE v)
                                       ELSE IF k \in Required THEN 0 ELSE None]
  <1>3. config \in [Keys -> Value] /\ Empty \in [Keys -> Value]
    BY <1>2 DEF Value, Empty, None
  <1>4. /\ v \in 0..2 => instance = config /\ persistent = Empty
        /\ v \in 3..5 => instance = Empty /\ persistent = config
        /\ v = None => instance = Empty /\ persistent = Empty
    BY <1>1, <1>2 DEF None
  <1>5. written = [k \in Moved \cup Extras |-> IF k \in Required /\ v # None THEN 0 ELSE None]
    BY <1>1
  <1>6. /\ config["SchemaVersion"] = IF v = 0 THEN None ELSE v
        /\ Empty["SchemaVersion"] = None
        /\ \A k \in Moved : Empty[k] = None /\ config[k] = IF k \in Required THEN 0 ELSE None
    BY Families DEF Empty
  <1> HIDE DEF config
  <1>7. v \in 0..2 \/ v \in 3..5 \/ v = None
    BY <1>2
  <1>8. Types
    <2>1. instance \in [Keys -> Value] /\ persistent \in [Keys -> Value]
      BY <1>3, <1>4, <1>7
    <2>2. written \in [Moved \cup Extras -> Value]
      BY <1>5 DEF Value
    <2>3. /\ persistent["SchemaVersion"] \in {None} \cup 3..5
          /\ instance["SchemaVersion"] \in {None} \cup 0..2
      BY <1>4, <1>6, <1>7
    <2> QED
      BY <1>2, <2>1, <2>2, <2>3 DEF Types, STORAGE_VERSION
  <1>9. Persisting <=> v \in 3..5
    BY <1>8, <1>4, <1>6, <1>7, TierByVersion DEF None
  <1>10. OneTier
    BY <1>4, <1>6, <1>7, <1>9 DEF OneTier
  <1>11. \A k \in Moved : read_config(k) = IF k \in Required /\ v # None THEN 0 ELSE None
    BY <1>4, <1>6, <1>7, <1>9 DEF read_config, None
  <1>12. LastWriteRead
    BY <1>11, <1>5, Families DEF LastWriteRead
  <1>13. InitializedOrBlank
    <2>1. CASE v = None
      BY <2>1, <1>2, <1>4, <1>5 DEF InitializedOrBlank
    <2>2. CASE v # None
      BY <2>2, <1>11, Families DEF InitializedOrBlank, Initialized, has_config, None
    <2> QED
      BY <2>1, <2>2
  <1> QED
    BY <1>2, <1>8, <1>10, <1>12, <1>13 DEF StorageInv, IdsFresh

-----------------------------------------------------------------------------
(* Reads, writes and removals.                                             *)

\* What a reader sees of a moved entry, by tier.
LEMMA ReadMoved ==
    ASSUME Types, OneTier, NEW k \in Moved
    PROVE  read_config(k) = IF Persisting THEN persistent[k] ELSE instance[k]
  BY DEF OneTier, read_config, None

\* A write is seen by the readers of its entry and by no other, and leaves the
\* entries in their tier.
LEMMA WriteConfig ==
    ASSUME Types, OneTier, NEW k \in Moved \cup Extras, NEW v \in Nat, write_config(k, v),
           UNCHANGED late
    PROVE  /\ instance' \in [Keys -> Value] /\ persistent' \in [Keys -> Value]
           /\ persistent'["SchemaVersion"] = persistent["SchemaVersion"]
           /\ instance'["SchemaVersion"] = instance["SchemaVersion"]
           /\ OneTier'
           /\ \A j \in Moved : read_config(j)' = IF j = k THEN v ELSE read_config(j)
  <1>1. k \in Keys /\ k # "SchemaVersion" /\ v \in Value /\ None \in Value /\ v # None
    BY Families DEF Value, None
  <1>2. instance \in [Keys -> Value] /\ persistent \in [Keys -> Value]
    BY DEF Types
  <1>3. CASE Persisting
    <2>1. /\ persistent' = [persistent EXCEPT ![k] = v]
          /\ instance' = [instance EXCEPT ![k] = None]
      BY <1>3 DEF write_config
    <2>2. /\ instance' \in [Keys -> Value] /\ persistent' \in [Keys -> Value]
          /\ persistent'["SchemaVersion"] = persistent["SchemaVersion"]
          /\ instance'["SchemaVersion"] = instance["SchemaVersion"]
      BY <1>1, <1>2, <2>1, Families
    <2>3. Persisting'
      BY <1>3, <2>2 DEF Persisting, get_schema_version
    <2>4. \A j \in Keys : /\ persistent'[j] = IF j = k THEN v ELSE persistent[j]
                          /\ instance'[j] = IF j = k THEN None ELSE instance[j]
      BY <1>1, <1>2, <2>1
    <2>5. OneTier'
      BY <1>3, <2>3, <2>4, Families DEF OneTier
    <2>6. \A j \in Moved : read_config(j)' = IF j = k THEN v ELSE read_config(j)
      BY <1>1, <1>3, <2>3, <2>4, Families DEF read_config
    <2> QED
      BY <2>2, <2>5, <2>6
  <1>4. CASE ~Persisting
    <2>1. instance' = [instance EXCEPT ![k] = v] /\ persistent' = persistent
      BY <1>4 DEF write_config
    <2>2. /\ instance' \in [Keys -> Value] /\ persistent' \in [Keys -> Value]
          /\ persistent'["SchemaVersion"] = persistent["SchemaVersion"]
          /\ instance'["SchemaVersion"] = instance["SchemaVersion"]
      BY <1>1, <1>2, <2>1, Families
    <2>3. ~Persisting'
      BY <1>4, <2>2 DEF Persisting, get_schema_version
    <2>4. \A j \in Keys : instance'[j] = IF j = k THEN v ELSE instance[j]
      BY <1>1, <1>2, <2>1
    <2>5. OneTier'
      BY <1>4, <2>1, <2>3 DEF OneTier
    <2>6. \A j \in Moved : read_config(j)' = IF j = k THEN v ELSE read_config(j)
      BY <1>4, <2>1, <2>3, <2>4, Families DEF read_config, OneTier
    <2> QED
      BY <2>2, <2>5, <2>6
  <1> QED
    BY <1>3, <1>4

\* The part of the types no step but init and migration is about.
LEMMA NextIdValue ==
    ASSUME Types, OneTier
    PROVE  NextId \in Nat
  <1>1. read_config("NextId") \in Value
    BY ReadMoved, Families DEF Types
  <1> QED
    BY <1>1 DEF NextId, OrZero, Value

\* The setters.
LEMMA SetConfigInv ==
    ASSUME StorageInv, NEW k \in Settings \cup Extras \cup {"EmergencyStop"}, NEW v \in Nat,
           SetConfig(k, v)
    PROVE  StorageInv'
  <1>1. Types /\ OneTier /\ InitializedOrBlank /\ LastWriteRead /\ IdsFresh
    BY DEF StorageInv
  <1>2. /\ write_config(k, v) /\ written' = [written EXCEPT ![k] = v] /\ Initialized
        /\ subs' = subs /\ late' = late
    BY DEF SetConfig, records
  <1>3. k \in Moved \cup Extras /\ k # "NextId" /\ v \in Value /\ v # None
    BY Families DEF Moved, Value, None
  <1>4. /\ instance' \in [Keys -> Value] /\ persistent' \in [Keys -> Value]
        /\ persistent'["SchemaVersion"] = persistent["SchemaVersion"]
        /\ instance'["SchemaVersion"] = instance["SchemaVersion"]
        /\ OneTier'
        /\ \A j \in Moved : read_config(j)' = IF j = k THEN v ELSE read_config(j)
    BY <1>1, <1>2, <1>3, WriteConfig
  <1>5. /\ written' \in [Moved \cup Extras -> Value]
        /\ \A j \in Moved \cup Extras : written'[j] = IF j = k THEN v ELSE written[j]
    BY <1>1, <1>2, <1>3 DEF Types
  <1>6. Types'
    BY <1>1, <1>2, <1>4, <1>5 DEF Types
  <1>7. InitializedOrBlank'
    BY <1>2, <1>3, <1>4, Families DEF InitializedOrBlank, Initialized, has_config
  <1>8. LastWriteRead'
    BY <1>1, <1>4, <1>5, Families DEF LastWriteRead
  <1>9. NextId' = NextId
    BY <1>3, <1>4, Families DEF NextId
  <1>10. IdsFresh'
    BY <1>1, <1>2, <1>9 DEF IdsFresh
  <1> QED
    BY <1>4, <1>6, <1>7, <1>8, <1>10 DEF StorageInv

\* create_subscription takes the next id.
LEMMA CreateInv ==
    ASSUME StorageInv, NEW zero \in BOOLEAN, CreateSubscription(zero)
    PROVE  StorageInv'
  <1>1. Types /\ OneTier /\ InitializedOrBlank /\ LastWriteRead /\ IdsFresh
    BY DEF StorageInv
  <1>2. /\ write_config("NextId", NextId + 1) /\ subs' = subs \cup {NextId}
        /\ written' = written /\ late' = late /\ Initialized
    BY DEF CreateSubscription
  <1>3. NextId \in Nat /\ NextId + 1 \in Nat
    BY <1>1, NextIdValue
  <1>4. /\ instance' \in [Keys -> Value] /\ persistent' \in [Keys -> Value]
        /\ persistent'["SchemaVersion"] = persistent["SchemaVersion"]
        /\ instance'["SchemaVersion"] = instance["SchemaVersion"]
        /\ OneTier'
        /\ \A j \in Moved : read_config(j)' = IF j = "NextId" THEN NextId + 1
                                              ELSE read_config(j)
    BY <1>1, <1>2, <1>3, WriteConfig, Families
  <1>5. Types'
    BY <1>1, <1>2, <1>3, <1>4 DEF Types
  <1>6. InitializedOrBlank'
    BY <1>2, <1>4, Families DEF InitializedOrBlank, Initialized, has_config
  <1>7. LastWriteRead'
    BY <1>1, <1>2, <1>4, Families DEF LastWriteRead
  <1>8. read_config("NextId")' = NextId + 1
    BY <1>4, Families
  <1>9. NextId' = NextId + 1
    BY <1>3, <1>8 DEF NextId, OrZero, None
  <1>10. IdsFresh'
    <2> SUFFICES ASSUME ~late, NEW i \in subs' PROVE i < NextId'
      BY <1>2 DEF IdsFresh
    <2> QED
      BY <1>1, <1>2, <1>3, <1>9 DEF IdsFresh, Types
  <1> QED
    BY <1>4, <1>5, <1>6, <1>7, <1>10 DEF StorageInv

\* The calls that remove a setting.
LEMMA RemoveConfigInv ==
    ASSUME StorageInv, NEW k \in Optional \cup Extras, RemoveConfig(k)
    PROVE  StorageInv'
  <1>1. Types /\ OneTier /\ InitializedOrBlank /\ LastWriteRead /\ IdsFresh
    BY DEF StorageInv
  <1>2. /\ persistent' = [persistent EXCEPT ![k] = None]
        /\ instance' = [instance EXCEPT ![k] = None]
        /\ written' = [written EXCEPT ![k] = None]
        /\ subs' = subs /\ late' = late /\ Initialized
    BY DEF RemoveConfig, records
  <1>3. /\ k \in Keys /\ k \in Moved \cup Extras /\ k \notin Required /\ None \in Value
        /\ k \notin {"NextId", "EmergencyStop", "SchemaVersion"}
    BY StorageAssumption, Families DEF Settings, Value
  <1>4. \A j \in Keys : /\ persistent'[j] = IF j = k THEN None ELSE persistent[j]
                        /\ instance'[j] = IF j = k THEN None ELSE instance[j]
    BY <1>1, <1>2 DEF Types
  <1>5. \A j \in Moved \cup Extras : written'[j] = IF j = k THEN None ELSE written[j]
    BY <1>1, <1>2 DEF Types
  <1>6. /\ persistent'["SchemaVersion"] = persistent["SchemaVersion"]
        /\ instance'["SchemaVersion"] = instance["SchemaVersion"]
    BY <1>3, <1>4, Families
  <1>7. Types'
    <2>1. instance' \in [Keys -> Value] /\ persistent' \in [Keys -> Value]
          /\ written' \in [Moved \cup Extras -> Value]
      BY <1>1, <1>2, <1>3 DEF Types
    <2> QED
      BY <1>1, <1>2, <1>6, <2>1 DEF Types
  <1>8. Persisting' <=> Persisting
    BY <1>6 DEF Persisting, get_schema_version
  <1>9. OneTier'
    BY <1>1, <1>2, <1>4, <1>8, Families DEF OneTier
  <1>10. \A j \in Moved : read_config(j)' = IF j = k THEN None ELSE read_config(j)
    BY <1>4, <1>8, Families DEF read_config
  <1>11. InitializedOrBlank'
    BY <1>2, <1>3, <1>10, Families DEF InitializedOrBlank, Initialized, has_config
  <1>12. LastWriteRead'
    BY <1>1, <1>5, <1>10, Families DEF LastWriteRead
  <1>13. NextId' = NextId
    BY <1>3, <1>10, Families DEF NextId
  <1> QED
    BY <1>1, <1>2, <1>7, <1>9, <1>11, <1>12, <1>13 DEF StorageInv, IdsFresh

-----------------------------------------------------------------------------
(* Init and migrations.                                                    *)

\* init writes the required settings to the persistent tier.
LEMMA DoInitInv ==
    ASSUME StorageInv, DoInit
    PROVE  StorageInv'
  <1>1. /\ persistent' = [k \in Keys |-> IF k = "SchemaVersion" THEN STORAGE_VERSION
                                         ELSE IF k \in Required THEN 0 ELSE persistent[k]]
        /\ instance' = [k \in Keys |-> IF k \in Required THEN None ELSE instance[k]]
        /\ written' = [k \in Moved \cup Extras |-> IF k \in Required THEN 0 ELSE written[k]]
        /\ subs' = subs /\ late' = late
    BY DEF DoInit, records
  <1>2. /\ instance = Empty /\ persistent = Empty /\ subs = {}
        /\ written = [k \in Moved \cup Extras |-> None]
    BY StorageAssumption DEF StorageInv, InitializedOrBlank, DoInit, Initialized
  <1>3. /\ \A k \in Keys : /\ persistent'[k] = IF k = "SchemaVersion" THEN STORAGE_VERSION
                                               ELSE IF k \in Required THEN 0 ELSE None
                           /\ instance'[k] = None
        /\ \A k \in Moved \cup Extras : written'[k] = IF k \in Required THEN 0 ELSE None
    BY <1>1, <1>2 DEF Empty
  <1>4. persistent'["SchemaVersion"] = STORAGE_VERSION /\ instance'["SchemaVersion"] = None
    BY <1>3, Families
  <1>5. Types'
    <2>1. STORAGE_VERSION \in Value /\ None \in Value /\ 0 \in Value
      BY DEF Value, STORAGE_VERSION
    <2>2. /\ instance' \in [Keys -> Value] /\ persistent' \in [Keys -> Value]
          /\ written' \in [Moved \cup Extras -> Value]
      BY <1>1, <1>3, <2>1
    <2> QED
      BY <1>1, <1>2, <1>4, <2>2 DEF StorageInv, Types, STORAGE_VERSION
  <1>6. Persisting'
    BY <1>4 DEF Persisting, get_schema_version, STORAGE_VERSION, None
  <1>7. OneTier'
    BY <1>3, <1>6, Families DEF OneTier
  <1>8. \A k \in Moved : read_config(k)' = IF k \in Required THEN 0 ELSE None
    BY <1>3, <1>6, Families DEF read_config
  <1>9. InitializedOrBlank'
    BY <1>8, Families DEF InitializedOrBlank, Initialized, has_config, None
  <1>10. LastWriteRead'
    BY <1>3, <1>8, Families DEF LastWriteRead
  <1> QED
    BY <1>1, <1>2, <1>5, <1>7, <1>9, <1>10 DEF StorageInv, IdsFresh

\* A step that leaves every moved entry in the persistent tier, as it is read
\* before the step, and nothing but restored ids and extras in the other.
LEMMA MovedInv ==
    ASSUME StorageInv, Initialized, UNCHANGED <<subs, written, late>>,
           instance' \in [Keys -> Value], persistent' \in [Keys -> Value],
           persistent'["SchemaVersion"] \in 3..STORAGE_VERSION,
           instance'["SchemaVersion"] = None,
           \A k \in Moved : instance'[k] = None,
           \A k \in Moved : k # "NextId" \/ ~late => persistent'[k] = read_config(k)
    PROVE  StorageInv'
  <1>1. Types /\ OneTier /\ LastWriteRead /\ IdsFresh
    BY DEF StorageInv
  <1>2. Types'
    BY <1>1 DEF Types
  <1>3. Persisting'
    <2>1. persistent'["SchemaVersion"] # None
      BY DEF None
    <2> QED
      BY <2>1 DEF Persisting, get_schema_version
  <1>4. OneTier'
    BY <1>3 DEF OneTier
  <1>5. \A k \in Moved : k # "NextId" \/ ~late => read_config(k)' = read_config(k)
    BY <1>3 DEF read_config
  <1>6. InitializedOrBlank'
    BY <1>5, Families DEF InitializedOrBlank, Initialized, has_config
  <1>7. LastWriteRead'
    BY <1>1, <1>5, Families DEF LastWriteRead
  <1>8. ~late => NextId' = NextId
    BY <1>5, Families DEF NextId
  <1>9. IdsFresh'
    BY <1>1, <1>8 DEF IdsFresh
  <1> QED
    BY <1>2, <1>4, <1>6, <1>7, <1>9 DEF StorageInv

\* Moving an entry keeps what is read of it.
LEMMA MoveKeepsReads ==
    ASSUME Types, OneTier, NEW k \in Moved, k # "NextId" \/ ~late
    PROVE  MovedEntries(instance, persistent)[k] = read_config(k)
  <1>1. MovedEntries(instance, persistent)[k] =
            IF instance[k] # None THEN instance[k] ELSE persistent[k]
    BY Families DEF MovedEntries
  <1> QED
    BY <1>1, ReadMoved DEF OneTier

\* The tiers after the configuration has moved.
LEMMA MovedTiers ==
    ASSUME Types
    PROVE  /\ MovedEntries(instance, persistent) \in [Keys -> Value]
           /\ RemainingEntries(instance) \in [Keys -> Value]
           /\ MovedEntries(instance, persistent)["SchemaVersion"] = 3
           /\ RemainingEntries(instance)["SchemaVersion"] = None
           /\ \A k \in Moved : RemainingEntries(instance)[k] = None
  <1>1. instance \in [Keys -> Value] /\ persistent \in [Keys -> Value]
    BY DEF Types
  <1>2. None \in Value /\ 3 \in Value
    BY DEF Value
  <1> QED
    BY <1>1, <1>2, Families DEF MovedEntries, RemainingEntries

\* migrate_config_to_persistent.
LEMMA MigrateConfigInv ==
    ASSUME StorageInv, MigrateConfigToPersistent
    PROVE  StorageInv'
  <1>1. Types /\ OneTier
    BY DEF StorageInv
  <1>2. /\ instance' = RemainingEntries(instance)
        /\ persistent' = MovedEntries(instance, persistent)
        /\ Initialized /\ UNCHANGED <<subs, written, late>>
    BY DEF MigrateConfigToPersistent, records
  <1>3. \A k \in Moved : k # "NextId" \/ ~late => persistent'[k] = read_config(k)
    BY <1>1, <1>2, MoveKeepsReads
  <1> QED
    BY <1>1, <1>2, <1>3, MovedTiers, MovedInv DEF STORAGE_VERSION

\* The same of the ladder, which moves nothing from version 3 on.
LEMMA LadderKeepsReads ==
    ASSUME Types, OneTier, NEW k \in Moved, k # "NextId" \/ ~late
    PROVE  LadderPersistent[k] = read_config(k)
  <1>1. CASE get_schema_version <= 2
    BY <1>1, MoveKeepsReads DEF LadderPersistent
  <1>2. CASE ~(get_schema_version <= 2)
    <2>1. Persisting
      BY <1>2, TierByVersion DEF Persisting, STORAGE_VERSION
    <2> QED
      BY <1>2, <2>1, ReadMoved DEF LadderPersistent
  <1> QED
    BY <1>1, <1>2

\* migrate.
LEMMA MigrateInv ==
    ASSUME StorageInv, Migrate
    PROVE  StorageInv'
  <1>1. Types /\ OneTier
    BY DEF StorageInv
  <1> DEFINE inst == LadderInstance
             pers == LadderPersistent
  <1>2. /\ instance' = [inst EXCEPT !["SchemaVersion"] = None]
        /\ persistent' = [pers EXCEPT !["SchemaVersion"] = STORAGE_VERSION]
        /\ verify_migration(inst, pers) /\ Initialized
        /\ UNCHANGED <<subs, written, late>>
    BY DEF Migrate, Migratable, records
  <1>3. inst \in [Keys -> Value] /\ pers \in [Keys -> Value]
    BY <1>1, MovedTiers DEF Types, LadderInstance, LadderPersistent
  <1>4. \A k \in Moved : inst[k] = None
    BY <1>2 DEF verify_migration
  <1>5. \A k \in Moved : k # "NextId" \/ ~late => pers[k] = read_config(k)
    BY <1>1, LadderKeepsReads
  <1> HIDE DEF inst, pers
  <1>6. "SchemaVersion" \in Keys /\ "SchemaVersion" \notin Moved /\ None \in Value
        /\ STORAGE_VERSION \in Value /\ Moved \subseteq Keys
    BY Families DEF Value, STORAGE_VERSION
  <1>7. /\ instance' \in [Keys -> Value] /\ persistent' \in [Keys -> Value]
        /\ persistent'["SchemaVersion"] = STORAGE_VERSION
        /\ instance'["SchemaVersion"] = None
    BY <1>2, <1>3, <1>6
  <1>8. \A k \in Moved : instance'[k] = None
    BY <1>2, <1>3, <1>4, <1>6
  <1>9. \A k \in Moved : k # "NextId" \/ ~late => persistent'[k] = read_config(k)
    BY <1>2, <1>3, <1>5, <1>6
  <1>10. persistent'["SchemaVersion"] \in 3..STORAGE_VERSION
    BY <1>7 DEF STORAGE_VERSION
  <1> QED
    BY <1>2, <1>7, <1>8, <1>9, <1>10, MovedInv

-----------------------------------------------------------------------------
(* Restoration.                                                            *)

\* The emergency stop it needs has been set, so the contract is initialised.
LEMMA RestoreInv ==
    ASSUME StorageInv, NEW page \in SUBSET (Ids \ {MaxId}), page # {},
           NEW zero \in SUBSET page, RestoreSnapshotPage(page, zero)
    PROVE  StorageInv'
  <1>1. Types /\ OneTier /\ InitializedOrBlank /\ LastWriteRead /\ IdsFresh
    BY DEF StorageInv
  <1> DEFINE top == CHOOSE i \in page : \A j \in page : j <= i
             bound == IF 1 + top > OrZero(instance["NextId"]) THEN 1 + top
                                                              ELSE instance["NextId"]
  <1>2. /\ get_emergency_stop /\ subs' = subs \cup page
        /\ instance' = [instance EXCEPT !["NextId"] = bound]
        /\ late' = (late \/ Persisting) /\ persistent' = persistent /\ written' = written
    BY DEF RestoreSnapshotPage
  <1>3. top \in page /\ \A j \in page : j <= top
    BY HighestId
  <1>4. page \subseteq Nat /\ top \in Nat
    <2>1. Ids \subseteq Nat
      BY StorageAssumption DEF Ids
    <2> HIDE DEF top
    <2> QED
      BY <1>3, <2>1
  <1>5. instance["NextId"] \in Value
    BY <1>1, Families DEF Types
  <1>6. bound \in Nat /\ bound > top /\ bound >= OrZero(instance["NextId"])
    <2> HIDE DEF top
    <2> QED
      BY <1>4, <1>5 DEF Value, OrZero, None
  <1> HIDE DEF top, bound
  <1>7. \A k \in Keys : instance'[k] = IF k = "NextId" THEN bound ELSE instance[k]
    BY <1>1, <1>2 DEF Types
  <1>8. /\ persistent'["SchemaVersion"] = persistent["SchemaVersion"]
        /\ instance'["SchemaVersion"] = instance["SchemaVersion"]
    BY <1>2, <1>7, Families
  <1>9. Types'
    <2>1. instance' \in [Keys -> Value]
      BY <1>1, <1>2, <1>6 DEF Types, Value
    <2>2. subs' \subseteq Nat /\ late' \in BOOLEAN
      BY <1>1, <1>2, <1>4 DEF Types
    <2> QED
      BY <1>1, <1>2, <1>8, <2>1, <2>2 DEF Types
  <1>10. Persisting' <=> Persisting
    BY <1>8 DEF Persisting, get_schema_version
  <1>11. OneTier'
    BY <1>1, <1>2, <1>7, <1>10, Families DEF OneTier
  <1>12. \A k \in Moved : k # "NextId" => read_config(k)' = read_config(k)
    BY <1>2, <1>7, <1>10, Families DEF read_config
  <1>13. Initialized
    <2>1. CASE instance = Empty /\ persistent = Empty
      <3>1. read_config("EmergencyStop") = None
        BY <2>1, Families DEF read_config, Empty
      <3> QED
        BY <1>2, <3>1 DEF get_emergency_stop, OrZero, None
    <2> QED
      BY <1>1, <2>1 DEF InitializedOrBlank
  <1>14. InitializedOrBlank'
    BY <1>12, <1>13, Families DEF InitializedOrBlank, Initialized, has_config
  <1>15. LastWriteRead'
    BY <1>1, <1>2, <1>12, Families DEF LastWriteRead
  <1>16. IdsFresh'
    <2> SUFFICES ASSUME ~late', NEW i \in subs' PROVE i < NextId'
      BY DEF IdsFresh
    <2>1. ~late /\ ~Persisting
      BY <1>2
    <2>2. read_config("NextId")' = bound /\ read_config("NextId") = instance["NextId"]
      BY <1>1, <1>2, <1>7, <1>10, <2>1, Families DEF read_config, OneTier
    <2>3. NextId' = bound /\ NextId = OrZero(instance["NextId"])
      BY <1>6, <2>2 DEF NextId, OrZero, None
    <2>4. CASE i \in subs
      <3>1. i < NextId /\ i \in Nat /\ NextId \in Nat
        BY <1>1, <2>1, <2>4, NextIdValue DEF IdsFresh, Types
      <3> QED
        BY <1>6, <2>3, <3>1
    <2>5. CASE i \in page
      BY <1>3, <1>4, <1>6, <2>3, <2>5
    <2> QED
      BY <1>2, <2>4, <2>5
  <1> QED
    BY <1>9, <1>11, <1>14, <1>15, <1>16 DEF StorageInv

-----------------------------------------------------------------------------
(* The theorems.                                                           *)

\* Every call preserves the invariant.
LEMMA StepInv == StorageInv /\ [Next]_vars => StorageInv'
  <1> SUFFICES ASSUME StorageInv, [Next]_vars PROVE StorageInv'
    OBVIOUS
  <1>1. CASE UNCHANGED <<instance, persistent, subs, written, late>>
    <2>1. /\ Types' /\ OneTier' /\ LastWriteRead' /\ IdsFresh'
      BY <1>1 DEF StorageInv, Types, OneTier, LastWriteRead, IdsFresh, NextId, Persisting,
         get_schema_version, read_config
    <2>2. InitializedOrBlank'
      BY <1>1 DEF StorageInv, InitializedOrBlank, Initialized, has_config, Persisting,
         get_schema_version, read_config
    <2> QED
      BY <2>1, <2>2 DEF StorageInv
  <1>2. CASE DoInit
    BY <1>2, DoInitInv
  <1>3. CASE \E zero \in BOOLEAN : CreateSubscription(zero)
    BY <1>3, CreateInv
  <1>4. CASE \E k \in Settings \cup Extras, v \in Values : SetConfig(k, v)
    BY <1>4, SetConfigInv, StorageAssumption
  <1>5. CASE \E v \in {0, 1} : SetConfig("EmergencyStop", v)
    BY <1>5, SetConfigInv
  <1>6. CASE \E k \in Optional \cup Extras : RemoveConfig(k)
    BY <1>6, RemoveConfigInv
  <1>7. CASE Migrate
    BY <1>7, MigrateInv
  <1>8. CASE MigrateConfigToPersistent
    BY <1>8, MigrateConfigInv
  <1>9. CASE \E from \in {"full", "summaries"}, size \in PageSizes : ExportPage(from, size)
    BY <1>9, <1>1 DEF ExportPage, records
  <1>10. CASE \E page \in (SUBSET (Ids \ {MaxId})) \ {{}} :
                 \E zero \in SUBSET page : RestoreSnapshotPage(page, zero)
    <2>1. PICK page \in (SUBSET (Ids \ {MaxId})) \ {{}} :
                  \E zero \in SUBSET page : RestoreSnapshotPage(page, zero)
      BY <1>10
    <2>2. page \in SUBSET (Ids \ {MaxId}) /\ page # {}
      OBVIOUS
    <2> QED
      BY <2>1, <2>2, RestoreInv
  <1> QED
    BY <1>1, <1>2, <1>3, <1>4, <1>5, <1>6, <1>7, <1>8, <1>9, <1>10 DEF Next, vars, records

\* A reader of a setting gets the value written last, whatever migrations ran.
THEOREM ReadsCorrect == Spec => []LastWriteRead
  <1>1. StorageInv => LastWriteRead
    BY DEF StorageInv
  <1> QED
    BY <1>1, InitInv, StepInv, PTL DEF Spec

\* No subscription id is issued twice, unless a page was restored at version 3 or
\* later.
THEOREM IdsCorrect == Spec => []IdsFresh
  <1>1. StorageInv => IdsFresh
    BY DEF StorageInv
  <1> QED
    BY <1>1, InitInv, StepInv, PTL DEF Spec

\* What a migration did, if a step is one.
Previewed ==
    Initialized /\ get_schema_version < get_schema_version'
                /\ get_schema_version' = STORAGE_VERSION =>
        /\ summary' = plan_schema_migration
        /\ summary'.keys = Cardinality({k \in Keys : instance[k] # None /\ instance'[k] = None})

\* A step that does not touch the version is no migration.
LEMMA SameVersion ==
    ASSUME Types, persistent'["SchemaVersion"] = persistent["SchemaVersion"],
           instance'["SchemaVersion"] = instance["SchemaVersion"]
    PROVE  Previewed
  <1>1. get_schema_version' = get_schema_version
    BY DEF get_schema_version
  <1>2. ~(get_schema_version < get_schema_version)
    BY TierByVersion DEF STORAGE_VERSION
  <1> QED
    BY <1>1, <1>2 DEF Previewed

\* The rewrites find the same records before and after the configuration moves.
LEMMA MigratePreviewed ==
    ASSUME StorageInv, Migrate
    PROVE  Previewed
  <1>1. Types /\ OneTier
    BY DEF StorageInv
  <1> DEFINE v == get_schema_version
             inst == LadderInstance
             pers == LadderPersistent
             rewritten == Cardinality({i \in subs : i < OrZero(pers["NextId"])})
  <1>2. /\ instance' = [inst EXCEPT !["SchemaVersion"] = None]
        /\ verify_migration(inst, pers) /\ v < STORAGE_VERSION
        /\ summary' = [keys |-> IF v <= 2 THEN count_legacy_config_keys ELSE 0,
                       expiry |-> IF v <= 3 THEN rewritten ELSE 0, label |-> rewritten]
    BY DEF Migrate, Migratable
  <1>3. v \in 0..4 /\ (Persisting <=> v >= 3)
    BY <1>1, <1>2, TierByVersion DEF STORAGE_VERSION, Persisting
  <1>4. pers["NextId"] = read_config("NextId")
    <2>1. CASE v <= 2
      <3>1. ~Persisting /\ persistent["NextId"] = None
        BY <1>1, <1>3, <2>1, Families DEF OneTier
      <3>2. MovedEntries(instance, persistent)["NextId"] = instance["NextId"]
        BY <3>1, Families DEF MovedEntries
      <3> QED
        BY <2>1, <3>1, <3>2 DEF read_config, LadderPersistent
    <2>2. CASE ~(v <= 2)
      BY <1>1, <1>3, <2>2, ReadMoved, Families DEF LadderPersistent
    <2> QED
      BY <2>1, <2>2
  <1>5. rewritten = count_rewriteable_subscriptions
    BY <1>4 DEF count_rewriteable_subscriptions, NextId
  <1>6. summary' = plan_schema_migration
    <2> HIDE DEF rewritten
    <2> QED
      BY <1>2, <1>3, <1>5 DEF plan_schema_migration
  <1>7. summary'.keys = Cardinality({k \in Keys : instance[k] # None /\ instance'[k] = None})
    <2> DEFINE emptied == {k \in Keys : instance[k] # None /\ instance'[k] = None}
    <2>1. /\ inst \in [Keys -> Value] /\ \A k \in Moved : inst[k] = None
          /\ \A k \in Extras : inst[k] = instance[k]
      BY <1>1, <1>2, MovedTiers, Families DEF Types, verify_migration,
         RemainingEntries, LadderInstance
    <2>2. /\ \A k \in Moved \cup {"SchemaVersion"} : instance'[k] = None
          /\ \A k \in Extras : instance'[k] = instance[k]
      BY <1>2, <2>1, Families
    <2>3. emptied = {k \in Moved \cup {"SchemaVersion"} : instance[k] # None}
      BY <2>2 DEF Keys
    <2>4. CASE v <= 2
      <3>1. Cardinality(emptied) = count_legacy_config_keys
        BY <2>3 DEF count_legacy_config_keys
      <3> QED
        BY <1>2, <2>4, <3>1
    <2>5. CASE ~(v <= 2)
      <3>1. \A k \in Moved \cup {"SchemaVersion"} : instance[k] = None
        BY <1>1, <1>3, <2>1, <2>5 DEF OneTier, LadderInstance
      <3>2. emptied = {}
        BY <2>3, <3>1
      <3> QED
        BY <1>2, <2>5, <3>2, FS_EmptySet
    <2> QED
      BY <2>4, <2>5
  <1> QED
    BY <1>6, <1>7 DEF Previewed

\* Every call that migrates does what the dry run announces.
LEMMA StepPreviewed == StorageInv /\ [Next]_vars => Previewed
  <1> SUFFICES ASSUME StorageInv, [Next]_vars PROVE Previewed
    OBVIOUS
  <1>0. Types /\ OneTier
    BY DEF StorageInv
  <1>1. CASE UNCHANGED <<instance, persistent>>
    BY <1>0, <1>1, SameVersion
  <1>2. CASE DoInit
    BY <1>2, StorageAssumption DEF DoInit, Initialized, Previewed
  <1>3. CASE \E zero \in BOOLEAN : CreateSubscription(zero)
    <2>1. write_config("NextId", NextId + 1) /\ NextId + 1 \in Nat /\ late' = late
      BY <1>0, <1>3, NextIdValue DEF CreateSubscription
    <2> QED
      BY <1>0, <2>1, WriteConfig, SameVersion, Families
  <1>4. CASE \E k \in Settings \cup Extras \cup {"EmergencyStop"}, v \in Nat : SetConfig(k, v)
    <2>1. PICK k \in Moved \cup Extras, v \in Nat : write_config(k, v) /\ late' = late
      BY <1>4, Families DEF SetConfig
    <2> QED
      BY <1>0, <2>1, WriteConfig, SameVersion
  <1>5. CASE \E k \in Optional \cup Extras : RemoveConfig(k)
    <2>1. PICK k \in Optional \cup Extras : RemoveConfig(k)
      BY <1>5
    <2>2. k # "SchemaVersion"
      BY Families
    <2>3. /\ persistent'["SchemaVersion"] = persistent["SchemaVersion"]
          /\ instance'["SchemaVersion"] = instance["SchemaVersion"]
      BY <1>0, <2>1, <2>2 DEF RemoveConfig, Types
    <2> QED
      BY <1>0, <2>3, SameVersion
  <1>6. CASE Migrate
    BY <1>6, MigratePreviewed
  <1>7. CASE MigrateConfigToPersistent
    <2>1. persistent'["SchemaVersion"] = 3
      BY <1>0, <1>7, MovedTiers DEF MigrateConfigToPersistent
    <2>2. get_schema_version' = 3
      BY <2>1 DEF get_schema_version, None
    <2> QED
      BY <2>2 DEF Previewed, STORAGE_VERSION
  <1>8. CASE \E page \in (SUBSET (Ids \ {MaxId})) \ {{}} :
                \E zero \in SUBSET page : RestoreSnapshotPage(page, zero)
    <2>1. /\ persistent'["SchemaVersion"] = persistent["SchemaVersion"]
          /\ instance'["SchemaVersion"] = instance["SchemaVersion"]
      BY <1>0, <1>8 DEF RestoreSnapshotPage, Types
    <2> QED
      BY <1>0, <2>1, SameVersion
  <1>9. CASE \E from \in {"full", "summaries"}, size \in PageSizes : ExportPage(from, size)
    BY <1>1, <1>9 DEF ExportPage
  <1> QED
    BY <1>1, <1>2, <1>3, <1>4, <1>5, <1>6, <1>7, <1>8, <1>9, StorageAssumption
    DEF Next, vars

\* A dry run announces exactly what the migration then does.
THEOREM PreviewCorrect == Spec => PreviewExact
  <1>1. StorageInv /\ [Next]_vars => [Previewed]_vars
    BY StepPreviewed
  <1> QED
    BY <1>1, InitInv, StepInv, PTL DEF Spec, PreviewExact, Previewed

-----------------------------------------------------------------------------
(* Exports.                                                                *)

Exports == [from : {"none", "full", "summaries"}, next : Nat \cup {None},
            began : SUBSET Nat, got : SUBSET Nat, legacy : BOOLEAN]

\* The export has delivered what it began with and lies before the cursor n, all
\* of it once there is none, as far as it read the bound on ids that counts.
Delivered(e, n) ==
    ~late /\ (e.from = "full" => e.legacy) =>
        \A i \in e.began : n = None \/ i < n => i \in e.got

ExportInv ==
    /\ export \in Exports
    /\ export.began \subseteq subs
    /\ Delivered(export, export.next)

\* A page delivers the records between the cursor and the next one.
LEMMA PageExported ==
    ASSUME StorageInv, ExportInv, NEW from \in {"full", "summaries"}, NEW size \in PageSizes,
           ExportPage(from, size)
    PROVE  ExportInv'
  <1> DEFINE start == IF export.next = None THEN 0 ELSE export.next
             bound == IF from = "full" THEN OrZero(instance["NextId"]) ELSE NextId
             seen == IF export.next = None
                       THEN [Idle EXCEPT !.from = from, !.began = subs] ELSE export
             next == IF start + size < bound THEN start + size ELSE None
             page == PageOf(start, size, bound)
  <1>1. /\ Types /\ OneTier /\ IdsFresh /\ subs \subseteq Nat
        /\ size \in Nat /\ size > 0
    BY StorageAssumption DEF StorageInv, Types
  <1>2. /\ export' = [seen EXCEPT !.next = next, !.got = @ \cup page,
                                  !.legacy = @ /\ ~Persisting]
        /\ subs' = subs /\ late' = late
        /\ export.next # None => export.from = from
    BY DEF ExportPage, records
  <1>3. seen \in Exports /\ seen.began \subseteq subs /\ seen.from = from
    BY <1>1, <1>2 DEF ExportInv, Exports, Idle, None
  <1>4. start \in Nat /\ bound \in Int
    <2>1. NextId \in Nat
      BY <1>1, NextIdValue
    <2>2. instance["NextId"] \in Nat \cup {None}
      BY <1>1, Families DEF Types, Value
    <2> QED
      BY <2>1, <2>2 DEF ExportInv, Exports, OrZero, None
  <1>5. Delivered(seen, start)
    <2>1. CASE export.next = None
      BY <1>1, <2>1 DEF Delivered, Idle, None
    <2>2. CASE export.next # None
      BY <2>2 DEF ExportInv
    <2> QED
      BY <2>1, <2>2
  <1>6. (from = "full" => ~Persisting) => bound = NextId
    <2>1. read_config("NextId") = IF Persisting THEN persistent["NextId"] ELSE instance["NextId"]
      BY <1>1, ReadMoved, Families
    <2> QED
      BY <2>1 DEF NextId
  <1>7. \A i \in page : i \in Nat
    BY <1>1 DEF PageOf
  <1> HIDE DEF start, bound, seen, page
  <1>8. /\ export' \in Exports
        /\ export'.began = seen.began /\ export'.from = seen.from
        /\ export'.next = next /\ export'.got = seen.got \cup page
        /\ export'.legacy = (seen.legacy /\ ~Persisting)
    <2>1. next \in Nat \cup {None} /\ page \in SUBSET Nat
      BY <1>1, <1>4, <1>7
    <2> HIDE DEF next
    <2> QED
      BY <1>2, <1>3, <2>1 DEF Exports
  <1>9. ASSUME ~late, from = "full" => seen.legacy /\ ~Persisting,
               NEW i \in seen.began, next = None \/ i < next
        PROVE  i \in seen.got \cup page
    <2>1. i \in Nat /\ i \in subs
      BY <1>1, <1>3
    <2>2. CASE i < start
      <3>1. start # None
        BY <1>4 DEF None
      <3> QED
        BY <1>3, <1>5, <1>9, <2>2, <3>1 DEF Delivered
    <2>3. CASE ~(i < start)
      <3>1. i < bound
        BY <1>1, <1>6, <1>9, <2>1 DEF IdsFresh
      <3>2. i < start + size
        BY <1>1, <1>4, <1>9, <2>1, <3>1 DEF None
      <3>3. start <= i
        BY <1>4, <2>1, <2>3
      <3> QED
        BY <2>1, <3>1, <3>2, <3>3 DEF page, PageOf
    <2> QED
      BY <2>2, <2>3
  <1> HIDE DEF next
  <1> QED
    BY <1>2, <1>3, <1>8, <1>9 DEF ExportInv, Exports, Delivered, None

\* Every call between two pages keeps the export complete so far.
LEMMA ExportStep == StorageInv /\ ExportInv /\ [Next]_vars => ExportInv'
  <1> SUFFICES ASSUME StorageInv, ExportInv, [Next]_vars PROVE ExportInv'
    OBVIOUS
  <1>1. CASE export' = export /\ subs \subseteq subs' /\ (late => late')
    BY <1>1 DEF ExportInv, Exports, Delivered, None
  <1>2. CASE \E from \in {"full", "summaries"}, size \in PageSizes : ExportPage(from, size)
    BY <1>2, PageExported
  <1>3. CASE DoInit \/ Migrate \/ MigrateConfigToPersistent
    BY <1>1, <1>3 DEF DoInit, Migrate, MigrateConfigToPersistent, records
  <1>4. ASSUME NEW zero, CreateSubscription(zero) PROVE ExportInv'
    BY <1>1, <1>4 DEF CreateSubscription
  <1>5. ASSUME NEW k, NEW v, SetConfig(k, v) \/ RemoveConfig(k) PROVE ExportInv'
    BY <1>1, <1>5 DEF SetConfig, RemoveConfig, records
  <1>6. ASSUME NEW page, NEW zero, RestoreSnapshotPage(page, zero) PROVE ExportInv'
    BY <1>1, <1>6 DEF RestoreSnapshotPage
  <1>7. CASE UNCHANGED vars
    BY <1>1, <1>7 DEF vars, records
  <1> QED
    BY <1>2, <1>3, <1>4, <1>5, <1>6, <1>7 DEF Next

\* A finished export has every record it began with, although records are created
\* and the configuration migrates between two pages.
THEOREM ExportsCorrect == Spec => []ExportComplete
  <1>1. Init => ExportInv
    <2> SUFFICES ASSUME Init PROVE ExportInv
      OBVIOUS
    <2>1. export = Idle
      BY DEF Init
    <2> QED
      BY <2>1 DEF ExportInv, Exports, Delivered, Idle, None
  <1>2. ExportInv => ExportComplete
    BY DEF ExportInv, ExportComplete, Delivered
  <1> QED
    BY <1>1, <1>2, InitInv, StepInv, ExportStep, PTL DEF Spec

-----------------------------------------------------------------------------
\* Whatever was called before, an initialized deployment of an older version can be
\* brought to the current one exactly when the records sampled below the bound it
\* reads today pass: nothing that migrate has to move is left where verify_migration
\* finds it, and the bound that verify_migration reads is the one from before the move.
THEOREM UpgradeCorrect == Spec => []UpgradeOpen
  <1>1. StorageInv => UpgradeOpen
    <2> SUFFICES ASSUME StorageInv, Initialized, get_schema_version < STORAGE_VERSION, ~late
                 PROVE  Migratable <=> SamplesPass(NextId)
      BY DEF UpgradeOpen
    <2>1. Types /\ OneTier
      BY DEF StorageInv
    <2>2. \A k \in Moved : LadderInstance[k] = None
      <3>1. CASE get_schema_version <= 2
        BY <2>1, <3>1, MovedTiers DEF LadderInstance
      <3>2. CASE ~(get_schema_version <= 2)
        <4>1. Persisting
          BY <2>1, <3>2, TierByVersion DEF Persisting, STORAGE_VERSION
        <4> QED
          BY <2>1, <3>2, <4>1 DEF OneTier, LadderInstance
      <3> QED
        BY <3>1, <3>2
    <2>3. LadderPersistent["NextId"] = read_config("NextId")
      BY <2>1, LadderKeepsReads, Families
    <2>4. verify_migration(LadderInstance, LadderPersistent) <=> SamplesPass(NextId)
      BY <2>2, <2>3 DEF verify_migration, NextId
    <2> QED
      BY <2>4 DEF Migratable
  <1> QED
    BY <1>1, InitInv, StepInv, PTL DEF Spec
=============================================================================
