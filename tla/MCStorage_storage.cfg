\* One required and one optional setting, set or not, a switch, and an entry that no
\* migration moves, on deployments of every version, with three ids.
SPECIFICATION Spec
CONSTANTS
    admin = admin
    operator = operator
    oracle = oracle
    Required = {admin}
    Optional = {operator}
    Extras = {oracle}
    Values = {0}
    Deployed <- AnyVersion
    MaxId = 3
    PageSizes = {2}
INVARIANTS
    LastWriteRead
    IdsFresh
    ExportComplete
    UpgradeOpen
PROPERTIES
    PreviewExact
CHECK_DEADLOCK FALSE
