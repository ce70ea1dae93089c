CONSTANTS
    NameOrder <- MCNameOrder
    Locations <- MCLocations
    MaxLost = 1
    MaxAsks = 3
SPECIFICATION Spec
INVARIANTS ListedOpens FlagRight OpenedAgrees RefusalSays ValuesExact
