SPECIFICATION Spec
CONSTANTS
    Keys <- MCKeys
    Entries <- MCEntries
    PageIds <- MCPageIds
    leaf_max_size = 2
    internal_max_size = 3
    pool_size = 4
INVARIANTS TypeOK WellFormed PinsReleased ScansInOrder
PROPERTY ImplementsOrderedMap
