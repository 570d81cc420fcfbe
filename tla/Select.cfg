SPECIFICATION Spec
CONSTANTS
    IntBits = 5
    Collation <- MCCollation
    Schemas <- MCSchemas
    RowsOf <- MCRowsOf
    MaxRows <- MCMaxRows
    Indexable <- MCIndexable
    Queries <- MCQueries
INVARIANTS TypeOK OptimizerPreserves 
