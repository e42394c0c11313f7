CONSTANTS
    Word = 1024
    KeyWord = 1048576
    Golden = 633
    Powers <- MCPowers
    Primes = {2, 3, 5}
    MaxK = 6
    BucketMax = 3
    Groups <- MCGroups
    Order <- MCOrder
    Width <- MCWidth
    StateSpace <- MCStateSpace
    LookedUp <- MCLookedUp
SPECIFICATION SpecPhash
INVARIANTS FindsThePattern LookupIsDirect ConflictsAreReal
CHECK_DEADLOCK FALSE
