CONSTANTS
    main = main
    alias = alias
    NoName = NoName
    Names = {main, alias}
    Addresses = {0, 1, 2, 3, 4, 5, 6, 7, 8}
    Sections = {1, 2, 3}
    DecodeLimit = 3
    Clients <- MCClients
    Regions <- MCRegions
SPECIFICATION SpecSweep
INVARIANTS AvlShape SymbolsAreStarts
PROPERTIES TableImplementsMap SweepReachesTheEnd
CHECK_DEADLOCK FALSE
