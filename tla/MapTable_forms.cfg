\* Tables of up to four slots; a map may fail to grow.
CONSTANTS
    Keys <- MCKeys
    Qstrs = {"qa", "qb"}
    Strs = {"sa"}
    Eq <- MCEq
    HashOf <- MCHash
    Values = {"u", "v"}
    Forms = {"map", "set", "ordered"}
    Failing = {"map"}
    Popping = {"map"}
    InitAllocs = {0, 1, 3}
    MaxAlloc = 4
SPECIFICATION Spec
INVARIANT EveryKeyFound
PROPERTY ImplementsDictionary
