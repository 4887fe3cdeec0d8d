\* popitem is also called on an OrderedDict.
CONSTANTS
    Keys <- MCKeys
    Qstrs = {"qa", "qb"}
    Strs = {"sa"}
    Eq <- MCEq
    HashOf <- MCHash
    Values = {"u", "v"}
    Forms = {"ordered"}
    Failing = {}
    Popping = {"ordered"}
    InitAllocs = {0}
    MaxAlloc = 4
SPECIFICATION Spec
INVARIANT EveryKeyFound
