SPECIFICATION Spec
CONSTANTS
    Main = Main
    Children = {c1, c2}
    Idle = Idle
    NoThread = NoThread
INVARIANT
    OneNodePerThread
