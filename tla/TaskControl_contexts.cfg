CONSTANTS
    main = main
    a = a
    b = b
    List <- ThreeContexts
    Waker = waker
    MayControl <- PeerAndSelf
    SleepAtStart = {a}
    Registrable <- ButtonResponses
    UseWaker = TRUE
    QueueLimit = 2
    MaxResponses = 2
SPECIFICATION FairSpec
INVARIANT FlagTellsTruth
PROPERTY ResumeAtHeadWakes
