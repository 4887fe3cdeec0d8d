SPECIFICATION SwitchSpec
CONSTANTS
    main = main
    blink = blink
    server = server
    core0 = core0
    core1 = core1
    Cores = {core0, core1}
    ReplCore = core1
    ContextTasks = {main, blink, server}
    Threads = {}
    Owner <- NoOwner
    Affinity <- Pinned
    Dirs = {lib}
    Root = Root
    Null = Null
INVARIANTS
    IdNamesOwnTask
    AccessesOwnVm
    StartedContextHasPath
