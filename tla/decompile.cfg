\* A method Foo::bar that calls a function main; either may be renamed, to bar
\* and to _bar among others, so that names tell them apart or do not.
CONSTANTS
    f1 = f1
    f2 = f2
    zbar = zbar
    bar = bar
    mangled = mangled
    method = method
    main = main
    Func = {f1, f2}
    Calls <- CallsOf
    Name = {zbar, bar, mangled, method, main}
    Demangled <- DemangledOf
    Stripped <- StrippedOf
    InFrontOfParen <- InFrontOf
    FirstName <- NameOf
    LastTab = 3
    MaxAttempts = 2
    MaxCalls = 2
    MaxEdits = 2
SPECIFICATION DecompileSpec
INVARIANTS
    TabsDoNotPileUp
PROPERTIES
    AnswerIsRequested
    ShownIsFound
    EveryCallIsAnswered
\* The bound on calls ends every behaviour.
CHECK_DEADLOCK FALSE
