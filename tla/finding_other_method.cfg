\* A function is renamed to bar; asked for bar, the tool returns Foo::bar.
CONSTANTS
    f1 = f1
    f2 = f2
    zbar = zbar
    bar = bar
    mangled = mangled
    method = method
    main = main
    Func = {f1, f2}
    Calls <- CallsOf
    Name = {bar, mangled, method, main}
    Demangled <- DemangledOf
    Stripped <- StrippedOf
    InFrontOfParen <- InFrontOf
    FirstName <- NameOf
    LastTab = 3
    MaxAttempts = 2
    MaxCalls = 2
    MaxEdits = 2
SPECIFICATION DecompileSpec
PROPERTIES
    AnswerNeverOfAnother
CHECK_DEADLOCK FALSE
