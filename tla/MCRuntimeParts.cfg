CONSTANTS
    Keep = 2
    MaxSize = 4
    Parts = 2
    MaxRecords = 5
    MaxStarts = 3
    Records = {r1, r2}
    FieldCount = 2
    Values = {v1, nan}
    NaN = nan
    Unknown = Unknown
    FromStat = {"State"}
    MaxProcesses = 2
    MaxPrograms = 2
    Letters = {"S", "1"}
    NameLength = 4
    Rest <- FieldsOfLine
    Types = {A, B}
    ClassNames = {"Foo", "Bar"}
    Variables = {x}
    MaxClasses = 2
    MaxObjects = 1
    Handles = {h, g}
    None = None
    MaxFrames = 3
    MaxLuaCalls = 3
    MaxArguments = 1
    MaxPcalls = 1
    Exceptions = {e1, e2}
    Keys = {k}
    MaxPath = 3
    MaxActive = 3
SPECIFICATION PartsSpec
INVARIANTS LogsReadBack HashIsCurrent ReplyAsRead NameIsOneField ReadAsPushed PinnedAlive SinglesAreOwn OneExceptionUnwinds RunsOnce PanicsOnlyIfCut
PROPERTIES UpdateCopies ExceptionReported
